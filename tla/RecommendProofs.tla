-------------------------- MODULE RecommendProofs ---------------------------
(***************************************************************************)
(* What internal/recommend computes, for all samples and thresholds: the   *)
(* percentile exists and splits the samples as asked, rounding stays close *)
(* and within the clamps.                                                  *)
(***************************************************************************)
EXTENDS Recommend, FiniteSetTheorems, WellFoundedInduction, NaturalsInduction, TLAPS

-----------------------------------------------------------------------------
(* Finite sets of numbers.                                                 *)

LessPairs == {pair \in Nat \X Nat : pair[1] < pair[2]}

LEMMA NatIsOrdered == IsWellFoundedOn(LessPairs, Nat)
  BY NatLessThanWellFounded DEF OpToRel, LessPairs

LEMMA LeastNumber ==
  ASSUME NEW S, S \subseteq Nat, S # {}
  PROVE  \E n \in S : \A k \in S : n <= k
  <1>1. PICK n \in S : \A k \in S : <<k, n>> \notin LessPairs
        BY WFMin, NatIsOrdered
  <1>2. ASSUME NEW k \in S PROVE n <= k
    <2>1. k \in Nat /\ n \in Nat
          OBVIOUS
    <2>2. ~(k < n)
          BY <1>1, <2>1 DEF LessPairs
    <2> QED  BY <2>1, <2>2
  <1> QED  BY <1>2

\* Of the first k numbers of h, one is the largest.
HasLargest(h, k) == \E j \in 1..k : \A i \in 1..k : h[i] <= h[j]

LEMMA LargestOfFirst ==
  ASSUME NEW n \in Nat \ {0}, NEW h \in [1..n -> Nat]
  PROVE  HasLargest(h, n)
  <1> DEFINE Bad == {k \in 1..n : ~HasLargest(h, k)}
  <1>1. ASSUME NEW k \in Bad, \A i \in Bad : k <= i PROVE FALSE
    <2>1. k \in 1..n
          OBVIOUS
    <2>2. HasLargest(h, 1)
          BY DEF HasLargest
    <2>3. k # 1
          BY <2>2
    <2>4. k - 1 \in 1..n /\ ~(k <= k - 1)
          BY <2>1, <2>3
    <2>5. HasLargest(h, k - 1)
          BY <1>1, <2>4
    <2>6. PICK j \in 1..(k - 1) : \A i \in 1..(k - 1) : h[i] <= h[j]
          BY <2>5 DEF HasLargest
    <2>7. /\ j \in 1..k /\ k \in 1..k
          /\ \A i \in 1..k : i \in 1..(k - 1) \/ i = k
          BY <2>1
    <2>8. h[j] \in Nat /\ h[k] \in Nat /\ \A i \in 1..k : h[i] \in Nat
          BY <2>1, <2>7
    <2>9. CASE h[k] <= h[j]
      <3>1. \A i \in 1..k : h[i] <= h[j]
            BY <2>6, <2>7, <2>9
      <3>2. HasLargest(h, k)
            BY <2>7, <3>1 DEF HasLargest
      <3> QED  BY <3>2
    <2>10. CASE h[j] <= h[k]
      <3>1. \A i \in 1..k : h[i] <= h[k]
            BY <2>6, <2>7, <2>8, <2>10
      <3>2. HasLargest(h, k)
            BY <2>7, <3>1 DEF HasLargest
      <3> QED  BY <3>2
    <2> QED  BY <2>8, <2>9, <2>10
  <1>2. Bad \subseteq Nat
        OBVIOUS
  <1>3. Bad = {}
    <2> HIDE DEF Bad
    <2> QED  BY <1>1, <1>2, LeastNumber
  <1> QED  BY <1>3

\* A function of finitely many values has a largest one.
LEMMA LargestValue ==
  ASSUME NEW I, IsFiniteSet(I), I # {}, NEW f, \A i \in I : f[i] \in Nat
  PROVE  \E j \in I : \A i \in I : f[i] <= f[j]
  <1>1. PICK n \in Nat : ExistsSurjection(1..n, I)
        BY FS_NatSurjection
  <1>2. PICK g \in [1..n -> I] : \A i \in I : \E k \in 1..n : g[k] = i
        BY <1>1 DEF ExistsSurjection, Surjection
  <1>3. n # 0
        BY <1>2
  <1> DEFINE h == [k \in 1..n |-> f[g[k]]]
  <1>4. h \in [1..n -> Nat]
        BY <1>2
  <1>5. HasLargest(h, n)
    <2> HIDE DEF h
    <2> QED  BY <1>3, <1>4, LargestOfFirst
  <1>6. PICK j \in 1..n : \A i \in 1..n : h[i] <= h[j]
        BY <1>5 DEF HasLargest
  <1>7. \A i \in 1..n : f[g[i]] <= f[g[j]]
        BY <1>6
  <1> QED  BY <1>2, <1>7

-----------------------------------------------------------------------------
(* Ranks.                                                                  *)

\* Finitely many observations, at least one of them.
Sampled(samples) ==
    /\ IsFiniteSet(DOMAIN samples) /\ DOMAIN samples # {}
    /\ \A i \in DOMAIN samples : samples[i] \in Nat

LEMMA Counts ==
  ASSUME NEW samples, Sampled(samples), NEW v
  PROVE  /\ Count(samples) \in Nat \ {0}
         /\ IsFiniteSet(Under(samples, v)) /\ Cardinality(Under(samples, v)) \in Nat
         /\ IsFiniteSet(UpTo(samples, v)) /\ Cardinality(UpTo(samples, v)) \in Nat
  BY FS_CardinalityType, FS_EmptySet, FS_Subset DEF Sampled, Count, Under, UpTo

LEMMA RankExists ==
  ASSUME NEW samples, Sampled(samples), NEW k \in 1..Count(samples)
  PROVE  \E v \in {samples[i] : i \in DOMAIN samples} :
            /\ Cardinality(Under(samples, v)) < k
            /\ Cardinality(UpTo(samples, v)) >= k
  <1> DEFINE V == {samples[i] : i \in DOMAIN samples}
             Good == {v \in V : Cardinality(UpTo(samples, v)) >= k}
  <1> USE DEF Sampled
  <1>1. Good # {}
    <2>1. PICK j \in DOMAIN samples : \A i \in DOMAIN samples : samples[i] <= samples[j]
          BY LargestValue
    <2>2. UpTo(samples, samples[j]) = DOMAIN samples
          BY <2>1 DEF UpTo
    <2>3. Cardinality(UpTo(samples, samples[j])) >= k
          BY <2>2, Counts DEF Count
    <2> QED  BY <2>3
  <1>2. PICK v \in Good : \A u \in Good : v <= u
        BY <1>1, LeastNumber
  <1>3. ASSUME Cardinality(Under(samples, v)) >= k PROVE FALSE
    <2>1. Under(samples, v) # {}
          BY <1>3, FS_EmptySet
    <2>2. PICK j \in Under(samples, v) : \A i \in Under(samples, v) : samples[i] <= samples[j]
      <3>1. \A i \in Under(samples, v) : samples[i] \in Nat
            BY DEF Under
      <3> QED  BY <2>1, <3>1, Counts, LargestValue
    <2>3. Under(samples, v) \subseteq UpTo(samples, samples[j])
          BY <2>2 DEF Under, UpTo
    <2>4. Cardinality(UpTo(samples, samples[j])) >= k
          BY <1>3, <2>3, Counts, FS_Subset
    <2>5. samples[j] \in Good /\ samples[j] < v /\ samples[j] \in Nat /\ v \in Nat
          BY <2>2, <2>4 DEF Under
    <2> QED  BY <1>2, <2>5
  <1> QED  BY <1>2, <1>3, Counts

LEMMA RankedIsRank ==
  ASSUME NEW samples, Sampled(samples), NEW k \in 1..Count(samples)
  PROVE  /\ Ranked(samples, k) \in Nat
         /\ Ranked(samples, k) \in {samples[i] : i \in DOMAIN samples}
         /\ Cardinality(Under(samples, Ranked(samples, k))) < k
         /\ Cardinality(UpTo(samples, Ranked(samples, k))) >= k
  <1>1. /\ Ranked(samples, k) \in {samples[i] : i \in DOMAIN samples}
        /\ Cardinality(Under(samples, Ranked(samples, k))) < k
        /\ Cardinality(UpTo(samples, Ranked(samples, k))) >= k
        BY RankExists DEF Ranked
  <1> QED  BY <1>1 DEF Sampled

LEMMA RanksAreSorted ==
  ASSUME NEW samples, Sampled(samples),
         NEW k \in 1..Count(samples), NEW l \in 1..Count(samples), k <= l
  PROVE  Ranked(samples, k) <= Ranked(samples, l)
  <1> DEFINE a == Ranked(samples, k)
             b == Ranked(samples, l)
  <1>1. a \in Nat /\ b \in Nat /\ Cardinality(Under(samples, a)) < k
        /\ Cardinality(UpTo(samples, b)) >= l
        BY RankedIsRank
  <1> HIDE DEF a, b
  <1> SUFFICES ASSUME b < a PROVE FALSE
      BY <1>1 DEF a, b
  <1>2. UpTo(samples, b) \subseteq Under(samples, a)
        BY <1>1 DEF UpTo, Under, Sampled
  <1>3. Cardinality(UpTo(samples, b)) <= Cardinality(Under(samples, a))
        BY <1>2, Counts, FS_Subset
  <1> QED  BY <1>1, <1>3, Counts

-----------------------------------------------------------------------------
(* The percentile.                                                         *)

\* A product grows with its factors.
LEMMA Product ==
  ASSUME NEW a \in Nat, NEW b \in Nat, a <= b, NEW c \in Nat
  PROVE  a * c \in Nat /\ b * c \in Nat /\ a * c <= b * c
  <1>1. PICK d \in Nat : b = a + d
        <2>1. b - a \in Nat /\ b = a + (b - a)
              OBVIOUS
        <2> QED  BY <2>1
  <1>2. b * c = a * c + d * c /\ d * c \in Nat /\ a * c \in Nat
        BY <1>1
  <1> QED  BY <1>2

\* The rank that p asks for lies between two samples, or on one.
LEMMA RankPosition ==
  ASSUME NEW n \in Nat \ {0}, NEW p \in 0..100
  PROVE  LET rank == p * (n - 1) IN
         /\ rank \in Nat /\ rank = 100 * (rank \div 100) + (rank % 100)
         /\ rank % 100 \in 0..99
         /\ rank \div 100 \in Nat /\ rank \div 100 + 1 \in 1..n
         /\ rank % 100 # 0 => rank \div 100 + 2 \in 1..n
  <1> DEFINE rank == p * (n - 1)
  <1>1. rank \in Nat /\ rank <= 100 * (n - 1)
        BY Product
  <1> HIDE DEF rank
  <1>2. rank = 100 * (rank \div 100) + (rank % 100) /\ rank % 100 \in 0..99
        /\ rank \div 100 \in Nat
        BY <1>1
  <1>3. /\ rank \div 100 + 1 \in 1..n
        /\ rank % 100 # 0 => rank \div 100 + 2 \in 1..n
        BY <1>1, <1>2
  <1> QED  BY <1>1, <1>2, <1>3 DEF rank

\* It lies between the samples of the ranks next to it.
LEMMA PercentileBetween ==
  ASSUME NEW samples, Sampled(samples), NEW p \in 0..100
  PROVE  LET rank == p * (Count(samples) - 1)
             low == rank \div 100
             value == Percentile(samples, p)
         IN  /\ value \in Nat
             /\ value >= 100 * Ranked(samples, low + 1)
             /\ rank % 100 = 0 => value = 100 * Ranked(samples, low + 1)
             /\ rank % 100 # 0 => value <= 100 * Ranked(samples, low + 2)
  <1> DEFINE n == Count(samples)
             rank == p * (n - 1)
             low == rank \div 100
             frac == rank % 100
             a == Ranked(samples, low + 1)
             b == Ranked(samples, low + 2)
  <1>1. n \in Nat \ {0}
        BY Counts
  <1>2. frac \in 0..99 /\ low + 1 \in 1..n /\ (frac # 0 => low + 2 \in 1..n) /\ low \in Nat
        BY <1>1, RankPosition
  <1>3. a \in Nat
        BY <1>2, RankedIsRank
  <1>4. CASE frac = 0
    <2>1. Percentile(samples, p) = 100 * a
          BY <1>4 DEF Percentile
    <2> QED  BY <1>3, <1>4, <2>1
  <1>5. CASE frac # 0
    <2>1. Percentile(samples, p) = a * (100 - frac) + b * frac
          BY <1>5 DEF Percentile
    <2>2. low + 1 <= low + 2
      <3> HIDE DEF low
      <3> QED  BY <1>2
    <2>3. b \in Nat /\ a <= b
          BY <1>2, <1>5, <2>2, RankedIsRank, RanksAreSorted
    <2> HIDE DEF a, b, frac
    <2>4. a * frac <= b * frac /\ a * frac \in Nat /\ b * frac \in Nat
          BY <1>2, <1>3, <2>3, Product
    <2>5. /\ a * (100 - frac) <= b * (100 - frac)
          /\ a * (100 - frac) \in Nat /\ b * (100 - frac) \in Nat
          BY <1>2, <1>3, <2>3, Product
    <2>6. a * (100 - frac) + a * frac = 100 * a /\ b * (100 - frac) + b * frac = 100 * b
          BY <1>2, <1>3, <2>3
    <2>7. /\ a * (100 - frac) + b * frac \in Nat
          /\ a * (100 - frac) + b * frac >= 100 * a
          /\ a * (100 - frac) + b * frac <= 100 * b
          BY <1>3, <2>3, <2>4, <2>5, <2>6
    <2> QED  BY <1>5, <2>1, <2>7 DEF a, b, frac
  <1> QED  BY <1>4, <1>5

\* The percentile splits the samples as asked (engine.go:60): no more of them
\* are above it than the share that p leaves out, and no more below it than p.
THEOREM PercentileSplits ==
  ASSUME NEW samples, Sampled(samples), NEW p \in 0..100
  PROVE  LET value == Percentile(samples, p)
             rest == Count(samples) - 1
             above == {i \in DOMAIN samples : samples[i] * 100 > value}
             below == {i \in DOMAIN samples : samples[i] * 100 < value}
         IN  /\ value \in Nat
             /\ 100 * Cardinality(above) <= (100 - p) * rest + 99
             /\ 100 * Cardinality(below) <= p * rest + 99
  <1> DEFINE n == Count(samples)
             rank == p * (n - 1)
             low == rank \div 100
             frac == rank % 100
             a == Ranked(samples, low + 1)
             b == Ranked(samples, low + 2)
             value == Percentile(samples, p)
             above == {i \in DOMAIN samples : samples[i] * 100 > value}
             below == {i \in DOMAIN samples : samples[i] * 100 < value}
  <1>1. n \in Nat \ {0} /\ n = Cardinality(DOMAIN samples)
        BY Counts DEF Count
  <1>2. /\ rank \in Nat /\ rank = 100 * low + frac /\ frac \in 0..99
        /\ low + 1 \in 1..n /\ (frac # 0 => low + 2 \in 1..n) /\ low \in Nat
        BY <1>1, RankPosition
  <1>3. /\ value \in Nat /\ value >= 100 * a
        /\ frac = 0 => value = 100 * a
        /\ frac # 0 => value <= 100 * b
        BY PercentileBetween
  <1>4. a \in Nat /\ Cardinality(UpTo(samples, a)) >= low + 1
        /\ Cardinality(Under(samples, a)) < low + 1
        BY <1>2, RankedIsRank
  <1>5. frac # 0 => b \in Nat /\ Cardinality(Under(samples, b)) < low + 2
        BY <1>2, RankedIsRank
  <1>6. /\ IsFiniteSet(above) /\ Cardinality(above) \in Nat
        /\ IsFiniteSet(below) /\ Cardinality(below) \in Nat
        BY FS_Subset, FS_CardinalityType DEF Sampled
  <1>7. Cardinality(above) <= n - (low + 1)
    <2>1. above \cap UpTo(samples, a) = {}
      <3> SUFFICES ASSUME NEW i \in above, i \in UpTo(samples, a) PROVE FALSE
          OBVIOUS
      <3>1. samples[i] \in Nat /\ samples[i] * 100 > value /\ samples[i] <= a
            BY DEF Sampled, UpTo
      <3> HIDE DEF value, a
      <3> QED  BY <1>3, <1>4, <3>1
    <2>2. above \cup UpTo(samples, a) \subseteq DOMAIN samples
          BY DEF UpTo
    <2>3. Cardinality(above \cup UpTo(samples, a)) <= n
          BY <1>1, <2>2, FS_Subset DEF Sampled
    <2>4. Cardinality(above \cup UpTo(samples, a))
             = Cardinality(above) + Cardinality(UpTo(samples, a))
      <3>1. Cardinality(above \cup UpTo(samples, a))
               = Cardinality(above) + Cardinality(UpTo(samples, a))
                    - Cardinality(above \cap UpTo(samples, a))
            BY <1>6, Counts, FS_Union
      <3>2. Cardinality(above \cap UpTo(samples, a)) = 0
            BY <2>1, FS_EmptySet
      <3> HIDE DEF above, a
      <3> QED  BY <1>6, <3>1, <3>2, Counts
    <2> HIDE DEF above, a, low, n
    <2> QED  BY <1>1, <1>2, <1>4, <1>6, <2>3, <2>4, Counts
  <1>8. 100 * Cardinality(below) <= rank + 99
    <2>1. CASE frac = 0
      <3>1. below \subseteq Under(samples, a)
            BY <1>3, <1>4, <2>1 DEF Under, Sampled
      <3>2. Cardinality(below) <= Cardinality(Under(samples, a))
            BY <3>1, Counts, FS_Subset
      <3> HIDE DEF below, a, low, n, rank
      <3> QED  BY <1>2, <1>4, <1>6, <3>2, Counts
    <2>2. CASE frac # 0
      <3>1. below \subseteq Under(samples, b)
        <4> SUFFICES ASSUME NEW i \in below PROVE samples[i] < b
            BY DEF Under
        <4>1. samples[i] \in Nat /\ samples[i] * 100 < value
              BY DEF Sampled
        <4> HIDE DEF value, b, frac
        <4> QED  BY <1>3, <1>5, <2>2, <4>1
      <3>2. Cardinality(below) <= Cardinality(Under(samples, b))
            BY <3>1, Counts, FS_Subset
      <3>3. Cardinality(Under(samples, b)) < low + 2 /\ frac >= 1
            BY <1>2, <1>5, <2>2
      <3> HIDE DEF below, b, low, n, rank, frac
      <3> QED  BY <1>2, <1>6, <3>2, <3>3, Counts
    <2> QED  BY <2>1, <2>2
  <1>9. (100 - p) * (n - 1) = 100 * (n - 1) - rank
        BY <1>1
  <1>10. 100 * Cardinality(above) <= (100 - p) * (n - 1) + 99
    <2> HIDE DEF above, low, n, rank, frac
    <2> QED  BY <1>1, <1>2, <1>6, <1>7, <1>9
  <1> QED  BY <1>3, <1>8, <1>10

-----------------------------------------------------------------------------
(* Headroom and clamps.                                                    *)

LEMMA ScaleType == Scale \in Nat \ {0}
  BY UnitAssumption DEF Scale

LEMMA ClampedBounds ==
  ASSUME NEW t \in Thresholds, NEW r \in Nat
  PROVE  /\ Clamped(r, t) \in Nat
         /\ t.max # Unset => Clamped(r, t) <= t.max * Scale
         /\ t.max = Unset => Clamped(r, t) >= r
         /\ t.min # Unset /\ (t.max # Unset => t.min <= t.max) =>
               Clamped(r, t) >= t.min * Scale
  <1> DEFINE raised == IF t.min # Unset /\ r < t.min * Scale THEN t.min * Scale ELSE r
  <1>1. /\ t.min # Unset => t.min \in Nat /\ t.min * Scale \in Nat
        /\ t.max # Unset => t.max \in Nat /\ t.max * Scale \in Nat
        BY ScaleType, Product DEF Thresholds
  <1>2. /\ raised \in Nat /\ raised >= r
        /\ t.min # Unset => raised >= t.min * Scale
        BY <1>1
  <1>3. t.min # Unset /\ t.max # Unset /\ t.min <= t.max => t.min * Scale <= t.max * Scale
        BY <1>1, ScaleType, Product
  <1>4. Clamped(r, t) = IF t.max # Unset /\ raised > t.max * Scale THEN t.max * Scale ELSE raised
        BY DEF Clamped
  <1> HIDE DEF raised
  <1> QED  BY <1>1, <1>2, <1>3, <1>4

\* The percentile with its headroom.
Wanted(samples, t) == Percentile(samples, PercentileOf(t)) * (100 + t.headroom)

LEMMA WantedType ==
  ASSUME NEW samples, Sampled(samples), NEW t \in Thresholds
  PROVE  /\ PercentileOf(t) \in 0..100
         /\ Percentile(samples, PercentileOf(t)) \in Nat
         /\ Wanted(samples, t) \in Nat
         /\ Wanted(samples, t) >= 100 * Percentile(samples, PercentileOf(t))
         /\ Request(samples, t) = Clamped(Wanted(samples, t), t)
  <1>1. PercentileOf(t) \in 0..100
        BY DEF PercentileOf, Thresholds
  <1>2. Percentile(samples, PercentileOf(t)) \in Nat
        BY <1>1, PercentileSplits
  <1>3. t.headroom \in Nat
        BY DEF Thresholds
  <1>4. /\ 100 * Percentile(samples, PercentileOf(t)) <= Wanted(samples, t)
        /\ Wanted(samples, t) \in Nat
        BY <1>2, <1>3, Product DEF Wanted
  <1> QED  BY <1>1, <1>2, <1>4 DEF Request, Wanted

LEMMA RequestBounds ==
  ASSUME NEW samples, Sampled(samples), NEW t \in Thresholds
  PROVE  /\ Request(samples, t) \in Nat
         /\ t.max # Unset => Request(samples, t) <= t.max * Scale
         /\ t.min # Unset /\ (t.max # Unset => t.min <= t.max) =>
               Request(samples, t) >= t.min * Scale
  BY WantedType, ClampedBounds

\* A request without a ceiling is exceeded by no more samples than the
\* percentile leaves out.
LEMMA RequestIsEnough ==
  ASSUME NEW samples, Sampled(samples), NEW t \in Thresholds, t.max = Unset
  PROVE  LET above == {i \in DOMAIN samples : samples[i] * 10000 > Request(samples, t)}
         IN  100 * Cardinality(above)
                <= (100 - PercentileOf(t)) * (Count(samples) - 1) + 99
  <1> DEFINE value == Percentile(samples, PercentileOf(t))
             above == {i \in DOMAIN samples : samples[i] * 10000 > Request(samples, t)}
             over == {i \in DOMAIN samples : samples[i] * 100 > value}
             most == (100 - PercentileOf(t)) * (Count(samples) - 1) + 99
  <1>1. value \in Nat /\ Request(samples, t) \in Nat /\ Request(samples, t) >= 100 * value
        BY WantedType, ClampedBounds, RequestBounds
  <1>2. above \subseteq over
    <2> SUFFICES ASSUME NEW i \in above PROVE samples[i] * 100 > value
        OBVIOUS
    <2>1. samples[i] \in Nat /\ samples[i] * 10000 > Request(samples, t)
          BY DEF Sampled
    <2> HIDE DEF value
    <2> QED  BY <1>1, <2>1
  <1>3. IsFiniteSet(over) /\ Cardinality(over) \in Nat
        BY FS_Subset, FS_CardinalityType DEF Sampled
  <1>4. Cardinality(above) \in Nat /\ Cardinality(above) <= Cardinality(over)
        BY <1>2, <1>3, FS_Subset, FS_CardinalityType
  <1>5. 100 * Cardinality(over) <= most
        BY WantedType, PercentileSplits
  <1>6. most \in Int
        BY WantedType, Counts
  <1> HIDE DEF above, over, most
  <1>7. 100 * Cardinality(above) <= most
        BY <1>3, <1>4, <1>5, <1>6
  <1> QED  BY <1>7 DEF above, most

-----------------------------------------------------------------------------
(* Rounding.                                                               *)

LEMMA Rounding ==
  ASSUME NEW a \in Nat, NEW b \in Nat \ {0}
  PROVE  /\ Round(a, b) \in Nat
         /\ 2 * b * Round(a, b) <= 2 * a + b
         /\ 2 * a + b < 2 * b * (Round(a, b) + 1)
  BY DEF Round

\* It is monotone, and exact for whole numbers.
LEMMA RoundAtLeast ==
  ASSUME NEW a \in Nat, NEW b \in Nat \ {0}, NEW q \in Nat, 2 * b * q <= 2 * a + b
  PROVE  Round(a, b) >= q
  <1> DEFINE r == Round(a, b)
  <1>1. r \in Nat /\ 2 * a + b < 2 * b * (r + 1)
        BY Rounding
  <1> HIDE DEF r
  <1> SUFFICES ASSUME r + 1 <= q PROVE FALSE
      BY <1>1 DEF r
  <1>2. (r + 1) * (2 * b) <= q * (2 * b)
        BY <1>1, Product
  <1>3. (r + 1) * (2 * b) = 2 * b * (r + 1) /\ q * (2 * b) = 2 * b * q
        BY <1>1
  <1> QED  BY <1>1, <1>2, <1>3

LEMMA RoundAtMost ==
  ASSUME NEW a \in Nat, NEW b \in Nat \ {0}, NEW q \in Nat, 2 * a + b < 2 * b * (q + 1)
  PROVE  Round(a, b) <= q
  <1> DEFINE r == Round(a, b)
  <1>1. r \in Nat /\ 2 * b * r <= 2 * a + b
        BY Rounding
  <1> HIDE DEF r
  <1> SUFFICES ASSUME q + 1 <= r PROVE FALSE
      BY <1>1 DEF r
  <1>2. (q + 1) * (2 * b) <= r * (2 * b)
        BY <1>1, Product
  <1>3. (q + 1) * (2 * b) = 2 * b * (q + 1) /\ r * (2 * b) = 2 * b * r
        BY <1>1
  <1> QED  BY <1>1, <1>2, <1>3

\* What is written to the manifest keeps the clamps, and the limit, which is
\* rounded by itself, is not under the request.
THEOREM RoundedIsAdmissible ==
  ASSUME NEW samples, Sampled(samples), NEW t \in Thresholds
  PROVE  LET request == Round(Request(samples, t), Scale)
             limit == Round(Limit(samples, t), 10 * Scale)
         IN  /\ request \in Nat /\ limit \in Nat
             /\ t.max # Unset => request <= t.max
             /\ t.min # Unset /\ (t.max # Unset => t.min <= t.max) => request >= t.min
             /\ t.multiplier >= 10 => limit >= request
  <1> DEFINE r == Request(samples, t)
             k == t.multiplier
  <1>1. Scale \in Nat \ {0} /\ 10 * Scale \in Nat \ {0} /\ r \in Nat /\ k \in Nat
        BY ScaleType, RequestBounds DEF Thresholds
  <1>2. /\ t.min # Unset => t.min \in Nat
        /\ t.max # Unset => t.max \in Nat
        BY DEF Thresholds
  <1>3. Limit(samples, t) = r * k /\ r * k \in Nat
        BY <1>1 DEF Limit
  <1>4. Round(r, Scale) \in Nat /\ Round(r * k, 10 * Scale) \in Nat
        BY <1>1, <1>3, Rounding
  <1>5. ASSUME t.max # Unset PROVE Round(r, Scale) <= t.max
    <2>1. r <= t.max * Scale
          BY <1>5, RequestBounds
    <2>2. 2 * Scale * (t.max + 1) = 2 * (t.max * Scale) + 2 * Scale /\ t.max * Scale \in Nat
          BY <1>1, <1>2, <1>5
    <2> HIDE DEF r
    <2>3. 2 * r + Scale < 2 * Scale * (t.max + 1)
          BY <1>1, <2>1, <2>2
    <2> QED  BY <1>1, <1>2, <1>5, <2>3, RoundAtMost
  <1>6. ASSUME t.min # Unset, t.max # Unset => t.min <= t.max PROVE Round(r, Scale) >= t.min
    <2>1. r >= t.min * Scale
          BY <1>6, RequestBounds
    <2>2. 2 * Scale * t.min = 2 * (t.min * Scale) /\ t.min * Scale \in Nat
          BY <1>1, <1>2, <1>6
    <2> HIDE DEF r
    <2>3. 2 * Scale * t.min <= 2 * r + Scale
          BY <1>1, <2>1, <2>2
    <2> QED  BY <1>1, <1>2, <1>6, <2>3, RoundAtLeast
  <1>7. ASSUME k >= 10 PROVE Round(r * k, 10 * Scale) >= Round(r, Scale)
    <2>1. PICK q \in Nat : q = Round(r, Scale) /\ 2 * Scale * q <= 2 * r + Scale
          BY <1>1, Rounding
    <2> HIDE DEF r, k
    <2>2. 10 * r <= k * r /\ k * r = r * k
          BY <1>1, <1>7, Product
    <2>3. 2 * (10 * Scale) * q = 10 * (2 * Scale * q) /\ 2 * Scale * q \in Nat
          BY <1>1
    <2>4. 2 * (10 * Scale) * q <= 2 * (r * k) + 10 * Scale
          BY <1>1, <1>3, <2>1, <2>2, <2>3
    <2> QED  BY <1>1, <1>3, <2>1, <2>4, RoundAtLeast
  <1> QED  BY <1>3, <1>4, <1>5, <1>6, <1>7

-----------------------------------------------------------------------------
(* Changes.                                                                *)

LEMMA ChangeType ==
  ASSUME NEW current \in Nat, NEW request \in Nat
  PROVE  /\ ChangePercent(current, request)[1] \in Nat
         /\ ChangePercent(current, request)[2] \in Nat \ {0}
  <1>1. current * Scale \in Nat /\ (current # 0 => current * Scale # 0)
        BY ScaleType
  <1>2. Distance(request, current * Scale) \in Nat
        BY <1>1 DEF Distance
  <1> QED  BY <1>1, <1>2 DEF ChangePercent

\* The request that was rounded is no change of ten percent, if it is more
\* than five units.
LEMMA RoundingIsQuiet ==
  ASSUME NEW request \in Nat, NEW current, current = Round(request, Scale), current > 5,
         NEW percent \in Nat, percent >= 10
  PROVE  Below(ChangePercent(current, request), percent)
  <1>1. Scale \in Nat \ {0} /\ current \in Nat
        BY ScaleType, Rounding
  <1> DEFINE whole == current * Scale
  <1>2. whole \in Nat /\ 6 * Scale <= whole
        BY <1>1, Product
  <1>3. 2 * whole <= 2 * request + Scale /\ 2 * request < 2 * whole + Scale
    <2>1. 2 * Scale * current <= 2 * request + Scale
          /\ 2 * request + Scale < 2 * Scale * (current + 1)
          BY <1>1, Rounding
    <2>2. 2 * Scale * current = 2 * whole /\ 2 * Scale * (current + 1) = 2 * whole + 2 * Scale
          BY <1>1
    <2> HIDE DEF whole
    <2> QED  BY <1>1, <1>2, <2>1, <2>2
  <1>4. 10 * whole <= percent * whole
        BY <1>2, Product
  <1>5. ChangePercent(current, request) = <<Distance(request, whole) * 100, whole>>
        BY <1>1 DEF ChangePercent
  <1> HIDE DEF whole
  <1>6. Distance(request, whole) * 100 <= 50 * Scale
        BY <1>1, <1>2, <1>3 DEF Distance
  <1>7. Distance(request, whole) * 100 < percent * whole
    <2>1. Distance(request, whole) * 100 \in Nat /\ percent * whole \in Nat
          BY <1>2 DEF Distance
    <2> QED  BY <1>1, <1>2, <1>4, <1>6, <2>1
  <1> QED  BY <1>5, <1>7 DEF Below

=============================================================================
