------------------------------- MODULE OlapProofs -------------------------------
(***************************************************************************)
(* Lemmas about the aggregations of Olap and Reports, for any readings: how  *)
(* far one of them can be from the mean, which detect_anomalies() looks at,  *)
(* and what the reports of one batch, each with groups of its own, add up to.*)
(***************************************************************************)
EXTENDS Olap, SumProofs, SequenceTheorems

-----------------------------------------------------------------------------
(* The sums over a part of the values read.                                  *)
Weighted(count) == [v \in DOMAIN count |-> count[v] * v]

Squared(count) == [v \in DOMAIN count |-> count[v] * v * v]

(* The sum of count[v] * (v - x)^2 over S.                                   *)
Scatter(count, S, x) ==
    Total(count, S) * x * x - 2 * Total(Weighted(count), S) * x + Total(Squared(count), S)

(* The number of readings times their Scatter around the mean.               *)
Variance(count, S) ==
    Total(count, S) * Total(Squared(count), S)
      - Total(Weighted(count), S) * Total(Weighted(count), S)

LEMMA Products ==
    /\ \A x, y \in Int : x * y \in Int
    /\ \A x, y \in Nat : x * y \in Nat
    /\ \A x \in Int : x * x \in Nat
OBVIOUS

LEMMA Moments ==
    ASSUME NEW count, ReadingCount(count), NEW S, S \subseteq DOMAIN count
    PROVE  /\ IsFiniteSet(S) /\ S \subseteq Int
           /\ Total(count, S) \in Int
           /\ Total(Weighted(count), S) \in Int
           /\ Total(Squared(count), S) \in Int
<1>1. IsFiniteSet(S)
  BY FS_Subset DEF ReadingCount
<1>2. \A v \in S : v \in Int /\ count[v] \in Nat
  BY DEF ReadingCount
<1>3. \A v \in S : Weighted(count)[v] \in Int /\ Squared(count)[v] \in Int
  BY <1>2, Products DEF Weighted, Squared
<1>4. QED BY <1>1, <1>2, <1>3, TotalIsInt

LEMMA MomentsWithout ==
    ASSUME NEW count, ReadingCount(count), NEW S, S \subseteq DOMAIN count, NEW z \in S
    PROVE  /\ z \in Int /\ count[z] \in Nat
           /\ Total(count, S) = count[z] + Total(count, S \ {z})
           /\ Total(Weighted(count), S) = count[z] * z + Total(Weighted(count), S \ {z})
           /\ Total(Squared(count), S) = count[z] * z * z + Total(Squared(count), S \ {z})
<1>1. IsFiniteSet(S)
  BY FS_Subset DEF ReadingCount
<1>2. \A v \in S : v \in Int /\ count[v] \in Nat
  BY DEF ReadingCount
<1>3. \A v \in S : /\ Weighted(count)[v] \in Int /\ Weighted(count)[v] = count[v] * v
                   /\ Squared(count)[v] \in Int /\ Squared(count)[v] = count[v] * v * v
  BY <1>2, Products DEF Weighted, Squared
<1>4. Total(Weighted(count), S) = Weighted(count)[z] + Total(Weighted(count), S \ {z})
  BY <1>1, <1>3, TotalWithout
<1>5. Total(Squared(count), S) = Squared(count)[z] + Total(Squared(count), S \ {z})
  BY <1>1, <1>3, TotalWithout
<1>6. Total(count, S) = count[z] + Total(count, S \ {z})
  BY <1>1, <1>2, TotalWithout
<1>7. QED BY <1>2, <1>3, <1>4, <1>5, <1>6

(* One more value, read k times.                                             *)
LEMMA ScatterGrows ==
    ASSUME NEW a \in Int, NEW b \in Int, NEW c \in Int, NEW k \in Int, NEW z \in Int, NEW x \in Int
    PROVE  (k + a) * x * x - 2 * (k * z + b) * x + (k * z * z + c)
             = (a * x * x - 2 * b * x + c) + k * ((x - z) * (x - z))
OBVIOUS

LEMMA VarianceGrows ==
    ASSUME NEW a \in Int, NEW b \in Int, NEW c \in Int, NEW k \in Int, NEW z \in Int
    PROVE  (k + a) * (k * z * z + c) - (k * z + b) * (k * z + b)
             = (a * c - b * b) + k * (a * z * z - 2 * b * z + c)
OBVIOUS

LEMMA ScatterWithout ==
    ASSUME NEW count, ReadingCount(count), NEW S, S \subseteq DOMAIN count, NEW z \in S,
           NEW x \in Int
    PROVE  Scatter(count, S, x) = Scatter(count, S \ {z}, x) + count[z] * ((x - z) * (x - z))
BY Moments, MomentsWithout, ScatterGrows DEF Scatter

LEMMA VarianceWithout ==
    ASSUME NEW count, ReadingCount(count), NEW S, S \subseteq DOMAIN count, NEW z \in S
    PROVE  Variance(count, S) = Variance(count, S \ {z}) + count[z] * Scatter(count, S \ {z}, z)
BY Moments, MomentsWithout, VarianceGrows DEF Scatter, Variance

LEMMA OfNone ==
    ASSUME NEW count, NEW x \in Int
    PROVE  Scatter(count, {}, x) = 0 /\ Variance(count, {}) = 0
<1>1. Total(count, {}) = 0 /\ Total(Weighted(count), {}) = 0 /\ Total(Squared(count), {}) = 0
  BY TotalOfNone
<1>2. 0 * x * x - 2 * 0 * x + 0 = 0
  OBVIOUS
<1>3. QED BY <1>1, <1>2 DEF Scatter, Variance

LEMMA ScatterIsNat ==
    ASSUME NEW count, ReadingCount(count), NEW S, S \subseteq DOMAIN count, NEW x \in Int
    PROVE  Scatter(count, S, x) \in Nat
<1> DEFINE B == {V \in SUBSET S : Scatter(count, V, x) \notin Nat}
<1>1. SUFFICES ASSUME Scatter(count, S, x) \notin Nat PROVE FALSE
  OBVIOUS
<1>2. PICK M \in B : \A V \in B : V \subseteq M => V = M
  <2>1. S \in B /\ B \subseteq SUBSET S /\ IsFiniteSet(S)
    BY <1>1, Moments
  <2> HIDE DEF B
  <2>2. QED BY <2>1, SmallestSet
<1>3. M \subseteq DOMAIN count /\ M \subseteq S /\ Scatter(count, M, x) \notin Nat
  OBVIOUS
<1>4. M # {}
  BY <1>3, OfNone
<1>5. PICK z \in M : TRUE
  BY <1>4
<1>6. Scatter(count, M \ {z}, x) \in Nat
  BY <1>2, <1>3, <1>5
<1>7. Scatter(count, M, x) = Scatter(count, M \ {z}, x) + count[z] * ((x - z) * (x - z))
  BY <1>3, <1>5, ScatterWithout
<1>8. count[z] \in Nat /\ (x - z) \in Int
  BY <1>3, <1>5 DEF ReadingCount
<1>9. count[z] * ((x - z) * (x - z)) \in Nat
  BY <1>8, Products
<1>10. QED BY <1>3, <1>6, <1>7, <1>9

LEMMA VarianceIsNat ==
    ASSUME NEW count, ReadingCount(count), NEW S, S \subseteq DOMAIN count
    PROVE  Variance(count, S) \in Nat
<1> DEFINE B == {V \in SUBSET S : Variance(count, V) \notin Nat}
<1>1. SUFFICES ASSUME Variance(count, S) \notin Nat PROVE FALSE
  OBVIOUS
<1>2. PICK M \in B : \A V \in B : V \subseteq M => V = M
  <2>1. S \in B /\ B \subseteq SUBSET S /\ IsFiniteSet(S)
    BY <1>1, Moments
  <2> HIDE DEF B
  <2>2. QED BY <2>1, SmallestSet
<1>3. M \subseteq DOMAIN count /\ M \subseteq S /\ Variance(count, M) \notin Nat
  OBVIOUS
<1>4. M # {}
  BY <1>3, OfNone
<1>5. PICK z \in M : TRUE
  BY <1>4
<1>6. Variance(count, M \ {z}) \in Nat
  BY <1>2, <1>3, <1>5
<1>7. Variance(count, M) = Variance(count, M \ {z}) + count[z] * Scatter(count, M \ {z}, z)
  BY <1>3, <1>5, VarianceWithout
<1>8. count[z] \in Nat /\ Scatter(count, M \ {z}, z) \in Nat
  BY <1>3, <1>5, MomentsWithout, ScatterIsNat
<1>9. QED BY <1>3, <1>6, <1>7, <1>8, Products

-----------------------------------------------------------------------------
(* No reading is further from the mean than n - 1 times the deviation.       *)
LEMMA FarOut ==
    ASSUME NEW a \in Int, NEW k \in Int, NEW d \in Int, NEW q \in Int
    PROVE  ((k + a) - 1) * (d + k * q) - (a * q - d)
             = (k + a) * d + ((k - 1) * (k + a)) * q
OBVIOUS

LEMMA DevSquared ==
    ASSUME NEW a \in Int, NEW b \in Int, NEW c \in Int, NEW k \in Int, NEW z \in Int
    PROVE  /\ (k + a) * z - (k * z + b) = a * z - b
           /\ (a * z - b) * (a * z - b) = a * (a * z * z - 2 * b * z + c) - (a * c - b * b)
OBVIOUS

Deviation(count, v) == Readings(count) * v - SumOfReadings(count)

LEMMA TotalIsNat ==
    ASSUME NEW count, ReadingCount(count), NEW S, S \subseteq DOMAIN count
    PROVE  Total(count, S) \in Nat
<1> DEFINE B == {V \in SUBSET S : Total(count, V) \notin Nat}
<1>1. SUFFICES ASSUME Total(count, S) \notin Nat PROVE FALSE
  OBVIOUS
<1>2. PICK M \in B : \A V \in B : V \subseteq M => V = M
  <2>1. S \in B /\ B \subseteq SUBSET S /\ IsFiniteSet(S)
    BY <1>1, Moments
  <2> HIDE DEF B
  <2>2. QED BY <2>1, SmallestSet
<1>3. M \subseteq DOMAIN count /\ M \subseteq S /\ Total(count, M) \notin Nat
  OBVIOUS
<1>4. PICK z \in M : TRUE
  BY <1>3, TotalOfNone
<1>5. Total(count, M \ {z}) \in Nat
  BY <1>2, <1>3, <1>4
<1>6. count[z] \in Nat /\ Total(count, M) = count[z] + Total(count, M \ {z})
  BY <1>3, <1>4, MomentsWithout
<1>7. QED BY <1>3, <1>5, <1>6

LEMMA SumsAre ==
    ASSUME NEW count, ReadingCount(count)
    PROVE  /\ Readings(count) = Total(count, DOMAIN count)
           /\ SumOfReadings(count) = Total(Weighted(count), DOMAIN count)
           /\ Spread(count) = Variance(count, DOMAIN count)
           /\ Readings(count) \in Nat /\ SumOfReadings(count) \in Int /\ Spread(count) \in Nat
<1>1. /\ Readings(count) = Total(count, DOMAIN count)
      /\ SumOfReadings(count) = Total(Weighted(count), DOMAIN count)
      /\ SumOfSquares(count) = Total(Squared(count), DOMAIN count)
  BY SumIsTotal DEF Readings, SumOfReadings, SumOfSquares, SumFunction, Weighted, Squared
<1>2. QED BY <1>1, Moments, TotalIsNat, VarianceIsNat DEF Spread, Variance

(* The sums, taking the readings of v apart from the others.                 *)
LEMMA DeviationIs ==
    ASSUME NEW count, ReadingCount(count), NEW v \in DOMAIN count,
           NEW R, R = DOMAIN count \ {v}
    PROVE  /\ v \in Int /\ count[v] \in Nat /\ Total(count, R) \in Nat
           /\ Variance(count, R) \in Nat /\ Scatter(count, R, v) \in Nat
           /\ Readings(count) = count[v] + Total(count, R)
           /\ Spread(count) = Variance(count, R) + count[v] * Scatter(count, R, v)
           /\ Deviation(count, v) \in Int
           /\ Deviation(count, v) * Deviation(count, v)
                = Total(count, R) * Scatter(count, R, v) - Variance(count, R)
<1> DEFINE a == Total(count, R)
           b == Total(Weighted(count), R)
           c == Total(Squared(count), R)
<1>1. v \in Int /\ count[v] \in Nat /\ a \in Nat /\ b \in Int /\ c \in Int
  BY Moments, TotalIsNat DEF ReadingCount
<1>2. Variance(count, R) \in Nat /\ Scatter(count, R, v) \in Nat
  BY <1>1, VarianceIsNat, ScatterIsNat
<1>3. /\ Readings(count) = count[v] + a /\ SumOfReadings(count) = count[v] * v + b
      /\ Spread(count) = Variance(count, R) + count[v] * Scatter(count, R, v)
  BY SumsAre, MomentsWithout, VarianceWithout
<1>4. Deviation(count, v) = a * v - b
  BY <1>1, <1>3, DevSquared DEF Deviation
<1>5. (a * v - b) * (a * v - b) = a * Scatter(count, R, v) - Variance(count, R)
  BY <1>1, DevSquared DEF Scatter, Variance
<1>6. a * v - b \in Int
  BY <1>1, Products
<1>7. QED BY <1>1, <1>2, <1>3, <1>4, <1>5, <1>6

LEMMA DeviationBound ==
    ASSUME NEW count, ReadingCount(count), NEW v \in DOMAIN count, count[v] > 0
    PROVE  /\ Readings(count) \in Nat /\ Readings(count) >= 1
           /\ Deviation(count, v) \in Int
           /\ Deviation(count, v) * Deviation(count, v) <= (Readings(count) - 1) * Spread(count)
<1> DEFINE R == DOMAIN count \ {v}
           k == count[v]
           a == Total(count, R)
           d == Variance(count, R)
           q == Scatter(count, R, v)
<1>1. /\ k \in Nat /\ k >= 1 /\ a \in Nat /\ d \in Nat /\ q \in Nat
      /\ Readings(count) = k + a /\ Spread(count) = d + k * q
      /\ Deviation(count, v) \in Int
      /\ Deviation(count, v) * Deviation(count, v) = a * q - d
  BY DeviationIs
<1> HIDE DEF k, a, d, q
<1>2. ((k + a) - 1) * (d + k * q) - (a * q - d) = (k + a) * d + ((k - 1) * (k + a)) * q
  BY <1>1, FarOut
<1>3. (k + a) * d \in Nat /\ ((k - 1) * (k + a)) * q \in Nat
  <2>1. k + a \in Nat /\ k - 1 \in Nat
    BY <1>1
  <2>2. QED BY <1>1, <2>1, Products
<1>4. ((k + a) - 1) * (d + k * q) \in Int /\ a * q - d \in Int /\ k + a \in Nat /\ k + a >= 1
  BY <1>1, Products
<1>5. a * q - d <= ((k + a) - 1) * (d + k * q)
  BY <1>2, <1>3, <1>4
<1>6. QED BY <1>1, <1>4, <1>5

(* z >= 3.0005 takes eleven readings: 1000 (n - 1)^2 >= 9003 n.              *)
LEMMA OutlierNeedsEleven ==
    ASSUME NEW n \in Nat, n >= 1, NEW p \in Nat, p # 0, NEW dev \in Int,
           dev * dev <= (n - 1) * p, 1000 * dev * dev * (n - 1) >= 9003 * n * p
    PROVE  n >= 11
<1>1. SUFFICES ASSUME n \in 1..10 PROVE FALSE
  OBVIOUS
<1> DEFINE e == dev * dev
<1>2. e \in Nat /\ 1000 * dev * dev = 1000 * e
  BY Products
<1>3. e <= (n - 1) * p /\ 1000 * e * (n - 1) >= 9003 * n * p
  BY <1>2
<1> HIDE DEF e
<1>4. ASSUME NEW m \in 1..10, n = m PROVE FALSE
  <2>1. m = 1 \/ m = 2 \/ m = 3 \/ m = 4 \/ m = 5 \/ m = 6 \/ m = 7 \/ m = 8 \/ m = 9 \/ m = 10
    OBVIOUS
  <2>2. QED BY <1>2, <1>3, <1>4, <2>1
<1>5. QED BY <1>1, <1>4

(* Values that were not read do not count.                                   *)
LEMMA OfUnread ==
    ASSUME NEW count, ReadingCount(count), NEW S, S \subseteq DOMAIN count, \A v \in S : count[v] = 0,
           NEW x \in Int
    PROVE  Total(count, S) = 0 /\ Scatter(count, S, x) = 0 /\ Variance(count, S) = 0
<1>1. IsFiniteSet(S) /\ S \subseteq Int
  BY Moments
<1>2. \A v \in S : Weighted(count)[v] = 0 /\ Squared(count)[v] = 0
  BY <1>1 DEF Weighted, Squared
<1>3. Total(count, S) = 0 /\ Total(Weighted(count), S) = 0 /\ Total(Squared(count), S) = 0
  BY <1>1, <1>2, TotalOfZeros
<1>4. 0 * x * x - 2 * 0 * x + 0 = 0
  OBVIOUS
<1>5. QED BY <1>3, <1>4 DEF Scatter, Variance

Read(count) == {v \in DOMAIN count : count[v] > 0}

(* There is a deviation exactly if two different values were read.           *)
LEMMA AloneOrNot ==
    ASSUME NEW count, ReadingCount(count), NEW v \in Read(count)
    PROVE  (Readings(count) = 1 \/ Spread(count) = 0) <=> Read(count) = {v}
<1> DEFINE R == DOMAIN count \ {v}
<1>1. v \in DOMAIN count /\ count[v] > 0 /\ v \in Int
  BY DEF Read, ReadingCount
<1>2. /\ Total(count, R) \in Nat /\ count[v] \in Nat /\ Readings(count) = count[v] + Total(count, R)
      /\ Spread(count) = Variance(count, R) + count[v] * Scatter(count, R, v)
  BY <1>1, DeviationIs
<1>3. ASSUME Read(count) = {v} PROVE Spread(count) = 0
  <2>1. \A w \in R : count[w] = 0
    BY <1>3 DEF Read, ReadingCount
  <2>2. Scatter(count, R, v) = 0 /\ Variance(count, R) = 0
    BY <1>1, <2>1, OfUnread
  <2>3. QED BY <1>2, <2>2
<1>4. ASSUME NEW w \in Read(count), w # v
      PROVE  Readings(count) # 1 /\ Spread(count) # 0
  <2>1. w \in R /\ count[w] > 0 /\ w \in Int /\ count[w] \in Nat
    BY <1>4 DEF Read, ReadingCount
  <2>2. Total(count, R) = count[w] + Total(count, R \ {w}) /\ Total(count, R \ {w}) \in Nat
    BY <2>1, MomentsWithout, TotalIsNat
  <2>3. Readings(count) >= 2 /\ Readings(count) \in Nat
    BY <1>1, <1>2, <2>1, <2>2
  <2>4. ASSUME Spread(count) = 0 PROVE FALSE
    <3>1. ASSUME NEW u \in {v, w} PROVE Readings(count) * u = SumOfReadings(count)
      <4>1. /\ Deviation(count, u) \in Int
            /\ Deviation(count, u) * Deviation(count, u) <= (Readings(count) - 1) * 0
        BY <1>1, <2>1, <2>4, DeviationBound
      <4>2. Deviation(count, u) * Deviation(count, u) <= 0
        BY <2>3, <4>1
      <4>3. Deviation(count, u) = 0
        BY <4>1, <4>2
      <4>4. Readings(count) * u \in Int /\ SumOfReadings(count) \in Int
        BY <1>1, <2>1, <2>3, SumsAre, Products
      <4>5. QED BY <4>3, <4>4 DEF Deviation
    <3>2. Readings(count) * (v - w) = 0
      BY <1>1, <2>1, <2>3, <3>1
    <3>3. QED BY <1>1, <1>4, <2>1, <2>3, <3>2
  <2>5. QED BY <2>3, <2>4
<1>5. QED BY <1>3, <1>4

LEMMA OneApart ==
    ASSUME NEW m \in Nat, m >= 10, NEW e \in Nat
    PROVE  1000 * (m * (m * e)) * m >= 9003 * (1 + m) * (m * e)
<1>1. m * m >= 10 * m
  OBVIOUS
<1>2. 1000 * (m * m) - 9003 * (1 + m) \in Nat
  BY <1>1
<1>3. (1000 * (m * m) - 9003 * (1 + m)) * (m * e) \in Nat
  BY <1>2, Products
<1>4. 1000 * (m * (m * e)) * m - 9003 * (1 + m) * (m * e)
        = (1000 * (m * m) - 9003 * (1 + m)) * (m * e)
  OBVIOUS
<1>5. 1000 * (m * (m * e)) * m \in Int /\ 9003 * (1 + m) * (m * e) \in Int
  BY Products
<1>6. QED BY <1>3, <1>4, <1>5

(* One reading of v among ten or more of w.                                  *)
LEMMA OneAmongEqual ==
    ASSUME NEW count, ReadingCount(count), NEW v, NEW w, v # w, Read(count) = {v, w},
           count[v] = 1, Readings(count) >= 11
    PROVE  /\ Readings(count) # 1 /\ Spread(count) # 0
           /\ 1000 * Deviation(count, v) * Deviation(count, v) * (Readings(count) - 1)
                >= 9003 * Readings(count) * Spread(count)
<1> DEFINE m == count[w]
           e == (v - w) * (v - w)
<1> PICK R : R = DOMAIN count \ {v}
  OBVIOUS
<1> PICK T : T = R \ {w}
  OBVIOUS
<1>1. R \subseteq DOMAIN count /\ v \in DOMAIN count /\ w \in R /\ v \in Int /\ w \in Int /\ m \in Nat
  BY DEF Read, ReadingCount
<1>2. \A x \in T : count[x] = 0
  BY DEF Read, ReadingCount
<1>3. /\ Total(count, T) = 0 /\ Scatter(count, T, v) = 0 /\ Scatter(count, T, w) = 0
      /\ Variance(count, T) = 0
  BY <1>1, <1>2, OfUnread
<1>4. Total(count, R) = m + 0
  BY <1>1, <1>3, MomentsWithout
<1>5. Scatter(count, R, v) = 0 + m * e
  <2>1. ReadingCount(count) /\ R \subseteq DOMAIN count /\ w \in R /\ v \in Int
    BY <1>1
  <2>2. Scatter(count, R, v) = Scatter(count, R \ {w}, v) + count[w] * ((v - w) * (v - w))
    BY ONLY <2>1, ScatterWithout
  <2>3. Scatter(count, R, v) = Scatter(count, T, v) + m * e
    BY <2>2
  <2> HIDE DEF m, e
  <2>4. QED BY <1>3, <2>3
<1>6. Variance(count, R) = 0 + m * 0
  BY <1>1, <1>3, VarianceWithout
<1>7. e \in Nat /\ m * e \in Nat
  BY <1>1, Products
<1>8. /\ Readings(count) = 1 + m /\ m >= 10
      /\ Spread(count) = m * e
      /\ Deviation(count, v) \in Int
      /\ Deviation(count, v) * Deviation(count, v) = m * (m * e)
  <2>1. /\ Readings(count) = count[v] + Total(count, R)
        /\ Spread(count) = Variance(count, R) + count[v] * Scatter(count, R, v)
        /\ Deviation(count, v) \in Int
        /\ Deviation(count, v) * Deviation(count, v)
              = Total(count, R) * Scatter(count, R, v) - Variance(count, R)
    BY <1>1, DeviationIs
  <2>2. m * 0 = 0 /\ 0 + m * e = m * e /\ m + 0 = m /\ m * (m * e) - 0 = m * (m * e)
    BY <1>1, <1>7, Products
  <2> HIDE DEF m, e
  <2>3. QED BY <1>1, <1>4, <1>5, <1>6, <1>7, <2>1, <2>2
<1>9. Spread(count) # 0
  <2>1. v \in Read(count) /\ Read(count) # {v}
    OBVIOUS
  <2>2. QED BY <2>1, AloneOrNot
<1> HIDE DEF m, e
<1>10. 1000 * (m * (m * e)) * m >= 9003 * (1 + m) * (m * e)
  BY <1>1, <1>7, <1>8, OneApart
<1>11. ASSUME NEW dev \in Int, dev * dev = m * (m * e)
       PROVE  1000 * dev * dev * ((1 + m) - 1) = 1000 * (m * (m * e)) * m
  <2>1. 1000 * dev * dev = 1000 * (dev * dev) /\ (1 + m) - 1 = m
    BY <1>1
  <2>2. QED BY <1>11, <2>1
<1>12. QED BY <1>8, <1>9, <1>10, <1>11

(* The flag of detect_anomalies(), as the property has it.                   *)
LEMMA AnomaliesOf ==
    ASSUME NEW count, ReadingCount(count), NEW none, none \notin BOOLEAN
    PROVE  /\ \A v \in Read(count) :
                /\ IsTempAnomaly(count, v, none) = TRUE => Readings(count) >= 11
                /\ (IsTempAnomaly(count, v, none) = none) = (Read(count) = {v})
           /\ \A v, w \in Read(count) :
                v # w /\ Read(count) = {v, w} /\ count[v] = 1 /\ Readings(count) >= 11
                  => IsTempAnomaly(count, v, none) = TRUE
<1> DEFINE Far(v) == 1000 * Deviation(count, v) * Deviation(count, v) * (Readings(count) - 1)
                       >= 9003 * Readings(count) * Spread(count)
<1>1. ASSUME NEW v
      PROVE  IsTempAnomaly(count, v, none) =
               IF Readings(count) = 1 \/ Spread(count) = 0 THEN none ELSE Far(v)
  BY DEF IsTempAnomaly, Deviation
<1>2. \A v : Far(v) \in BOOLEAN
  OBVIOUS
<1>3. ASSUME NEW v \in Read(count), IsTempAnomaly(count, v, none) = TRUE
      PROVE  Readings(count) >= 11
  <2>1. Spread(count) # 0 /\ Far(v)
    <3> HIDE DEF Far
    <3>1. QED BY <1>1, <1>2, <1>3
  <2>2. v \in DOMAIN count /\ count[v] > 0 /\ Spread(count) \in Nat
    BY SumsAre DEF Read
  <2>3. QED BY <2>1, <2>2, DeviationBound, OutlierNeedsEleven
<1>4. ASSUME NEW v \in Read(count)
      PROVE  (IsTempAnomaly(count, v, none) = none) = (Read(count) = {v})
  <2> HIDE DEF Far
  <2>1. QED BY <1>1, <1>2, AloneOrNot
<1>5. ASSUME NEW v \in Read(count), NEW w \in Read(count), v # w, Read(count) = {v, w},
             count[v] = 1, Readings(count) >= 11
      PROVE  IsTempAnomaly(count, v, none) = TRUE
  <2>1. Readings(count) # 1 /\ Spread(count) # 0 /\ Far(v)
    BY <1>5, OneAmongEqual
  <2> HIDE DEF Far
  <2>2. QED BY <1>1, <1>2, <2>1
<1>6. QED BY <1>3, <1>4, <1>5
-----------------------------------------------------------------------------
(* Groups: the parts of the batch with a key of their own.                   *)
LEMMA GroupsOf ==
    ASSUME NEW key, IsFiniteSet(DOMAIN key)
    PROVE  /\ IsFiniteSet(Groups(key))
           /\ \A g \in Groups(key) :
                /\ g \subseteq DOMAIN key /\ IsFiniteSet(g) /\ Chosen(g) \in g
                /\ g = {i \in DOMAIN key : key[i] = key[Chosen(g)]}
           /\ \A g, h \in Groups(key) : g # h => g \cap h = {}
           /\ UNION Groups(key) = DOMAIN key
<1> DEFINE class == [j \in DOMAIN key |-> {i \in DOMAIN key : key[i] = key[j]}]
<1>1. IsFiniteSet(Groups(key))
  <2>1. DOMAIN class = DOMAIN key /\ Groups(key) = {class[j] : j \in DOMAIN key}
    BY DEF Groups
  <2> HIDE DEF class
  <2>2. QED BY <2>1, ImageIsFinite
<1>2. ASSUME NEW g \in Groups(key)
      PROVE  \E j \in g : /\ j \in DOMAIN key
                           /\ g = {i \in DOMAIN key : key[i] = key[j]}
  BY DEF Groups
<1>3. ASSUME NEW g \in Groups(key)
      PROVE  /\ g \subseteq DOMAIN key /\ IsFiniteSet(g) /\ Chosen(g) \in g
             /\ g = {i \in DOMAIN key : key[i] = key[Chosen(g)]}
  <2>1. PICK j \in g : j \in DOMAIN key /\ g = {i \in DOMAIN key : key[i] = key[j]}
    BY <1>2
  <2>2. Chosen(g) \in g
    BY ChosenIn
  <2>3. g \subseteq DOMAIN key /\ key[Chosen(g)] = key[j]
    BY <2>1, <2>2
  <2>4. QED BY <2>1, <2>2, <2>3, FS_Subset
<1>4. ASSUME NEW g \in Groups(key), NEW h \in Groups(key), g # h
      PROVE  g \cap h = {}
  <2>1. SUFFICES ASSUME NEW x \in g, x \in h PROVE FALSE
    OBVIOUS
  <2>2. PICK k : k = key[x]
    OBVIOUS
  <2>3. g = {i \in DOMAIN key : key[i] = k}
    BY <1>3, <2>2
  <2>4. h = {i \in DOMAIN key : key[i] = k}
    BY <1>3, <2>1, <2>2
  <2>5. QED BY <1>4, <2>3, <2>4
<1>5. UNION Groups(key) = DOMAIN key
  BY DEF Groups
<1>6. QED BY <1>1, <1>3, <1>4, <1>5

LEMMA GroupIs ==
    ASSUME NEW key, IsFiniteSet(DOMAIN key), NEW g \in Groups(key)
    PROVE  g = {i \in DOMAIN key : key[i] = key[Chosen(g)]}
BY GroupsOf

(* The key of a group tells it from the others.                              *)
LEMMA SameKeySameGroup ==
    ASSUME NEW key, IsFiniteSet(DOMAIN key), NEW g \in Groups(key), NEW h \in Groups(key),
           key[Chosen(g)] = key[Chosen(h)]
    PROVE  g = h
<1>1. \A f \in Groups(key) : f = {i \in DOMAIN key : key[i] = key[Chosen(f)]}
  BY GroupsOf
<1>2. PICK k : k = key[Chosen(g)]
  OBVIOUS
<1>3. g = {i \in DOMAIN key : key[i] = k}
  BY <1>1, <1>2
<1>4. h = {i \in DOMAIN key : key[i] = k}
  BY <1>1, <1>2
<1>5. QED BY <1>3, <1>4

(* round() goes to a nearest integer.                                        *)
LEMMA RoundedIs ==
    ASSUME NEW s \in Int, NEW n \in Nat, n > 0
    PROVE  /\ Rounded(s, n) \in Int
           /\ 2 * (n * Rounded(s, n)) <= 2 * s + n
           /\ 2 * s - n <= 2 * (n * Rounded(s, n))
<1>1. ASSUME NEW a \in Nat, NEW q, q = (2 * a + n) \div (2 * n)
      PROVE  q \in Int /\ 2 * (n * q) <= 2 * a + n /\ 2 * a - n <= 2 * (n * q)
  <2>1. ASSUME NEW x \in Int, NEW y \in Int, y > 0
        PROVE  x \div y \in Int /\ y * (x \div y) <= x /\ x < y * (x \div y) + y
    BY <2>1
  <2>2. 2 * a + n \in Int /\ 2 * n \in Int /\ 2 * n > 0
    OBVIOUS
  <2>3. q \in Int /\ (2 * n) * q <= 2 * a + n /\ 2 * a + n < (2 * n) * q + 2 * n
    BY <1>1, <2>1, <2>2
  <2>4. (2 * n) * q = 2 * (n * q) /\ n * q \in Int
    BY <2>3
  <2>5. QED BY <2>3, <2>4
<1>2. CASE s >= 0
  <2>1. PICK q : q = (2 * s + n) \div (2 * n)
    OBVIOUS
  <2>2. Rounded(s, n) = q
    BY <1>2, <2>1 DEF Rounded
  <2>3. s \in Nat
    BY <1>2
  <2>4. q \in Int /\ 2 * (n * q) <= 2 * s + n /\ 2 * s - n <= 2 * (n * q)
    BY <1>1, <2>1, <2>3
  <2>5. QED BY <2>2, <2>4
<1>3. CASE s < 0
  <2>1. PICK q : q = (2 * (-s) + n) \div (2 * n)
    OBVIOUS
  <2>2. Rounded(s, n) = -q
    BY <1>3, <2>1 DEF Rounded
  <2>3. -s \in Nat
    BY <1>3
  <2>4. q \in Int /\ 2 * (n * q) <= 2 * (-s) + n /\ 2 * (-s) - n <= 2 * (n * q)
    BY <1>1, <2>1, <2>3
  <2>5. n * (-q) = -(n * q) /\ n * q \in Int
    BY <2>4
  <2>6. QED BY <2>2, <2>4, <2>5
<1>4. QED BY <1>2, <1>3

(* What is more than k - 1/2 is not rounded below k.                         *)
LEMMA RoundsUp ==
    ASSUME NEW s \in Int, NEW n \in Nat, n > 0, NEW k \in Int, 2 * (n * k) - n < 2 * s
    PROVE  Rounded(s, n) >= k
<1>1. PICK q : q = Rounded(s, n)
  OBVIOUS
<1>2. q \in Int /\ 2 * s - n <= 2 * (n * q)
  BY <1>1, RoundedIs
<1>3. ASSUME q <= k - 1 PROVE FALSE
  <2>1. n * q <= n * (k - 1)
    BY <1>2, <1>3
  <2>2. n * (k - 1) = n * k - n /\ n * q \in Int /\ n * k \in Int
    BY <1>2
  <2>3. QED BY <1>2, <2>1, <2>2
<1>4. QED BY <1>1, <1>2, <1>3
-----------------------------------------------------------------------------
(* The aggregates of a group.                                                *)
TempOf(df) == [i \in DOMAIN df |-> df[i].temp]

LEMMA BatchIsFinite ==
    ASSUME NEW df, IsBatch(df)
    PROVE  IsFiniteSet(DOMAIN df) /\ Cardinality(DOMAIN df) = Len(df) /\ Len(df) \in Nat
<1>1. Len(df) \in Nat /\ DOMAIN df = 1..Len(df)
  BY DEF IsBatch
<1>2. PICK n \in Nat : n = Len(df)
  BY <1>1
<1>3. IsFiniteSet(1..n) /\ Cardinality(1..n) = n
  BY FS_Interval
<1>4. QED BY <1>1, <1>2, <1>3

LEMMA SumOverIs ==
    ASSUME NEW df, IsBatch(df), NEW g, g \subseteq DOMAIN df
    PROVE  IsFiniteSet(g) /\ SumOver(df, g) = Total(TempOf(df), g) /\ SumOver(df, g) \in Int
<1>1. IsFiniteSet(g)
  BY BatchIsFinite, FS_Subset
<1> DEFINE f == [i \in g |-> df[i].temp]
<1>2. DOMAIN f = g /\ \A i \in g : f[i] = TempOf(df)[i] /\ f[i] \in Int
  BY DEF TempOf, IsBatch
<1>3. SumOver(df, g) = Total(f, g)
  BY <1>2, SumIsTotal DEF SumOver, SumFunction
<1> HIDE DEF f
<1>4. QED BY <1>1, <1>2, <1>3, TotalsAgree, TotalIsInt

LEMMA AvgIs ==
    ASSUME NEW df, IsBatch(df), NEW g, g \subseteq DOMAIN df, g # {}
    PROVE  /\ Cardinality(g) \in Nat /\ Cardinality(g) > 0
           /\ Avg(df, g) \in Int
           /\ 2 * (Cardinality(g) * Avg(df, g)) <= 2 * SumOver(df, g) + Cardinality(g)
           /\ 2 * SumOver(df, g) - Cardinality(g) <= 2 * (Cardinality(g) * Avg(df, g))
<1>1. IsFiniteSet(g) /\ SumOver(df, g) \in Int
  BY SumOverIs
<1>2. Cardinality(g) \in Nat /\ Cardinality(g) > 0
  BY <1>1, FS_CardinalityType, FS_EmptySet
<1>3. QED BY <1>1, <1>2, RoundedIs DEF Avg

-----------------------------------------------------------------------------
(* What the rows of a report add up to.                                      *)
RowCount(table) == SumFunction([t \in table |-> t.count])

RowTotal(table) == SumFunction([t \in table |-> t.count * t.avg])

(* One row for each group, with its count and average and what its key says. *)
IsReport(df, key, row) ==
    /\ DOMAIN key = DOMAIN df
    /\ \A g \in Groups(key) : row[g].count = Cardinality(g) /\ row[g].avg = Avg(df, g)
    /\ \A g, h \in Groups(key) : row[g] = row[h] => key[Chosen(g)] = key[Chosen(h)]

LEMMA CountsOf ==
    ASSUME NEW df, IsBatch(df), NEW key, NEW row, IsReport(df, key, row),
           NEW table, table = {row[g] : g \in Groups(key)}
    PROVE  RowCount(table) = Len(df)
<1> DEFINE G == Groups(key)
           f == [t \in table |-> t.count]
           size == [g \in G |-> Cardinality(g)]
           one == [i \in DOMAIN df |-> 1]
<1>1. IsFiniteSet(DOMAIN df) /\ Cardinality(DOMAIN df) = Len(df) /\ Len(df) \in Nat
  BY BatchIsFinite
<1>2. DOMAIN key = DOMAIN df
  BY DEF IsReport
<1>3. /\ IsFiniteSet(G) /\ UNION G = DOMAIN df
      /\ \A g \in G : g \subseteq DOMAIN df /\ IsFiniteSet(g)
      /\ \A g, h \in G : g # h => g \cap h = {}
  BY <1>1, <1>2, GroupsOf
<1>4. \A g, h \in G : row[g] = row[h] => g = h
  BY <1>1, <1>2, SameKeySameGroup DEF IsReport
<1>5. \A g \in G : Cardinality(g) \in Nat
  BY <1>3, FS_CardinalityType
<1>6. \A g \in G : row[g] \in table /\ row[g].count = Cardinality(g)
  BY DEF IsReport
<1>7. \A g \in G : f[row[g]] \in Int /\ size[g] = f[row[g]] /\ size[g] = Cardinality(g)
  BY <1>5, <1>6
<1>8. \A i \in DOMAIN df : one[i] = 1
  OBVIOUS
<1>9. RowCount(table) = Total(f, table)
  <2>1. DOMAIN f = table
    OBVIOUS
  <2>2. RowCount(table) = SumFunction(f)
    BY DEF RowCount
  <2> HIDE DEF f
  <2>3. QED BY <2>1, <2>2, SumIsTotal DEF SumFunction
<1> HIDE DEF f, size, one, G
<1>10. Total(f, table) = Total(size, G)
  BY <1>3, <1>4, <1>7, TotalOfImage DEF G
<1>11. \A g \in G : size[g] = Total(one, g)
  <2>1. ASSUME NEW g \in G PROVE size[g] = Total(one, g)
    <3>1. Total(one, g) = 1 * Cardinality(g)
      BY <1>3, <1>8, TotalOfConstant
    <3>2. QED BY <1>5, <1>7, <3>1
  <2>2. QED BY <2>1
<1>12. Total(size, G) = Total(one, DOMAIN df)
  <2>1. Total(size, G) = Total(one, UNION G)
    BY <1>1, <1>3, <1>8, <1>11, TotalOfParts
  <2>2. QED BY <1>3, <2>1
<1>13. Total(one, DOMAIN df) = 1 * Len(df)
  BY <1>1, <1>8, TotalOfConstant
<1>14. QED BY <1>1, <1>9, <1>10, <1>12, <1>13

(* Averages and counts give back the sum, to half a unit for each row.       *)
WithinHalf(df, table) ==
    /\ RowTotal(table) \in Int
    /\ 2 * RowTotal(table) - 2 * SumOver(df, DOMAIN df) <= Len(df)
    /\ 2 * SumOver(df, DOMAIN df) - 2 * RowTotal(table) <= Len(df)

LEMMA AveragesOf ==
    ASSUME NEW df, IsBatch(df), NEW key, NEW row, IsReport(df, key, row),
           NEW table, table = {row[g] : g \in Groups(key)}
    PROVE  WithinHalf(df, table)
<1> DEFINE G == Groups(key)
           f == [t \in table |-> t.count * t.avg]
           size == [g \in G |-> Cardinality(g)]
           part == [g \in G |-> Cardinality(g) * Avg(df, g)]
           sum == [g \in G |-> SumOver(df, g)]
<1>1. IsFiniteSet(DOMAIN df) /\ Cardinality(DOMAIN df) = Len(df) /\ Len(df) \in Nat
  BY BatchIsFinite
<1>2. DOMAIN key = DOMAIN df
  BY DEF IsReport
<1>3. /\ IsFiniteSet(G) /\ UNION G = DOMAIN df
      /\ \A g \in G : g \subseteq DOMAIN df /\ g # {}
      /\ \A g, h \in G : g # h => g \cap h = {}
  BY <1>1, <1>2, GroupsOf
<1>4. \A g, h \in G : row[g] = row[h] => g = h
  BY <1>1, <1>2, SameKeySameGroup DEF IsReport
<1>5. \A g \in G : /\ Cardinality(g) \in Nat /\ Avg(df, g) \in Int /\ SumOver(df, g) \in Int
                   /\ SumOver(df, g) = Total(TempOf(df), g)
                   /\ 2 * (Cardinality(g) * Avg(df, g)) - 2 * SumOver(df, g) <= Cardinality(g)
                   /\ 2 * SumOver(df, g) - 2 * (Cardinality(g) * Avg(df, g)) <= Cardinality(g)
  <2>1. ASSUME NEW g \in G
        PROVE  /\ Cardinality(g) \in Nat /\ Avg(df, g) \in Int /\ SumOver(df, g) \in Int
               /\ SumOver(df, g) = Total(TempOf(df), g)
               /\ 2 * (Cardinality(g) * Avg(df, g)) <= 2 * SumOver(df, g) + Cardinality(g)
               /\ 2 * SumOver(df, g) - Cardinality(g) <= 2 * (Cardinality(g) * Avg(df, g))
    BY <1>3, AvgIs, SumOverIs
  <2> HIDE DEF G
  <2>2. QED BY <2>1, Products
<1>6. \A g \in G : row[g] \in table /\ row[g].count = Cardinality(g) /\ row[g].avg = Avg(df, g)
  BY DEF IsReport
<1>7. \A g \in G : /\ part[g] = f[row[g]] /\ f[row[g]] \in Int
                   /\ part[g] \in Int /\ sum[g] \in Int /\ size[g] \in Int
                   /\ 2 * part[g] - 2 * sum[g] <= size[g]
                   /\ 2 * sum[g] - 2 * part[g] <= size[g]
                   /\ sum[g] = Total(TempOf(df), g)
  BY <1>5, <1>6, Products
<1>8. RowTotal(table) = Total(f, table)
  <2>1. DOMAIN f = table
    OBVIOUS
  <2>2. RowTotal(table) = SumFunction(f)
    BY DEF RowTotal
  <2> HIDE DEF f
  <2>3. QED BY <2>1, <2>2, SumIsTotal DEF SumFunction
<1>9. Total(size, G) = Len(df)
  <2> DEFINE one == [i \in DOMAIN df |-> 1]
  <2>1. \A i \in DOMAIN df : one[i] = 1
    OBVIOUS
  <2> HIDE DEF one
  <2>2. \A g \in G : size[g] = Total(one, g)
    <3>1. ASSUME NEW g \in G PROVE size[g] = Total(one, g)
      <4>1. IsFiniteSet(g) /\ \A i \in g : one[i] = 1
        BY <1>1, <1>3, <2>1, FS_Subset
      <4>2. Total(one, g) = 1 * Cardinality(g)
        BY <4>1, TotalOfConstant
      <4>3. QED BY <1>5, <4>2
    <3>2. QED BY <3>1
  <2> HIDE DEF size
  <2>3. Total(size, G) = Total(one, UNION G)
    <3> HIDE DEF G
    <3>1. QED BY <1>1, <1>3, <2>1, <2>2, TotalOfParts
  <2>4. Total(one, DOMAIN df) = 1 * Len(df)
    BY <1>1, <2>1, TotalOfConstant
  <2>5. QED BY <1>1, <1>3, <2>3, <2>4
<1> HIDE DEF f, size, part, sum, G
<1>10. Total(f, table) = Total(part, G)
  BY <1>3, <1>4, <1>7, TotalOfImage DEF G
<1>11. Total(sum, G) = SumOver(df, DOMAIN df)
  <2>1. \A i \in DOMAIN df : TempOf(df)[i] \in Int
    BY DEF TempOf, IsBatch
  <2>2. Total(sum, G) = Total(TempOf(df), UNION G)
    BY <1>1, <1>3, <1>7, <2>1, TotalOfParts
  <2>3. QED BY <1>3, <2>2, SumOverIs
<1>12. /\ 2 * Total(part, G) - 2 * Total(sum, G) <= Total(size, G)
       /\ 2 * Total(sum, G) - 2 * Total(part, G) <= Total(size, G)
       /\ Total(part, G) \in Int
  BY <1>3, <1>7, TotalsDiffer, TotalIsInt
<1>13. QED BY <1>8, <1>9, <1>10, <1>11, <1>12 DEF WithinHalf
-----------------------------------------------------------------------------
(* The reports, each with the key it groups by.                              *)
LEMMA AnyRowOf ==
    ASSUME NEW df, IsBatch(df), NEW key, DOMAIN key = DOMAIN df, NEW g \in Groups(key)
    PROVE  Chosen(g) \in g /\ g \subseteq DOMAIN df /\ AnyRow(df, g) = df[Chosen(g)]
<1>1. IsFiniteSet(DOMAIN key)
  BY BatchIsFinite
<1>2. Chosen(g) \in g /\ g \subseteq DOMAIN df
  BY <1>1, GroupsOf
<1>3. QED BY <1>2 DEF AnyRow, Chosen

HourlyKey(df) == [i \in DOMAIN df |-> df[i].hour]

HourlyRow(df) == [g \in Groups(HourlyKey(df)) |->
    [hour |-> AnyRow(df, g).hour, avg |-> Avg(df, g), count |-> Cardinality(g)]]

LEMMA HourlyReport ==
    ASSUME NEW df, IsBatch(df)
    PROVE  /\ IsReport(df, HourlyKey(df), HourlyRow(df))
           /\ GlobalHourlyTrends(df) = {HourlyRow(df)[g] : g \in Groups(HourlyKey(df))}
<1>1. ASSUME NEW g \in Groups(HourlyKey(df))
      PROVE  Chosen(g) \in DOMAIN df /\ AnyRow(df, g) = df[Chosen(g)]
  BY AnyRowOf DEF HourlyKey
<1>2. \A g, h \in Groups(HourlyKey(df)) : HourlyRow(df)[g] = HourlyRow(df)[h]
        => HourlyKey(df)[Chosen(g)] = HourlyKey(df)[Chosen(h)]
  BY <1>1 DEF HourlyRow, HourlyKey
<1>3. QED BY <1>2 DEF IsReport, HourlyRow, HourlyKey, GlobalHourlyTrends

SummaryKey(df) == [i \in DOMAIN df |-> <<df[i].city, df[i].name, df[i].country, df[i].day>>]

SummaryRow(df) == [g \in Groups(SummaryKey(df)) |->
    [city |-> AnyRow(df, g).city, name |-> AnyRow(df, g).name,
     country |-> AnyRow(df, g).country, day |-> AnyRow(df, g).day, avg |-> Avg(df, g),
     min |-> Min(Temps(df, g)), max |-> Max(Temps(df, g)), count |-> Cardinality(g)]]

LEMMA SummaryReport ==
    ASSUME NEW df, IsBatch(df)
    PROVE  /\ IsReport(df, SummaryKey(df), SummaryRow(df))
           /\ CityDailySummary(df) = {SummaryRow(df)[g] : g \in Groups(SummaryKey(df))}
<1>1. ASSUME NEW g \in Groups(SummaryKey(df))
      PROVE  Chosen(g) \in DOMAIN df /\ AnyRow(df, g) = df[Chosen(g)]
  BY AnyRowOf DEF SummaryKey
<1>2. \A g, h \in Groups(SummaryKey(df)) : SummaryRow(df)[g] = SummaryRow(df)[h]
        => SummaryKey(df)[Chosen(g)] = SummaryKey(df)[Chosen(h)]
  BY <1>1 DEF SummaryRow, SummaryKey
<1>3. QED BY <1>2 DEF IsReport, SummaryRow, SummaryKey, CityDailySummary

CountryKey(df) == [i \in DOMAIN df |-> df[i].country]

CountryRow(df) == [g \in Groups(CountryKey(df)) |->
    [country |-> AnyRow(df, g).country, avg |-> Avg(df, g), count |-> Cardinality(g),
     cities |-> Cardinality({df[i].city : i \in g})]]

CountryRows(df) == {CountryRow(df)[g] : g \in Groups(CountryKey(df))}

LEMMA CountryRankingsAre ==
    ASSUME NEW df
    PROVE  CountryRankings(df) =
             {[row |-> a, rank |-> 1 + Cardinality({b \in CountryRows(df) : b.avg > a.avg})] :
                 a \in CountryRows(df)}
<1>1. CountryRows(df) =
        {[country |-> AnyRow(df, g).country, avg |-> Avg(df, g), count |-> Cardinality(g),
          cities |-> Cardinality({df[i].city : i \in g})] :
            g \in Groups([i \in DOMAIN df |-> df[i].country])}
  BY DEF CountryRows, CountryRow, CountryKey
<1>2. QED BY <1>1 DEF CountryRankings

LEMMA CountryReport ==
    ASSUME NEW df, IsBatch(df)
    PROVE  /\ IsReport(df, CountryKey(df), CountryRow(df))
           /\ {r.row : r \in CountryRankings(df)} = {CountryRow(df)[g] : g \in Groups(CountryKey(df))}
<1>1. ASSUME NEW g \in Groups(CountryKey(df))
      PROVE  Chosen(g) \in DOMAIN df /\ AnyRow(df, g) = df[Chosen(g)]
  BY AnyRowOf DEF CountryKey
<1>2. \A g, h \in Groups(CountryKey(df)) : CountryRow(df)[g] = CountryRow(df)[h]
        => CountryKey(df)[Chosen(g)] = CountryKey(df)[Chosen(h)]
  BY <1>1 DEF CountryRow, CountryKey
<1>3. {r.row : r \in CountryRankings(df)} = CountryRows(df)
  <2> DEFINE rank(a) == 1 + Cardinality({b \in CountryRows(df) : b.avg > a.avg})
  <2>1. CountryRankings(df) = {[row |-> a, rank |-> rank(a)] : a \in CountryRows(df)}
    BY CountryRankingsAre
  <2> HIDE DEF rank
  <2>2. ASSUME NEW a \in CountryRows(df) PROVE \E r \in CountryRankings(df) : r.row = a
    <3>1. [row |-> a, rank |-> rank(a)].row = a
      OBVIOUS
    <3>2. QED BY <2>1, <3>1
  <2>3. ASSUME NEW r \in CountryRankings(df) PROVE r.row \in CountryRows(df)
    BY <2>1
  <2>4. QED BY <2>2, <2>3
<1>4. QED BY <1>2, <1>3 DEF IsReport, CountryRow, CountryKey, CountryRows

RollupKey(df, n) == [i \in DOMAIN df |-> Prefix(df[i], n)]

RollupRow(df, n) == [g \in Groups(RollupKey(df, n)) |->
    [level |-> Levels[n + 1], key |-> Prefix(AnyRow(df, g), n), avg |-> Avg(df, g),
     min |-> Min(Temps(df, g)), max |-> Max(Temps(df, g)), count |-> Cardinality(g)]]

LEMMA RollupReport ==
    ASSUME NEW df, IsBatch(df), NEW n \in 0..3
    PROVE  /\ IsReport(df, RollupKey(df, n), RollupRow(df, n))
           /\ {t \in TemperatureRollup(df) : t.level = Levels[n + 1]}
                = {RollupRow(df, n)[g] : g \in Groups(RollupKey(df, n))}
<1>1. ASSUME NEW g \in Groups(RollupKey(df, n))
      PROVE  Chosen(g) \in DOMAIN df /\ AnyRow(df, g) = df[Chosen(g)]
  BY AnyRowOf DEF RollupKey
<1>2. \A g, h \in Groups(RollupKey(df, n)) : RollupRow(df, n)[g] = RollupRow(df, n)[h]
        => RollupKey(df, n)[Chosen(g)] = RollupKey(df, n)[Chosen(h)]
  BY <1>1 DEF RollupRow, RollupKey
<1> DEFINE Part(k) == {RollupRow(df, k)[g] : g \in Groups(RollupKey(df, k))}
<1>3. TemperatureRollup(df) = UNION {Part(k) : k \in 0..3}
  <2>1. \A k : Part(k) =
          {[level |-> Levels[k + 1], key |-> Prefix(AnyRow(df, g), k), avg |-> Avg(df, g),
            min |-> Min(Temps(df, g)), max |-> Max(Temps(df, g)), count |-> Cardinality(g)] :
              g \in Groups([i \in DOMAIN df |-> Prefix(df[i], k)])}
    BY DEF RollupRow, RollupKey
  <2> HIDE DEF Part
  <2>2. {Part(k) : k \in 0..3} =
          {{[level |-> Levels[k + 1], key |-> Prefix(AnyRow(df, g), k), avg |-> Avg(df, g),
             min |-> Min(Temps(df, g)), max |-> Max(Temps(df, g)), count |-> Cardinality(g)] :
               g \in Groups([i \in DOMAIN df |-> Prefix(df[i], k)])} : k \in 0..3}
    BY ONLY <2>1
  <2>3. QED BY <2>2, Zenon DEF TemperatureRollup
<1>4. \A k \in 0..3 : \A t \in Part(k) : t.level = Levels[k + 1]
  BY DEF RollupRow
<1>5. \A k \in 0..3 : Levels[k + 1] = Levels[n + 1] => k = n
  <2>1. /\ Levels[1] = "global" /\ Levels[2] = "country" /\ Levels[3] = "city"
        /\ Levels[4] = "day"
    BY DEF Levels
  <2>2. \A k \in 0..3 : k = 0 \/ k = 1 \/ k = 2 \/ k = 3
    OBVIOUS
  <2>3. QED BY <2>1, <2>2
<1> HIDE DEF Part
<1>6. {t \in TemperatureRollup(df) : t.level = Levels[n + 1]} = Part(n)
  BY <1>3, <1>4, <1>5
<1>7. QED BY <1>2, <1>6 DEF IsReport, RollupRow, RollupKey, Part
-----------------------------------------------------------------------------
(* An average lies between readings of its group, and a greater mean is not  *)
(* rounded below a smaller one.                                              *)
LEMMA RoundsDown ==
    ASSUME NEW s \in Int, NEW n \in Nat, n > 0, NEW k \in Int, 2 * s < 2 * (n * k) + n
    PROVE  Rounded(s, n) <= k
<1>1. PICK q : q = Rounded(s, n)
  OBVIOUS
<1>2. q \in Int /\ 2 * (n * q) <= 2 * s + n
  BY <1>1, RoundedIs
<1>3. ASSUME k + 1 <= q PROVE FALSE
  <2>1. n * (k + 1) <= n * q
    BY <1>2, <1>3
  <2>2. n * (k + 1) = n * k + n /\ n * q \in Int /\ n * k \in Int
    BY <1>2
  <2>3. QED BY <1>2, <2>1, <2>2
<1>4. QED BY <1>1, <1>2, <1>3

LEMMA TempsOf ==
    ASSUME NEW df, IsBatch(df), NEW g, g \subseteq DOMAIN df, g # {}
    PROVE  /\ Min(Temps(df, g)) \in Temps(df, g) /\ Max(Temps(df, g)) \in Temps(df, g)
           /\ Temps(df, g) \subseteq Int
           /\ \A i \in g : Min(Temps(df, g)) <= df[i].temp /\ df[i].temp <= Max(Temps(df, g))
<1> DEFINE f == [i \in g |-> df[i].temp]
<1>1. DOMAIN f = g /\ Temps(df, g) = {f[i] : i \in g}
  BY DEF Temps
<1>2. IsFiniteSet(g)
  BY SumOverIs
<1>3. Temps(df, g) # {} /\ Temps(df, g) \subseteq Int /\ \A i \in g : df[i].temp \in Temps(df, g)
  BY DEF Temps, IsBatch
<1> HIDE DEF f
<1>4. IsFiniteSet(Temps(df, g))
  BY <1>1, <1>2, ImageIsFinite
<1>5. PICK T : T = Temps(df, g)
  OBVIOUS
<1>6. /\ \E x \in T : \A y \in T : x <= y
      /\ \E x \in T : \A y \in T : x >= y
  BY <1>3, <1>4, <1>5, SmallestExists, GreatestExists
<1>7. /\ Min(T) \in T /\ \A y \in T : Min(T) <= y
      /\ Max(T) \in T /\ \A y \in T : Max(T) >= y
  BY <1>6 DEF Min, Max
<1>8. QED BY <1>3, <1>5, <1>7

LEMMA AvgBetween ==
    ASSUME NEW df, IsBatch(df), NEW g, g \subseteq DOMAIN df, g # {}
    PROVE  Min(Temps(df, g)) <= Avg(df, g) /\ Avg(df, g) <= Max(Temps(df, g))
<1>1. PICK n, s, m, k : /\ n = Cardinality(g) /\ s = SumOver(df, g)
                        /\ m = Min(Temps(df, g)) /\ k = Max(Temps(df, g))
  OBVIOUS
<1>2. n \in Nat /\ n > 0 /\ s \in Int /\ s = Total(TempOf(df), g) /\ IsFiniteSet(g)
  BY <1>1, AvgIs, SumOverIs
<1>3. m \in Int /\ k \in Int /\ \A i \in g : m <= df[i].temp /\ df[i].temp <= k
  BY <1>1, TempsOf
<1>4. \A i \in g : TempOf(df)[i] = df[i].temp /\ df[i].temp \in Int
  BY DEF TempOf, IsBatch
<1>5. m * n <= s /\ s <= k * n
  BY <1>1, <1>2, <1>3, <1>4, TotalBounds
<1>6. 2 * (n * m) - n < 2 * s /\ 2 * s < 2 * (n * k) + n
  <2>1. m * n = n * m /\ k * n = n * k /\ n * m \in Int /\ n * k \in Int
    BY <1>2, <1>3
  <2>2. QED BY <1>2, <1>5, <2>1
<1>7. m <= Rounded(s, n) /\ Rounded(s, n) <= k
  BY <1>2, <1>3, <1>6, RoundedIs, RoundsUp, RoundsDown
<1>8. QED BY <1>1, <1>7 DEF Avg

LEMMA SummaryCovers ==
    ASSUME NEW df, IsBatch(df), NEW i \in DOMAIN df
    PROVE  \E p \in CityDailySummary(df) :
             /\ p.min \in Int /\ p.max \in Int
             /\ p.min <= df[i].temp /\ df[i].temp <= p.max
<1>1. DOMAIN SummaryKey(df) = DOMAIN df
  BY DEF SummaryKey
<1>2. UNION Groups(SummaryKey(df)) = DOMAIN df
  <2>1. IsFiniteSet(DOMAIN SummaryKey(df))
    BY <1>1, BatchIsFinite
  <2>2. UNION Groups(SummaryKey(df)) = DOMAIN SummaryKey(df)
    BY <2>1, GroupsOf
  <2>3. QED BY <1>1, <2>2
<1>3. PICK g \in Groups(SummaryKey(df)) : i \in g
  BY <1>2
<1>4. g \subseteq DOMAIN df /\ g # {}
  BY <1>1, <1>3, AnyRowOf
<1>5. SummaryRow(df)[g] \in CityDailySummary(df)
  BY SummaryReport
<1>6. /\ SummaryRow(df)[g].min = Min(Temps(df, g))
      /\ SummaryRow(df)[g].max = Max(Temps(df, g))
  BY DEF SummaryRow
<1>7. /\ Min(Temps(df, g)) \in Int /\ Max(Temps(df, g)) \in Int
      /\ Min(Temps(df, g)) <= df[i].temp /\ df[i].temp <= Max(Temps(df, g))
  BY <1>3, <1>4, TempsOf
<1>8. QED BY <1>5, <1>6, <1>7

LEMMA CountriesWithin ==
    ASSUME NEW df, IsBatch(df), NEW a \in CountryRows(df)
    PROVE  \E p, q \in CityDailySummary(df) : p.min <= a.avg /\ a.avg <= q.max
<1>1. DOMAIN CountryKey(df) = DOMAIN df
  BY DEF CountryKey
<1>2. PICK g \in Groups(CountryKey(df)) : a = CountryRow(df)[g]
  BY DEF CountryRows
<1>3. g \subseteq DOMAIN df /\ g # {} /\ a.avg = Avg(df, g)
  BY <1>1, <1>2, AnyRowOf DEF CountryRow
<1>4. /\ Min(Temps(df, g)) \in Temps(df, g) /\ Max(Temps(df, g)) \in Temps(df, g)
      /\ Temps(df, g) \subseteq Int /\ Avg(df, g) \in Int
      /\ Min(Temps(df, g)) <= Avg(df, g) /\ Avg(df, g) <= Max(Temps(df, g))
  BY <1>3, TempsOf, AvgBetween, AvgIs
<1>5. PICK i \in g : df[i].temp = Min(Temps(df, g))
  BY <1>4 DEF Temps
<1>6. PICK j \in g : df[j].temp = Max(Temps(df, g))
  BY <1>4 DEF Temps
<1>7. PICK p \in CityDailySummary(df) : p.min \in Int /\ p.min <= df[i].temp
  BY <1>3, SummaryCovers
<1>8. PICK q \in CityDailySummary(df) : q.max \in Int /\ df[j].temp <= q.max
  BY <1>3, SummaryCovers
<1>9. PICK low, high, x, y, avg : /\ low = p.min /\ high = q.max /\ avg = Avg(df, g)
                                  /\ x = df[i].temp /\ y = df[j].temp
  OBVIOUS
<1>10. low \in Int /\ high \in Int /\ avg \in Int /\ x \in Int /\ y \in Int
       /\ low <= x /\ x <= avg /\ avg <= y /\ y <= high
  BY <1>4, <1>5, <1>6, <1>7, <1>8, <1>9
<1>11. low <= avg /\ avg <= high
  BY <1>10
<1>12. QED BY <1>3, <1>9, <1>11

(* A greater mean has no smaller rounded average.                            *)
LEMMA RoundedKeepsOrder ==
    ASSUME NEW s \in Int, NEW n \in Nat, n > 0, NEW t \in Int, NEW m \in Nat, m > 0,
           s * m > t * n
    PROVE  Rounded(s, n) >= Rounded(t, m)
<1>1. PICK q : q = Rounded(t, m)
  OBVIOUS
<1>2. q \in Int /\ 2 * (m * q) - m <= 2 * t
  <2>1. q \in Int /\ 2 * (m * q) <= 2 * t + m
    BY <1>1, RoundedIs
  <2>2. m * q \in Int
    BY <2>1
  <2>3. QED BY <2>1, <2>2
<1>3. 2 * (n * q) - n < 2 * s
  <2>1. SUFFICES ASSUME 2 * s <= 2 * (n * q) - n PROVE FALSE
    BY <1>2
  <2>2. (2 * s) * m <= (2 * (n * q) - n) * m
    BY <1>2, <2>1
  <2>3. (2 * (m * q) - m) * n <= (2 * t) * n
    BY <1>2
  <2>4. (2 * (n * q) - n) * m = (2 * (m * q) - m) * n
    BY <1>2
  <2>5. (2 * s) * m = 2 * (s * m) /\ (2 * t) * n = 2 * (t * n) /\ s * m \in Int /\ t * n \in Int
    OBVIOUS
  <2>6. (2 * (m * q) - m) * n \in Int
    BY <1>2
  <2>7. QED BY <2>2, <2>3, <2>4, <2>5, <2>6
<1>4. QED BY <1>1, <1>2, <1>3, RoundsUp

LEMMA WarmerNotBehind ==
    ASSUME NEW df, IsBatch(df), NEW p \in CountryRankings(df), NEW q \in CountryRankings(df),
           NEW g, g = {i \in DOMAIN df : df[i].country = p.row.country},
           NEW h, h = {i \in DOMAIN df : df[i].country = q.row.country},
           SumOver(df, g) * Cardinality(h) > SumOver(df, h) * Cardinality(g)
    PROVE  p.rank <= q.rank
<1> DEFINE Ahead(a) == {b \in CountryRows(df) : b.avg > a.avg}
<1>1. DOMAIN CountryKey(df) = DOMAIN df /\ \A i \in DOMAIN df : CountryKey(df)[i] = df[i].country
  BY DEF CountryKey
<1>2. ASSUME NEW r \in CountryRankings(df), NEW group,
             group = {i \in DOMAIN df : df[i].country = r.row.country}
      PROVE  /\ r.row \in CountryRows(df) /\ r.rank = 1 + Cardinality(Ahead(r.row))
             /\ group \subseteq DOMAIN df /\ group # {} /\ r.row.avg = Avg(df, group)
  <2>1. PICK a \in CountryRows(df) : r = [row |-> a, rank |-> 1 + Cardinality(Ahead(a))]
    BY CountryRankingsAre
  <2>2. PICK k \in Groups(CountryKey(df)) : a = CountryRow(df)[k]
    BY DEF CountryRows
  <2>3. r.row = a /\ r.rank = 1 + Cardinality(Ahead(r.row))
    BY <2>1
  <2>4. Chosen(k) \in k /\ k \subseteq DOMAIN df /\ AnyRow(df, k) = df[Chosen(k)]
    BY <1>1, AnyRowOf
  <2>5. k = {i \in DOMAIN df : CountryKey(df)[i] = CountryKey(df)[Chosen(k)]}
    <3>1. IsFiniteSet(DOMAIN CountryKey(df))
      BY <1>1, BatchIsFinite
    <3>2. k = {i \in DOMAIN CountryKey(df) : CountryKey(df)[i] = CountryKey(df)[Chosen(k)]}
      BY <3>1, GroupIs
    <3>3. QED BY <1>1, <3>2
  <2>6. a.country = df[Chosen(k)].country /\ a.avg = Avg(df, k)
    BY <2>2, <2>4 DEF CountryRow
  <2>7. k = {i \in DOMAIN df : df[i].country = a.country}
    BY <1>1, <2>4, <2>5, <2>6
  <2>8. k = group
    BY <1>2, <2>3, <2>7
  <2>9. QED BY <2>3, <2>4, <2>6, <2>8
<1>3. /\ p.row \in CountryRows(df) /\ p.rank = 1 + Cardinality(Ahead(p.row))
      /\ g \subseteq DOMAIN df /\ g # {} /\ p.row.avg = Avg(df, g)
  BY <1>2
<1>4. /\ q.row \in CountryRows(df) /\ q.rank = 1 + Cardinality(Ahead(q.row))
      /\ h \subseteq DOMAIN df /\ h # {} /\ q.row.avg = Avg(df, h)
  BY <1>2
<1>5. p.row.avg >= q.row.avg /\ p.row.avg \in Int /\ q.row.avg \in Int
  <2>1. Avg(df, g) >= Avg(df, h) /\ Avg(df, g) \in Int /\ Avg(df, h) \in Int
    BY <1>3, <1>4, SumOverIs, AvgIs, RoundedKeepsOrder DEF Avg
  <2>2. QED BY <1>3, <1>4, <2>1
<1>6. \A b \in CountryRows(df) : b.avg \in Int
  <2>1. ASSUME NEW k \in Groups(CountryKey(df)) PROVE CountryRow(df)[k].avg \in Int
    <3>1. k \subseteq DOMAIN df /\ k # {}
      BY <1>1, AnyRowOf
    <3>2. QED BY <3>1, AvgIs DEF CountryRow
  <2>2. QED BY <2>1 DEF CountryRows
<1>7. Ahead(p.row) \subseteq Ahead(q.row)
  <2>1. ASSUME NEW b, b \in Int, NEW x, x \in Int, NEW y, y \in Int, x >= y, b > x PROVE b > y
    BY <2>1
  <2>2. QED BY <1>5, <1>6, <2>1
<1>8. IsFiniteSet(Ahead(q.row))
  <2>1. IsFiniteSet(Groups(CountryKey(df)))
    BY <1>1, BatchIsFinite, GroupsOf
  <2>2. DOMAIN CountryRow(df) = Groups(CountryKey(df))
    BY DEF CountryRow
  <2>3. IsFiniteSet(CountryRows(df))
    BY <2>1, <2>2, ImageIsFinite DEF CountryRows
  <2>4. QED BY <2>3, FS_Subset
<1> HIDE DEF Ahead
<1>9. /\ Cardinality(Ahead(p.row)) <= Cardinality(Ahead(q.row))
      /\ Cardinality(Ahead(p.row)) \in Nat /\ Cardinality(Ahead(q.row)) \in Nat
  BY <1>7, <1>8, FS_Subset, FS_CardinalityType
<1>10. QED BY <1>3, <1>4, <1>9
-----------------------------------------------------------------------------
(* If the name and the country tell the city, the finest level of the rollup *)
(* groups the rows as the daily summary does.                                *)
LEMMA GroupsByKeys ==
    ASSUME NEW k, NEW l, DOMAIN k = DOMAIN l,
           \A i, j \in DOMAIN k : k[i] = k[j] <=> l[i] = l[j]
    PROVE  Groups(k) = Groups(l)
<1>1. \A j \in DOMAIN k : {i \in DOMAIN k : k[i] = k[j]} = {i \in DOMAIN l : l[i] = l[j]}
  OBVIOUS
<1>2. QED BY <1>1 DEF Groups

LEMMA WholePrefix ==
    ASSUME NEW r, NEW s
    PROVE  Prefix(r, 3) = Prefix(s, 3)
             <=> r.country = s.country /\ r.name = s.name /\ r.day = s.day
<1>1. ASSUME NEW a, NEW b, NEW c
      PROVE  SubSeq(<<a, b, c>>, 1, 3) = <<a, b, c>>
  <2>1. <<a, b, c>> \in Seq({a, b, c}) /\ Len(<<a, b, c>>) = 3
    OBVIOUS
  <2>2. QED BY <2>1, SubSeqFull
<1>2. Prefix(r, 3) = <<r.country, r.name, r.day>> /\ Prefix(s, 3) = <<s.country, s.name, s.day>>
  BY <1>1 DEF Prefix
<1>3. QED BY <1>2

NamesDiffer(df) ==
    \A i, j \in DOMAIN df :
        df[i].name = df[j].name /\ df[i].country = df[j].country => df[i].city = df[j].city

Figures(table) == {<<t.avg, t.min, t.max, t.count>> : t \in table}

LEMMA DaysAreTheSummary ==
    ASSUME NEW df, IsBatch(df), NamesDiffer(df)
    PROVE  Figures({t \in TemperatureRollup(df) : t.level = "day"}) = Figures(CityDailySummary(df))
<1> DEFINE G == Groups(SummaryKey(df))
           of(g) == <<Avg(df, g), Min(Temps(df, g)), Max(Temps(df, g)), Cardinality(g)>>
<1>1. G = Groups(RollupKey(df, 3))
  <2>1. DOMAIN SummaryKey(df) = DOMAIN df /\ DOMAIN RollupKey(df, 3) = DOMAIN df
    BY DEF SummaryKey, RollupKey
  <2>2. ASSUME NEW i \in DOMAIN df, NEW j \in DOMAIN df
        PROVE  SummaryKey(df)[i] = SummaryKey(df)[j] <=> RollupKey(df, 3)[i] = RollupKey(df, 3)[j]
    <3>1. SummaryKey(df)[i] = SummaryKey(df)[j]
            <=> /\ df[i].city = df[j].city /\ df[i].name = df[j].name
                /\ df[i].country = df[j].country /\ df[i].day = df[j].day
      BY DEF SummaryKey
    <3>2. RollupKey(df, 3)[i] = RollupKey(df, 3)[j] <=> Prefix(df[i], 3) = Prefix(df[j], 3)
      BY DEF RollupKey
    <3>3. Prefix(df[i], 3) = Prefix(df[j], 3)
            <=> /\ df[i].country = df[j].country /\ df[i].name = df[j].name
                /\ df[i].day = df[j].day
      BY WholePrefix
    <3>4. df[i].name = df[j].name /\ df[i].country = df[j].country => df[i].city = df[j].city
      BY DEF NamesDiffer
    <3>5. QED BY <3>1, <3>2, <3>3, <3>4
  <2>3. QED BY <2>1, <2>2, GroupsByKeys
<1>2. Levels[3 + 1] = "day"
  BY DEF Levels
<1>3. {t \in TemperatureRollup(df) : t.level = "day"} = {RollupRow(df, 3)[g] : g \in G}
  BY <1>1, <1>2, RollupReport
<1>4. CityDailySummary(df) = {SummaryRow(df)[g] : g \in G}
  BY SummaryReport
<1>5. \A g \in G : LET t == RollupRow(df, 3)[g] IN <<t.avg, t.min, t.max, t.count>> = of(g)
  BY <1>1 DEF RollupRow
<1>6. \A g \in G : LET t == SummaryRow(df)[g] IN <<t.avg, t.min, t.max, t.count>> = of(g)
  BY DEF SummaryRow
<1> HIDE DEF G, of
<1>7. Figures({RollupRow(df, 3)[g] : g \in G}) = {of(g) : g \in G}
  BY <1>5 DEF Figures
<1>8. Figures({SummaryRow(df)[g] : g \in G}) = {of(g) : g \in G}
  BY <1>6 DEF Figures
<1>9. QED BY <1>3, <1>4, <1>7, <1>8

(* What the reports of a batch have to do with each other.                   *)
NearTotals(df, t, u) ==
    LET diff == RowTotal(t) - RowTotal(u) IN -Len(df) <= diff /\ diff <= Len(df)

LEMMA NearOf ==
    ASSUME NEW df, IsBatch(df), NEW t, NEW u, WithinHalf(df, t), WithinHalf(df, u)
    PROVE  NearTotals(df, t, u)
<1>1. PICK a, b, c, n : a = RowTotal(t) /\ b = RowTotal(u) /\ c = SumOver(df, DOMAIN df) /\ n = Len(df)
  OBVIOUS
<1>2. n \in Nat /\ c \in Int
  BY <1>1, BatchIsFinite, SumOverIs
<1>3. a \in Int /\ 2 * a - 2 * c <= n /\ 2 * c - 2 * a <= n
  BY <1>1 DEF WithinHalf
<1>4. b \in Int /\ 2 * b - 2 * c <= n /\ 2 * c - 2 * b <= n
  BY <1>1 DEF WithinHalf
<1>5. -n <= a - b /\ a - b <= n
  BY <1>2, <1>3, <1>4
<1>6. QED BY <1>1, <1>5 DEF NearTotals

LEMMA ReportsOf ==
    ASSUME NEW df, IsBatch(df), NEW countries, countries = {r.row : r \in CountryRankings(df)}
    PROVE  /\ \A table \in {CityDailySummary(df), GlobalHourlyTrends(df), countries} :
                 RowCount(table) = Len(df)
           /\ \A l \in {"global", "country", "city", "day"} :
                 RowCount({t \in TemperatureRollup(df) : t.level = l}) = Len(df)
           /\ NearTotals(df, GlobalHourlyTrends(df), countries)
           /\ \A a \in countries : \E p, q \in CityDailySummary(df) :
                 p.min <= a.avg /\ a.avg <= q.max
<1>1. \A table \in {CityDailySummary(df), GlobalHourlyTrends(df), countries} :
         RowCount(table) = Len(df)
  <2>1. RowCount(CityDailySummary(df)) = Len(df)
    BY SummaryReport, CountsOf
  <2>2. RowCount(GlobalHourlyTrends(df)) = Len(df)
    BY HourlyReport, CountsOf
  <2>3. RowCount(countries) = Len(df)
    BY CountryReport, CountsOf
  <2>4. QED BY <2>1, <2>2, <2>3
<1>2. ASSUME NEW l \in {"global", "country", "city", "day"}
      PROVE  RowCount({t \in TemperatureRollup(df) : t.level = l}) = Len(df)
  <2>1. PICK n \in 0..3 : l = Levels[n + 1]
    <3>1. /\ Levels[0 + 1] = "global" /\ Levels[1 + 1] = "country" /\ Levels[2 + 1] = "city"
          /\ Levels[3 + 1] = "day" /\ 0 \in 0..3 /\ 1 \in 0..3 /\ 2 \in 0..3 /\ 3 \in 0..3
      BY DEF Levels
    <3>2. QED BY <3>1
  <2>2. PICK table : table = {t \in TemperatureRollup(df) : t.level = l}
    OBVIOUS
  <2>3. /\ IsReport(df, RollupKey(df, n), RollupRow(df, n))
        /\ table = {RollupRow(df, n)[g] : g \in Groups(RollupKey(df, n))}
    BY <2>1, <2>2, RollupReport
  <2>4. RowCount(table) = Len(df)
    BY <2>3, CountsOf
  <2>5. QED BY <2>2, <2>4
<1>3. WithinHalf(df, countries) /\ WithinHalf(df, GlobalHourlyTrends(df))
  <2>1. WithinHalf(df, countries)
    BY CountryReport, AveragesOf
  <2>2. WithinHalf(df, GlobalHourlyTrends(df))
    BY HourlyReport, AveragesOf
  <2>3. QED BY <2>1, <2>2
<1>4. NearTotals(df, GlobalHourlyTrends(df), countries)
  BY <1>3, NearOf
<1>5. countries = CountryRows(df)
  BY CountryReport DEF CountryRows
<1>6. QED BY <1>1, <1>2, <1>4, <1>5, CountriesWithin
=============================================================================
