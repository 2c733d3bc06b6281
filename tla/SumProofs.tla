------------------------------- MODULE SumProofs -------------------------------
(***************************************************************************)
(* Sums over finite sets.  FiniteSetsExt adds an element that CHOOSE picks   *)
(* to the sum of the others; that this recursion has a solution, that there  *)
(* is one only and that the order does not matter is shown by looking at a   *)
(* smallest set for which it would not be so.                                *)
(***************************************************************************)
EXTENDS Integers, FiniteSetTheorems, WellFoundedInduction, TLAPS

Chosen(s) == CHOOSE x \in s : TRUE

(* The recursion, on the subsets of S.                                       *)
IsSummation(iter, f, S) ==
    iter = [s \in SUBSET S |-> IF s = {} THEN 0 ELSE f[Chosen(s)] + iter[s \ {Chosen(s)}]]

Summation(f, S) == CHOOSE iter : IsSummation(iter, f, S)

(* The sum of f[x] for x in S.                                               *)
Total(f, S) == Summation(f, S)[S]

-----------------------------------------------------------------------------
(* Among sets of subsets of a finite set one has no other below it.          *)
LEMMA SmallestSet ==
    ASSUME NEW S, IsFiniteSet(S), NEW B, B \subseteq SUBSET S, B # {}
    PROVE  \E T \in B : \A U \in B : U \subseteq T => U = T
<1>1. FiniteSubsetsOf(S) = SUBSET S
  BY FS_FiniteSubsetsOfFinite
<1>2. IsWellFoundedOn(StrictSubsetOrdering(S), SUBSET S)
  BY <1>1, FS_StrictSubsetOrderingWellFounded
<1>3. PICK T \in B : \A U \in B : <<U, T>> \notin StrictSubsetOrdering(S)
  BY <1>2, WFMin
<1>4. ASSUME NEW U \in B, U \subseteq T PROVE U = T
  BY <1>3, <1>4 DEF StrictSubsetOrdering
<1>5. QED BY <1>4

LEMMA ChosenIn == ASSUME NEW s, s # {} PROVE Chosen(s) \in s
BY DEF Chosen

(* Two solutions agree where both are defined.                               *)
LEMMA SummationsAgree ==
    ASSUME NEW f, NEW S, NEW T, IsFiniteSet(S), NEW g, NEW h,
           IsSummation(g, f, S), IsSummation(h, f, T),
           NEW U, U \subseteq S, U \subseteq T
    PROVE  g[U] = h[U]
<1> DEFINE B == {V \in SUBSET S : V \subseteq T /\ g[V] # h[V]}
<1>1. SUFFICES ASSUME g[U] # h[U] PROVE FALSE
  OBVIOUS
<1>2. PICK M \in B : \A V \in B : V \subseteq M => V = M
  <2>1. U \in B /\ B \subseteq SUBSET S
    BY <1>1
  <2> HIDE DEF B
  <2>2. QED BY <2>1, SmallestSet
<1>3. M \subseteq S /\ M \subseteq T /\ g[M] # h[M]
  OBVIOUS
<1>4. M # {}
  <2>1. SUFFICES ASSUME M = {} PROVE FALSE
    OBVIOUS
  <2>2. g[M] = 0
    BY <1>3, <2>1 DEF IsSummation
  <2>3. h[M] = 0
    BY <1>3, <2>1 DEF IsSummation
  <2>4. QED BY <1>3, <2>2, <2>3
<1> DEFINE x == Chosen(M)
<1>5. x \in M
  BY <1>4, ChosenIn
<1>6. g[M \ {x}] = h[M \ {x}]
  <2>1. M \ {x} \notin B
    BY <1>2, <1>5
  <2>2. QED BY <1>3, <2>1
<1>7. g[M] = f[x] + g[M \ {x}]
  BY <1>3, <1>4 DEF IsSummation
<1>8. h[M] = f[x] + h[M \ {x}]
  BY <1>3, <1>4 DEF IsSummation
<1>9. QED BY <1>3, <1>6, <1>7, <1>8

(* There is a solution.                                                      *)
LEMMA SummationExists ==
    ASSUME NEW f, NEW S, IsFiniteSet(S)
    PROVE  IsSummation(Summation(f, S), f, S)
<1> DEFINE B == {V \in SUBSET S : ~\E g : IsSummation(g, f, V)}
<1>1. SUFFICES \E g : IsSummation(g, f, S)
  BY DEF Summation
<1>2. SUFFICES ASSUME ~\E g : IsSummation(g, f, S) PROVE FALSE
  OBVIOUS
<1>3. PICK M \in B : \A V \in B : V \subseteq M => V = M
  <2>1. S \in B /\ B \subseteq SUBSET S
    BY <1>2
  <2> HIDE DEF B
  <2>2. QED BY <2>1, SmallestSet
<1>4. M \subseteq S /\ ~\E g : IsSummation(g, f, M)
  OBVIOUS
<1>5. ASSUME NEW V, V \subseteq M, V # M
      PROVE  IsSummation(Summation(f, V), f, V) /\ IsFiniteSet(V)
  <2>1. V \notin B
    BY <1>3, <1>5
  <2>2. \E g : IsSummation(g, f, V)
    BY <1>4, <1>5, <2>1
  <2>3. IsSummation(Summation(f, V), f, V)
    BY <2>2 DEF Summation
  <2>4. QED BY <1>4, <1>5, <2>3, FS_Subset
<1> DEFINE rest(s) == s \ {Chosen(s)}
<1> DEFINE g == [s \in SUBSET M |-> IF s = {} THEN 0 ELSE f[Chosen(s)] + Total(f, rest(s))]
<1>6. ASSUME NEW t, t \subseteq M, t # M
      PROVE  g[t] = Total(f, t)
  <2>1. IsSummation(Summation(f, t), f, t) /\ IsFiniteSet(t)
    BY <1>5, <1>6
  <2>2. CASE t = {}
    BY <1>6, <2>1, <2>2 DEF IsSummation, Total
  <2>3. CASE t # {}
    <3>1. rest(t) \subseteq t /\ rest(t) # t
      BY <2>3, ChosenIn
    <3>2. IsSummation(Summation(f, rest(t)), f, rest(t)) /\ rest(t) \subseteq M
      BY <1>5, <1>6, <3>1
    <3>3. Total(f, t) = f[Chosen(t)] + Summation(f, t)[rest(t)]
      BY <2>1, <2>3 DEF IsSummation, Total
    <3>4. Summation(f, t)[rest(t)] = Summation(f, rest(t))[rest(t)]
      <4> HIDE DEF rest
      <4>1. QED BY <2>1, <3>1, <3>2, SummationsAgree
    <3>5. g[t] = f[Chosen(t)] + Total(f, rest(t))
      BY <1>6, <2>3
    <3>6. QED BY <3>3, <3>4, <3>5 DEF Total
  <2>4. QED BY <2>2, <2>3
<1>7. ASSUME NEW s \in SUBSET M, s # {}
      PROVE  g[rest(s)] = Total(f, rest(s))
  <2>1. rest(s) \subseteq M /\ rest(s) # M
    BY <1>7, ChosenIn
  <2> HIDE DEF g, rest
  <2>2. QED BY <1>6, <2>1
<1>8. IsSummation(g, f, M)
  <2>1. g = [s \in SUBSET M |-> IF s = {} THEN 0 ELSE f[Chosen(s)] + g[rest(s)]]
    <3>1. \A s \in SUBSET M :
            (IF s = {} THEN 0 ELSE f[Chosen(s)] + Total(f, rest(s)))
              = (IF s = {} THEN 0 ELSE f[Chosen(s)] + g[rest(s)])
      BY <1>7
    <3>2. QED BY <3>1
  <2> HIDE DEF g
  <2>2. QED BY <2>1 DEF IsSummation
<1>9. QED BY <1>4, <1>8

-----------------------------------------------------------------------------
(* What a sum is, and that it is an integer.                                 *)
LEMMA SumIsTotal == ASSUME NEW f, NEW S PROVE SumFunctionOnSet(f, S) = Total(f, S)
BY DEF SumFunctionOnSet, FoldFunctionOnSet, MapThenFoldSet, Total, Summation, IsSummation, Chosen

LEMMA TotalOfNone == ASSUME NEW f PROVE Total(f, {}) = 0
<1>1. IsFiniteSet({})
  BY FS_EmptySet
<1>2. IsSummation(Summation(f, {}), f, {})
  BY <1>1, SummationExists
<1>3. QED BY <1>2 DEF IsSummation, Total

LEMMA TotalOfSome ==
    ASSUME NEW f, NEW S, IsFiniteSet(S), S # {}
    PROVE  /\ Chosen(S) \in S
           /\ Total(f, S) = f[Chosen(S)] + Total(f, S \ {Chosen(S)})
<1> DEFINE R == S \ {Chosen(S)}
<1>1. IsFiniteSet(R) /\ R \subseteq S
  BY FS_RemoveElement
<1>2. IsSummation(Summation(f, S), f, S) /\ IsSummation(Summation(f, R), f, R)
  BY <1>1, SummationExists
<1>3. Total(f, S) = f[Chosen(S)] + Summation(f, S)[R]
  BY <1>2 DEF IsSummation, Total
<1>4. ASSUME NEW T, T = R PROVE Summation(f, S)[T] = Summation(f, T)[T]
  <2>1. IsFiniteSet(S) /\ T \subseteq S /\ T \subseteq T
    BY <1>1, <1>4
  <2>2. IsSummation(Summation(f, S), f, S) /\ IsSummation(Summation(f, T), f, T)
    BY <1>2, <1>4
  <2>3. QED BY <2>1, <2>2, SummationsAgree
<1>5. QED BY <1>3, <1>4, ChosenIn DEF Total

LEMMA TotalIsInt ==
    ASSUME NEW f, NEW S, IsFiniteSet(S), \A x \in S : f[x] \in Int
    PROVE  Total(f, S) \in Int
<1> DEFINE B == {V \in SUBSET S : Total(f, V) \notin Int}
<1>1. SUFFICES ASSUME Total(f, S) \notin Int PROVE FALSE
  OBVIOUS
<1>2. PICK M \in B : \A V \in B : V \subseteq M => V = M
  <2>1. S \in B /\ B \subseteq SUBSET S
    BY <1>1
  <2> HIDE DEF B
  <2>2. QED BY <2>1, SmallestSet
<1>3. M \subseteq S /\ Total(f, M) \notin Int /\ IsFiniteSet(M)
  BY FS_Subset
<1>4. M # {}
  BY <1>3, TotalOfNone
<1> DEFINE R == M \ {Chosen(M)}
<1>5. Chosen(M) \in M /\ Total(f, M) = f[Chosen(M)] + Total(f, R)
  BY <1>3, <1>4, TotalOfSome
<1>6. R \notin B
  BY <1>2, <1>5
<1>7. Total(f, R) \in Int
  BY <1>3, <1>6
<1>8. QED BY <1>3, <1>5, <1>7

(* Any element may be taken first.                                           *)
LEMMA TotalWithout ==
    ASSUME NEW f, NEW S, IsFiniteSet(S), \A x \in S : f[x] \in Int, NEW x \in S
    PROVE  Total(f, S) = f[x] + Total(f, S \ {x})
<1> DEFINE B == {V \in SUBSET S : \E y \in V : Total(f, V) # f[y] + Total(f, V \ {y})}
<1>1. SUFFICES ASSUME Total(f, S) # f[x] + Total(f, S \ {x}) PROVE FALSE
  OBVIOUS
<1>2. PICK M \in B : \A V \in B : V \subseteq M => V = M
  <2>1. S \in B /\ B \subseteq SUBSET S
    BY <1>1
  <2> HIDE DEF B
  <2>2. QED BY <2>1, SmallestSet
<1>3. PICK y \in M : Total(f, M) # f[y] + Total(f, M \ {y})
  OBVIOUS
<1>4. M \subseteq S /\ IsFiniteSet(M) /\ M # {}
  BY <1>3, FS_Subset
<1> DEFINE z == Chosen(M)
<1>5. z \in M /\ Total(f, M) = f[z] + Total(f, M \ {z})
  BY <1>4, TotalOfSome
<1>6. y # z
  BY <1>3, <1>5
<1>7. M \ {z} \notin B /\ M \ {y} \notin B
  BY <1>2, <1>3, <1>5
<1>8. Total(f, M \ {z}) = f[y] + Total(f, (M \ {z}) \ {y})
  BY <1>3, <1>4, <1>6, <1>7
<1>9. Total(f, M \ {y}) = f[z] + Total(f, (M \ {y}) \ {z})
  BY <1>4, <1>5, <1>6, <1>7
<1> HIDE DEF z
<1>10. (M \ {z}) \ {y} = (M \ {y}) \ {z}
  OBVIOUS
<1>11. Total(f, (M \ {y}) \ {z}) \in Int /\ f[y] \in Int /\ f[z] \in Int
  <2>1. IsFiniteSet((M \ {y}) \ {z})
    BY <1>4, FS_RemoveElement
  <2>2. \A w \in (M \ {y}) \ {z} : f[w] \in Int
    BY <1>4
  <2>3. QED BY <1>3, <1>4, <1>5, <2>1, <2>2, TotalIsInt
<1>12. \E t \in Int : /\ Total(f, M) = f[z] + (f[y] + t)
                     /\ Total(f, M \ {y}) = f[z] + t
  BY <1>5, <1>8, <1>9, <1>10, <1>11
<1>13. QED BY <1>3, <1>11, <1>12

LEMMA TotalOfZeros ==
    ASSUME NEW f, NEW S, IsFiniteSet(S), \A x \in S : f[x] = 0
    PROVE  Total(f, S) = 0
<1> DEFINE B == {V \in SUBSET S : Total(f, V) # 0}
<1>1. SUFFICES ASSUME Total(f, S) # 0 PROVE FALSE
  OBVIOUS
<1>2. PICK M \in B : \A V \in B : V \subseteq M => V = M
  <2>1. S \in B /\ B \subseteq SUBSET S
    BY <1>1
  <2> HIDE DEF B
  <2>2. QED BY <2>1, SmallestSet
<1>3. M \subseteq S /\ Total(f, M) # 0 /\ IsFiniteSet(M) /\ M # {}
  BY FS_Subset, TotalOfNone
<1>4. Chosen(M) \in M /\ Total(f, M) = f[Chosen(M)] + Total(f, M \ {Chosen(M)})
  BY <1>3, TotalOfSome
<1>5. Total(f, M \ {Chosen(M)}) = 0
  BY <1>2, <1>3, <1>4
<1>6. QED BY <1>3, <1>4, <1>5

LEMMA TotalsAgree ==
    ASSUME NEW S, IsFiniteSet(S), NEW f, NEW g, \A x \in S : f[x] = g[x]
    PROVE  Total(f, S) = Total(g, S)
<1> DEFINE B == {V \in SUBSET S : Total(f, V) # Total(g, V)}
<1>1. SUFFICES ASSUME Total(f, S) # Total(g, S) PROVE FALSE
  OBVIOUS
<1>2. PICK M \in B : \A V \in B : V \subseteq M => V = M
  <2>1. S \in B /\ B \subseteq SUBSET S
    BY <1>1
  <2> HIDE DEF B
  <2>2. QED BY <2>1, SmallestSet
<1>3. M \subseteq S /\ Total(f, M) # Total(g, M) /\ IsFiniteSet(M)
  BY FS_Subset
<1>4. M # {}
  BY <1>3, TotalOfNone
<1> DEFINE z == Chosen(M)
<1>5. /\ z \in M
      /\ Total(f, M) = f[z] + Total(f, M \ {z})
      /\ Total(g, M) = g[z] + Total(g, M \ {z})
  BY <1>3, <1>4, TotalOfSome
<1>6. Total(f, M \ {z}) = Total(g, M \ {z})
  BY <1>2, <1>3, <1>5
<1>7. QED BY <1>3, <1>5, <1>6

LEMMA TotalOfConstant ==
    ASSUME NEW S, IsFiniteSet(S), NEW f, NEW k \in Int, \A x \in S : f[x] = k
    PROVE  Total(f, S) = k * Cardinality(S)
<1> DEFINE B == {V \in SUBSET S : Total(f, V) # k * Cardinality(V)}
<1>1. SUFFICES ASSUME Total(f, S) # k * Cardinality(S) PROVE FALSE
  OBVIOUS
<1>2. PICK M \in B : \A V \in B : V \subseteq M => V = M
  <2>1. S \in B /\ B \subseteq SUBSET S
    BY <1>1
  <2> HIDE DEF B
  <2>2. QED BY <2>1, SmallestSet
<1>3. M \subseteq S /\ Total(f, M) # k * Cardinality(M) /\ IsFiniteSet(M)
  BY FS_Subset
<1>4. M # {}
  <2>1. Cardinality({}) = 0 /\ k * 0 = 0
    BY FS_EmptySet
  <2>2. QED BY <1>3, <2>1, TotalOfNone
<1> DEFINE z == Chosen(M)
<1>5. z \in M /\ Total(f, M) = f[z] + Total(f, M \ {z})
  BY <1>3, <1>4, TotalOfSome
<1> HIDE DEF z
<1>6. Total(f, M \ {z}) = k * Cardinality(M \ {z}) /\ f[z] = k
  BY <1>2, <1>3, <1>5
<1>7. Cardinality(M \ {z}) = Cardinality(M) - 1 /\ Cardinality(M) \in Nat
  BY <1>3, <1>5, FS_RemoveElement, FS_CardinalityType
<1>8. ASSUME NEW n \in Int PROVE k + k * (n - 1) = k * n
  OBVIOUS
<1>9. QED BY <1>3, <1>5, <1>6, <1>7, <1>8

(* What bounds the differences of the elements bounds that of the sums.      *)
LEMMA TotalsDiffer ==
    ASSUME NEW S, IsFiniteSet(S), NEW f, NEW g, NEW w,
           \A x \in S : /\ f[x] \in Int /\ g[x] \in Int /\ w[x] \in Int
                       /\ 2 * f[x] - 2 * g[x] <= w[x]
    PROVE  2 * Total(f, S) - 2 * Total(g, S) <= Total(w, S)
<1> DEFINE Within(V) == 2 * Total(f, V) - 2 * Total(g, V) <= Total(w, V)
           B == {V \in SUBSET S : ~Within(V)}
<1>1. SUFFICES ASSUME ~Within(S) PROVE FALSE
  OBVIOUS
<1>2. PICK M \in B : \A V \in B : V \subseteq M => V = M
  <2>1. S \in B /\ B \subseteq SUBSET S
    BY <1>1
  <2> HIDE DEF B
  <2>2. QED BY <2>1, SmallestSet
<1>3. M \subseteq S /\ ~Within(M) /\ IsFiniteSet(M)
  BY FS_Subset
<1>4. M # {}
  <2>1. Total(f, {}) = 0 /\ Total(g, {}) = 0 /\ Total(w, {}) = 0
    BY TotalOfNone
  <2>2. Within({})
    BY <2>1
  <2> HIDE DEF Within
  <2>3. QED BY <1>3, <2>2
<1> DEFINE z == Chosen(M)
<1>5. /\ z \in M
      /\ Total(f, M) = f[z] + Total(f, M \ {z})
      /\ Total(g, M) = g[z] + Total(g, M \ {z})
      /\ Total(w, M) = w[z] + Total(w, M \ {z})
  BY <1>3, <1>4, TotalOfSome
<1> HIDE DEF z
<1>6. Within(M \ {z})
  BY <1>2, <1>3, <1>5
<1>7. Total(f, M \ {z}) \in Int /\ Total(g, M \ {z}) \in Int /\ Total(w, M \ {z}) \in Int
  <2>1. IsFiniteSet(M \ {z})
    BY <1>3, FS_RemoveElement
  <2>2. \A x \in M \ {z} : f[x] \in Int /\ g[x] \in Int /\ w[x] \in Int
    BY <1>3
  <2>3. QED BY <2>1, <2>2, TotalIsInt
<1>8. f[z] \in Int /\ g[z] \in Int /\ w[z] \in Int /\ 2 * f[z] - 2 * g[z] <= w[z]
  BY <1>3, <1>5
<1>9. QED BY <1>3, <1>5, <1>6, <1>7, <1>8

(* No element is below m, or none above.                                     *)
LEMMA TotalBounds ==
    ASSUME NEW S, IsFiniteSet(S), NEW f, \A x \in S : f[x] \in Int, NEW m \in Int
    PROVE  /\ (\A x \in S : m <= f[x]) => m * Cardinality(S) <= Total(f, S)
           /\ (\A x \in S : f[x] <= m) => Total(f, S) <= m * Cardinality(S)
<1> DEFINE c == [x \in S |-> m]
           zero == [x \in S |-> 0]
<1>1. \A x \in S : c[x] = m /\ zero[x] = 0
  OBVIOUS
<1> HIDE DEF c, zero
<1>2. Total(c, S) = m * Cardinality(S) /\ Total(zero, S) = 0
  BY <1>1, TotalOfConstant, TotalOfZeros
<1>3. Total(f, S) \in Int /\ m * Cardinality(S) \in Int
  BY <1>1, <1>2, TotalIsInt
<1>4. ASSUME \A x \in S : m <= f[x] PROVE m * Cardinality(S) <= Total(f, S)
  <2>1. 2 * Total(c, S) - 2 * Total(f, S) <= Total(zero, S)
    BY <1>1, <1>4, TotalsDiffer
  <2>2. QED BY <1>2, <1>3, <2>1
<1>5. ASSUME \A x \in S : f[x] <= m PROVE Total(f, S) <= m * Cardinality(S)
  <2>1. 2 * Total(f, S) - 2 * Total(c, S) <= Total(zero, S)
    BY <1>1, <1>5, TotalsDiffer
  <2>2. QED BY <1>2, <1>3, <2>1
<1>6. QED BY <1>4, <1>5

LEMMA TotalOfUnion ==
    ASSUME NEW S, IsFiniteSet(S), NEW T, IsFiniteSet(T), S \cap T = {}, NEW f,
           \A x \in S \cup T : f[x] \in Int
    PROVE  Total(f, S \cup T) = Total(f, S) + Total(f, T)
<1> DEFINE B == {V \in SUBSET S : Total(f, V \cup T) # Total(f, V) + Total(f, T)}
<1>1. SUFFICES ASSUME Total(f, S \cup T) # Total(f, S) + Total(f, T) PROVE FALSE
  OBVIOUS
<1>2. PICK M \in B : \A V \in B : V \subseteq M => V = M
  <2>1. S \in B /\ B \subseteq SUBSET S
    BY <1>1
  <2> HIDE DEF B
  <2>2. QED BY <2>1, SmallestSet
<1>3. /\ M \subseteq S /\ Total(f, M \cup T) # Total(f, M) + Total(f, T)
      /\ IsFiniteSet(M) /\ IsFiniteSet(M \cup T)
  BY FS_Subset, FS_Union
<1>4. Total(f, T) \in Int
  BY TotalIsInt
<1>5. M # {}
  <2>1. {} \cup T = T
    OBVIOUS
  <2>2. QED BY <1>3, <1>4, <2>1, TotalOfNone
<1>6. PICK z \in M : TRUE
  BY <1>5
<1>7. Total(f, M) = f[z] + Total(f, M \ {z})
  BY <1>3, <1>6, TotalWithout
<1>8. Total(f, M \cup T) = f[z] + Total(f, (M \cup T) \ {z})
  BY <1>3, <1>6, TotalWithout
<1>9. (M \cup T) \ {z} = (M \ {z}) \cup T
  BY <1>3, <1>6
<1>10. Total(f, (M \ {z}) \cup T) = Total(f, M \ {z}) + Total(f, T)
  BY <1>2, <1>3, <1>6
<1>11. f[z] \in Int /\ Total(f, M \ {z}) \in Int
  <2>1. IsFiniteSet(M \ {z}) /\ \A x \in M \ {z} : f[x] \in Int
    BY <1>3, FS_RemoveElement
  <2>2. QED BY <1>3, <1>6, <2>1, TotalIsInt
<1>12. Total(f, M \cup T) = f[z] + (Total(f, M \ {z}) + Total(f, T))
  BY <1>8, <1>9, <1>10
<1>13. QED BY <1>3, <1>4, <1>7, <1>11, <1>12

-----------------------------------------------------------------------------
(* Images and extremes of finite sets.                                       *)
LEMMA ImageIsFinite ==
    ASSUME NEW S, IsFiniteSet(S), NEW f, DOMAIN f = S
    PROVE  IsFiniteSet({f[x] : x \in S})
<1> DEFINE T == {f[x] : x \in S}
           g == [x \in S |-> f[x]]
<1>1. g \in [S -> T] /\ \A t \in T : \E x \in S : g[x] = t
  OBVIOUS
<1> HIDE DEF g
<1>2. g \in Surjection(S, T)
  BY <1>1 DEF Surjection
<1>3. QED BY <1>2, FS_Surjection

LEMMA SmallestExists ==
    ASSUME NEW S, IsFiniteSet(S)
    PROVE  S # {} /\ S \subseteq Int => \E x \in S : \A y \in S : x <= y
<1> DEFINE Least(V) == \E x \in V : \A y \in V : x <= y
           B == {V \in SUBSET S : V # {} /\ ~Least(V)}
<1>1. SUFFICES ASSUME S # {}, S \subseteq Int, ~Least(S) PROVE FALSE
  OBVIOUS
<1>2. PICK M \in B : \A V \in B : V \subseteq M => V = M
  <2>1. S \in B /\ B \subseteq SUBSET S
    BY <1>1
  <2> HIDE DEF B
  <2>2. QED BY <2>1, SmallestSet
<1>3. PICK z \in M : TRUE
  OBVIOUS
<1>4. M \ {z} \notin B /\ M \subseteq Int
  BY <1>1, <1>2, <1>3
<1>5. ~Least(M) /\ M \subseteq S
  OBVIOUS
<1>6. CASE M = {z}
  BY <1>4, <1>5, <1>6
<1>7. CASE M # {z}
  <2>1. PICK x \in M \ {z} : \A y \in M \ {z} : x <= y
    BY <1>3, <1>4, <1>5, <1>7
  <2>2. x \in M /\ x \in Int /\ z \in Int
    BY <1>3, <1>4, <2>1
  <2>3. CASE x <= z
    <3>1. \A y \in M : x <= y
      BY <2>1, <2>3
    <3>2. QED BY <1>5, <2>2, <3>1
  <2>4. CASE z <= x
    <3>1. \A y \in M : z <= y
      BY <1>4, <2>1, <2>2, <2>4
    <3>2. QED BY <1>3, <1>5, <3>1
  <2>5. QED BY <2>2, <2>3, <2>4
<1>8. QED BY <1>6, <1>7

LEMMA GreatestExists ==
    ASSUME NEW S, IsFiniteSet(S), S # {}, S \subseteq Int
    PROVE  \E x \in S : \A y \in S : x >= y
<1> DEFINE f == [x \in S |-> -x]
           T == {f[x] : x \in S}
<1>1. IsFiniteSet(T) /\ T # {} /\ T \subseteq Int
  <2>1. T # {} /\ T \subseteq Int
    <3>1. \A x \in S : f[x] \in Int
      OBVIOUS
    <3> HIDE DEF f
    <3>2. QED BY <3>1
  <2>2. DOMAIN f = S
    OBVIOUS
  <2> HIDE DEF f
  <2>3. QED BY <2>1, <2>2, ImageIsFinite
<1>2. PICK t \in T : \A y \in T : t <= y
  <2> HIDE DEF T
  <2>1. QED BY <1>1, SmallestExists
<1>3. PICK x \in S : t = -x
  OBVIOUS
<1>4. ASSUME NEW y \in S PROVE x >= y
  <2>1. -y \in T /\ x \in Int /\ y \in Int
    OBVIOUS
  <2>2. -x <= -y
    BY <1>2, <1>3, <2>1
  <2> HIDE DEF T
  <2>3. QED BY <2>1, <2>2
<1>5. QED BY <1>4
(* A sum over the parts of a set, of which no two have a common element.     *)
LEMMA TotalOfParts ==
    ASSUME NEW D, IsFiniteSet(D), NEW G, IsFiniteSet(G), \A g \in G : g \subseteq D,
           \A g, h \in G : g # h => g \cap h = {},
           NEW f, \A x \in D : f[x] \in Int,
           NEW sum, \A g \in G : sum[g] = Total(f, g)
    PROVE  Total(sum, G) = Total(f, UNION G)
<1> DEFINE B == {V \in SUBSET G : Total(sum, V) # Total(f, UNION V)}
<1>1. SUFFICES ASSUME Total(sum, G) # Total(f, UNION G) PROVE FALSE
  OBVIOUS
<1>2. PICK M \in B : \A V \in B : V \subseteq M => V = M
  <2>1. G \in B /\ B \subseteq SUBSET G
    BY <1>1
  <2> HIDE DEF B
  <2>2. QED BY <2>1, SmallestSet
<1>3. M \subseteq G /\ Total(sum, M) # Total(f, UNION M) /\ IsFiniteSet(M)
  BY FS_Subset
<1>4. M # {}
  <2>1. UNION {} = {}
    OBVIOUS
  <2>2. QED BY <1>3, <2>1, TotalOfNone
<1> DEFINE g == Chosen(M)
<1>5. g \in M /\ Total(sum, M) = sum[g] + Total(sum, M \ {g})
  BY <1>3, <1>4, TotalOfSome
<1> HIDE DEF g
<1> DEFINE R == UNION (M \ {g})
<1>6. Total(sum, M \ {g}) = Total(f, R) /\ sum[g] = Total(f, g)
  BY <1>2, <1>3, <1>5
<1>7. UNION M = g \cup R /\ g \cap R = {} /\ g \subseteq D /\ R \subseteq D
  BY <1>3, <1>5
<1> HIDE DEF R
<1>8. IsFiniteSet(g) /\ IsFiniteSet(R) /\ \A x \in g \cup R : f[x] \in Int
  BY <1>7, FS_Subset
<1>9. Total(f, g \cup R) = Total(f, g) + Total(f, R)
  BY <1>7, <1>8, TotalOfUnion
<1>10. QED BY <1>3, <1>5, <1>6, <1>7, <1>9

(* A sum over the values of a function that has none of them twice.          *)
LEMMA TotalOfImage ==
    ASSUME NEW G, IsFiniteSet(G), NEW row, \A g, h \in G : row[g] = row[h] => g = h,
           NEW f, \A g \in G : f[row[g]] \in Int,
           NEW of, \A g \in G : of[g] = f[row[g]]
    PROVE  Total(f, {row[g] : g \in G}) = Total(of, G)
<1> DEFINE Rows(V) == {row[g] : g \in V}
           B == {V \in SUBSET G : Total(f, Rows(V)) # Total(of, V)}
<1>1. SUFFICES ASSUME Total(f, Rows(G)) # Total(of, G) PROVE FALSE
  OBVIOUS
<1>2. PICK M \in B : \A V \in B : V \subseteq M => V = M
  <2>1. G \in B /\ B \subseteq SUBSET G
    BY <1>1
  <2> HIDE DEF B
  <2>2. QED BY <2>1, SmallestSet
<1>3. M \subseteq G /\ Total(f, Rows(M)) # Total(of, M) /\ IsFiniteSet(M)
  BY FS_Subset
<1>4. M # {}
  <2>1. Rows({}) = {}
    OBVIOUS
  <2> HIDE DEF Rows
  <2>2. QED BY <1>3, <2>1, TotalOfNone
<1> DEFINE g == Chosen(M)
<1>5. g \in M /\ Total(of, M) = of[g] + Total(of, M \ {g})
  BY <1>3, <1>4, TotalOfSome
<1> HIDE DEF g
<1>6. Total(f, Rows(M \ {g})) = Total(of, M \ {g}) /\ of[g] = f[row[g]]
  BY <1>2, <1>3, <1>5
<1>7. Rows(M) \ {row[g]} = Rows(M \ {g}) /\ row[g] \in Rows(M)
  BY <1>3, <1>5
<1>8. IsFiniteSet(Rows(M))
  <2> DEFINE image == [h \in M |-> row[h]]
  <2>1. DOMAIN image = M /\ Rows(M) = {image[h] : h \in M}
    OBVIOUS
  <2> HIDE DEF image
  <2>2. QED BY <1>3, <2>1, ImageIsFinite
<1>9. \A t \in Rows(M) : f[t] \in Int
  BY <1>3
<1> HIDE DEF Rows
<1>10. Total(f, Rows(M)) = f[row[g]] + Total(f, Rows(M) \ {row[g]})
  BY <1>7, <1>8, <1>9, TotalWithout
<1>11. QED BY <1>3, <1>5, <1>6, <1>7, <1>10
=============================================================================
