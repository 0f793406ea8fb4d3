------------------------------ MODULE FiniteSums ------------------------------
(***************************************************************************)
(* Lemmas about sums over finite sets, which the community modules define  *)
(* by folding.  Induction over the subsets of a set is an argument about   *)
(* the smallest set that fails, so that no operator is a parameter.        *)
(***************************************************************************)
EXTENDS Integers, Folds, Functions, FiniteSetTheorems, WellFoundedInduction, TLAPS

\* The element that a sum takes next.
Pick(s) == CHOOSE x \in s : TRUE

\* g is the table of partial sums of f over the subsets of S.
Sums(g, f, S) ==
  g = [s \in SUBSET S |-> IF s = {} THEN 0 ELSE f[Pick(s)] + g[s \ {Pick(s)}]]

\* Among subsets of a finite set there is no infinite descent.
LEMMA SubsetsWellFounded ==
  ASSUME NEW S, IsFiniteSet(S)
  PROVE IsWellFoundedOn(StrictSubsetOrdering(S), SUBSET S)
BY FS_FiniteSubsetsOfFinite, FS_StrictSubsetOrderingWellFounded

\* Induction on the subsets of a finite set: C holds every subset whose proper
\* subsets it holds.
LEMMA SetInduction ==
  ASSUME NEW S, IsFiniteSet(S), NEW C,
         \A T \in SUBSET S : (\A U \in SUBSET T : U # T => U \in C) => T \in C
  PROVE S \in C
<1> DEFINE Bad == {T \in SUBSET S : T \notin C}
<1> SUFFICES ASSUME Bad # {} PROVE FALSE
  OBVIOUS
<1>1. IsWellFoundedOn(StrictSubsetOrdering(S), SUBSET S)
  BY SubsetsWellFounded
<1> HIDE DEF Bad
<1>2. Bad \subseteq SUBSET S
  BY DEF Bad
<1>3. PICK T \in Bad : \A U \in Bad : ~ << U, T >> \in StrictSubsetOrdering(S)
  BY <1>1, <1>2, WFMin
<1>4. ASSUME NEW U \in SUBSET T, U # T
      PROVE  U \in C
  <2>1. << U, T >> \in StrictSubsetOrdering(S)
    BY <1>2, <1>4 DEF StrictSubsetOrdering
  <2>2. U \notin Bad
    BY <1>3, <2>1
  <2> QED BY <1>2, <1>4, <2>2 DEF Bad
<1> QED BY <1>2, <1>3, <1>4 DEF Bad

\* The next element of a sum is one of its elements.
LEMMA PickIn == ASSUME NEW s, s # {} PROVE Pick(s) \in s
BY DEF Pick

\* What a table says of one subset.
LEMMA TableValue ==
  ASSUME NEW f, NEW g, NEW S, Sums(g, f, S), NEW s \in SUBSET S
  PROVE g[s] = IF s = {} THEN 0 ELSE f[Pick(s)] + g[s \ {Pick(s)}]
BY DEF Sums

\* Two tables agree where both have a value.
LEMMA TablesAgree ==
  ASSUME NEW f, NEW g, NEW h, NEW T, NEW U, Sums(g, f, T), Sums(h, f, U),
         NEW S, S \subseteq T, S \subseteq U, IsFiniteSet(S)
  PROVE g[S] = h[S]
<1> DEFINE C == {s \in SUBSET S : g[s] = h[s]}
<1>1. ASSUME NEW s \in SUBSET S, \A u \in SUBSET s : u # s => u \in C
      PROVE  s \in C
  <2>1. g[s] = IF s = {} THEN 0 ELSE f[Pick(s)] + g[s \ {Pick(s)}]
    BY TableValue
  <2>2. h[s] = IF s = {} THEN 0 ELSE f[Pick(s)] + h[s \ {Pick(s)}]
    BY TableValue
  <2>3. s # {} => s \ {Pick(s)} \in C
    BY <1>1, PickIn
  <2> QED BY <2>1, <2>2, <2>3
<1> HIDE DEF C
<1>2. S \in C
  BY <1>1, SetInduction
<1> QED BY <1>2 DEF C

\* The table that the sum is defined by.
Table(f, S) == CHOOSE g : Sums(g, f, S)

\* There is a table for every finite set.
LEMMA TableExists ==
  ASSUME NEW f, NEW S, IsFiniteSet(S)
  PROVE Sums(Table(f, S), f, S)
<1> DEFINE C == {T \in SUBSET S : \E g : Sums(g, f, T)}
<1>1. ASSUME NEW T \in SUBSET S, \A U \in SUBSET T : U # T => U \in C
      PROVE  T \in C
  <2> DEFINE Val(u) == Table(f, u)[u]
             G == [s \in SUBSET T |-> IF s = {} THEN 0 ELSE f[Pick(s)] + Val(s \ {Pick(s)})]
  <2>1. \A u \in SUBSET T : u # T => Sums(Table(f, u), f, u)
    BY <1>1 DEF Table
  <2>2. ASSUME NEW u \in SUBSET T, u # T
        PROVE  Val(u) = G[u]
    <3>1. Val(u) = IF u = {} THEN 0 ELSE f[Pick(u)] + Table(f, u)[u \ {Pick(u)}]
      BY <2>1, <2>2, TableValue
    <3>2. ASSUME u # {}
          PROVE  Table(f, u)[u \ {Pick(u)}] = Val(u \ {Pick(u)})
      <4> DEFINE v == u \ {Pick(u)}
      <4>1. v \in SUBSET T /\ v # T /\ v \subseteq u
        BY <2>2
      <4>2. IsFiniteSet(v)
        BY <4>1, FS_Subset
      <4>3. Sums(Table(f, u), f, u) /\ Sums(Table(f, v), f, v)
        BY <2>1, <2>2, <4>1
      <4> HIDE DEF v
      <4>4. Table(f, u)[v] = Table(f, v)[v]
        BY <4>1, <4>2, <4>3, TablesAgree
      <4> QED BY <4>4 DEF v
    <3>3. G[u] = IF u = {} THEN 0 ELSE f[Pick(u)] + Val(u \ {Pick(u)})
      OBVIOUS
    <3> HIDE DEF Val, G
    <3> QED BY <3>1, <3>2, <3>3
  <2>3. ASSUME NEW s \in SUBSET T, s # {}
        PROVE  Val(s \ {Pick(s)}) = G[s \ {Pick(s)}]
    <3>1. s \ {Pick(s)} \in SUBSET T /\ s \ {Pick(s)} # T
      BY <2>3, PickIn
    <3> HIDE DEF Val, G
    <3> QED BY <3>1, <2>2
  <2>4. G = [s \in SUBSET T |-> IF s = {} THEN 0 ELSE f[Pick(s)] + G[s \ {Pick(s)}]]
    <3> DEFINE H == [s \in SUBSET T |-> IF s = {} THEN 0 ELSE f[Pick(s)] + G[s \ {Pick(s)}]]
    <3>1. \A s \in SUBSET T : G[s] = IF s = {} THEN 0 ELSE f[Pick(s)] + Val(s \ {Pick(s)})
      OBVIOUS
    <3>2. \A s \in SUBSET T : H[s] = IF s = {} THEN 0 ELSE f[Pick(s)] + G[s \ {Pick(s)}]
      OBVIOUS
    <3>3. G = [s \in SUBSET T |-> G[s]] /\ H = [s \in SUBSET T |-> H[s]]
      OBVIOUS
    <3> HIDE DEF Val, G
    <3>4. \A s \in SUBSET T : G[s] = H[s]
      <4> HIDE DEF H
      <4> QED BY <2>3, <3>1, <3>2
    <3> HIDE DEF H
    <3>5. G = H
      BY <3>3, <3>4
    <3> QED BY <3>5 DEF H
  <2>5. Sums(G, f, T)
    <3> HIDE DEF G
    <3> QED BY <2>4 DEF Sums
  <2> QED BY <2>5
<1> HIDE DEF C
<1>2. S \in C
  BY <1>1, SetInduction
<1> QED BY <1>2 DEF C, Table

\* The sum of f over S.
Sum(f, S) == SumFunctionOnSet(f, S)

\* The sum is the last value of its table.
LEMMA SumIsTable ==
  ASSUME NEW f, NEW S
  PROVE Sum(f, S) = Table(f, S)[S]
BY DEF Sum, SumFunctionOnSet, FoldFunctionOnSet, MapThenFoldSet, Table, Sums, Pick

\* A sum is its next element and the sum of the rest.
LEMMA SumPick ==
  ASSUME NEW f, NEW S, IsFiniteSet(S)
  PROVE Sum(f, S) = IF S = {} THEN 0 ELSE f[Pick(S)] + Sum(f, S \ {Pick(S)})
<1> DEFINE R == S \ {Pick(S)}
<1>1. Sums(Table(f, S), f, S)
  BY TableExists
<1>2. IsFiniteSet(R) /\ R \subseteq S
  BY FS_Subset
<1> HIDE DEF R
<1>3. Sums(Table(f, R), f, R)
  BY <1>2, TableExists
<1>4. Table(f, S)[R] = Table(f, R)[R]
  BY <1>1, <1>2, <1>3, TablesAgree
<1>5. Table(f, S)[S] = IF S = {} THEN 0 ELSE f[Pick(S)] + Table(f, S)[S \ {Pick(S)}]
  BY <1>1, TableValue
<1> QED BY <1>4, <1>5, SumIsTable DEF R

\* A sum of numbers is a number.
LEMMA SumIsNat ==
  ASSUME NEW R, NEW f \in [R -> Nat], NEW S \in SUBSET R, IsFiniteSet(S)
  PROVE  Sum(f, S) \in Nat
<1> DEFINE C == {T \in SUBSET S : Sum(f, T) \in Nat}
<1>1. ASSUME NEW T \in SUBSET S, \A U \in SUBSET T : U # T => U \in C
      PROVE  T \in C
  <2>1. Sum(f, T) = IF T = {} THEN 0 ELSE f[Pick(T)] + Sum(f, T \ {Pick(T)})
    BY SumPick, FS_Subset
  <2>2. T # {} => f[Pick(T)] \in Nat /\ T \ {Pick(T)} \in C
    BY <1>1, PickIn
  <2> QED BY <2>1, <2>2
<1> HIDE DEF C
<1>2. S \in C
  BY <1>1, SetInduction
<1> QED BY <1>2 DEF C

\* Any element may be taken first.
LEMMA SumAny ==
  ASSUME NEW R, NEW f \in [R -> Nat], NEW S \in SUBSET R, IsFiniteSet(S), NEW x \in S
  PROVE  Sum(f, S) = f[x] + Sum(f, S \ {x})
<1> DEFINE C == {T \in SUBSET S : \A y \in T : Sum(f, T) = f[y] + Sum(f, T \ {y})}
<1>1. ASSUME NEW T \in SUBSET S, \A U \in SUBSET T : U # T => U \in C, NEW y \in T
      PROVE  Sum(f, T) = f[y] + Sum(f, T \ {y})
  <2> DEFINE z == Pick(T)
  <2>1. z \in T
    BY PickIn
  <2>2. Sum(f, T) = f[z] + Sum(f, T \ {z})
    BY SumPick, FS_Subset, <2>1
  <2> HIDE DEF z
  <2>3. CASE y = z
    BY <2>2, <2>3
  <2>4. CASE y # z
    <3>1. T \ {z} \in C /\ T \ {y} \in C
      BY <1>1, <2>1
    <3>2. Sum(f, T \ {z}) = f[y] + Sum(f, (T \ {z}) \ {y})
      BY <3>1, <2>4
    <3>3. Sum(f, T \ {y}) = f[z] + Sum(f, (T \ {y}) \ {z})
      BY <3>1, <2>1, <2>4
    <3>4. (T \ {z}) \ {y} = (T \ {y}) \ {z}
      OBVIOUS
    <3>5. Sum(f, (T \ {y}) \ {z}) \in Nat
      BY SumIsNat, FS_Subset
    <3>6. f[y] \in Nat /\ f[z] \in Nat
      BY <2>1
    <3> DEFINE rest == Sum(f, (T \ {y}) \ {z})
    <3>7. Sum(f, T) = f[z] + (f[y] + rest)
      BY <2>2, <3>2, <3>4
    <3>8. Sum(f, T \ {y}) = f[z] + rest
      BY <3>3
    <3>9. rest \in Nat
      BY <3>5
    <3> HIDE DEF rest
    <3>10. f[z] + (f[y] + rest) = f[y] + (f[z] + rest)
      BY <3>6, <3>9
    <3> QED BY <3>7, <3>8, <3>10
  <2> QED BY <2>3, <2>4
<1> HIDE DEF C
<1>2. \A T \in SUBSET S : (\A U \in SUBSET T : U # T => U \in C) => T \in C
  BY <1>1 DEF C
<1>3. S \in C
  BY <1>2, SetInduction
<1> QED BY <1>3 DEF C

\* Part of a sum is no more than the whole.
LEMMA SumOfSubset ==
  ASSUME NEW R, NEW f \in [R -> Nat], NEW S \in SUBSET R, IsFiniteSet(S), NEW A \in SUBSET S
  PROVE  Sum(f, A) <= Sum(f, S)
<1> DEFINE C == {T \in SUBSET S : A \subseteq T => Sum(f, A) <= Sum(f, T)}
<1>1. ASSUME NEW T \in SUBSET S, \A U \in SUBSET T : U # T => U \in C, A \subseteq T
      PROVE  Sum(f, A) <= Sum(f, T)
  <2>1. CASE A = T
    BY <2>1, SumIsNat, FS_Subset
  <2>2. CASE A # T
    <3>1. PICK x \in T : x \notin A
      BY <1>1, <2>2
    <3>2. T \ {x} \in C
      BY <1>1, <3>1
    <3>3. Sum(f, A) <= Sum(f, T \ {x})
      BY <1>1, <3>1, <3>2
    <3>4. Sum(f, T) = f[x] + Sum(f, T \ {x})
      BY SumAny, FS_Subset
    <3>5. Sum(f, A) \in Nat /\ Sum(f, T \ {x}) \in Nat /\ f[x] \in Nat
      BY SumIsNat, FS_Subset
    <3> QED BY <3>3, <3>4, <3>5
  <2> QED BY <2>1, <2>2
<1> HIDE DEF C
<1>2. \A T \in SUBSET S : (\A U \in SUBSET T : U # T => U \in C) => T \in C
  BY <1>1 DEF C
<1>3. S \in C
  BY <1>2, SetInduction
<1> QED BY <1>3 DEF C

\* A term is no more than the sum.
LEMMA TermOfSum ==
  ASSUME NEW R, NEW f \in [R -> Nat], NEW S \in SUBSET R, IsFiniteSet(S), NEW x \in S
  PROVE  f[x] <= Sum(f, S)
<1>1. Sum(f, S) = f[x] + Sum(f, S \ {x})
  BY SumAny
<1>2. Sum(f, S \ {x}) \in Nat
  BY SumIsNat, FS_Subset
<1> QED BY <1>1, <1>2

\* The sum depends only on the values it adds up.
LEMMA SumSame ==
  ASSUME NEW f, NEW g, NEW S, IsFiniteSet(S), \A x \in S : f[x] = g[x]
  PROVE  Sum(f, S) = Sum(g, S)
<1> DEFINE C == {T \in SUBSET S : Sum(f, T) = Sum(g, T)}
<1>1. ASSUME NEW T \in SUBSET S, \A U \in SUBSET T : U # T => U \in C
      PROVE  T \in C
  <2>1. Sum(f, T) = IF T = {} THEN 0 ELSE f[Pick(T)] + Sum(f, T \ {Pick(T)})
    BY SumPick, FS_Subset
  <2>2. Sum(g, T) = IF T = {} THEN 0 ELSE g[Pick(T)] + Sum(g, T \ {Pick(T)})
    BY SumPick, FS_Subset
  <2>3. T # {} => f[Pick(T)] = g[Pick(T)] /\ T \ {Pick(T)} \in C
    BY <1>1, PickIn
  <2> QED BY <2>1, <2>2, <2>3
<1> HIDE DEF C
<1>2. S \in C
  BY <1>1, SetInduction
<1> QED BY <1>2 DEF C

\* One more in a term is one more in the sum.
LEMMA SumOfOneMore ==
  ASSUME NEW S, IsFiniteSet(S), NEW f \in [S -> Nat], NEW g \in [S -> Nat], NEW x \in S,
         g[x] = f[x] + 1, \A y \in S \ {x} : g[y] = f[y]
  PROVE  Sum(g, S) = Sum(f, S) + 1
<1>1. Sum(g, S) = g[x] + Sum(g, S \ {x}) /\ Sum(f, S) = f[x] + Sum(f, S \ {x})
  BY SumAny
<1>2. IsFiniteSet(S \ {x})
  BY FS_Subset
<1>3. Sum(g, S \ {x}) = Sum(f, S \ {x})
  BY <1>2, SumSame
<1>4. Sum(f, S \ {x}) \in Nat
  BY <1>2, SumIsNat
<1> QED BY <1>1, <1>3, <1>4

\* Two terms are no more than the sum.
LEMMA TwoTermsOfSum ==
  ASSUME NEW R, NEW f \in [R -> Nat], NEW S \in SUBSET R, IsFiniteSet(S),
         NEW x \in S, NEW y \in S \ {x}
  PROVE  f[x] + f[y] <= Sum(f, S)
<1>1. Sum(f, S) = f[x] + Sum(f, S \ {x})
  BY SumAny
<1>2. IsFiniteSet(S \ {x})
  BY FS_Subset
<1>3. f[y] <= Sum(f, S \ {x}) /\ Sum(f, S \ {x}) \in Nat
  BY <1>2, TermOfSum, SumIsNat
<1> QED BY <1>1, <1>3

\* A sum is no more than a bound of its terms, for every element.
LEMMA SumAtMost ==
  ASSUME NEW R, NEW f \in [R -> Nat], NEW S \in SUBSET R, IsFiniteSet(S),
         NEW c \in Nat, \A x \in S : f[x] <= c
  PROVE  Sum(f, S) <= c * Cardinality(S)
<1> DEFINE C == {T \in SUBSET S : Sum(f, T) <= c * Cardinality(T)}
<1>1. ASSUME NEW T \in SUBSET S, \A U \in SUBSET T : U # T => U \in C
      PROVE  Sum(f, T) <= c * Cardinality(T)
  <2>1. CASE T = {}
    <3>1. Sum(f, T) = 0
      BY <2>1, SumPick, FS_EmptySet
    <3>2. Cardinality(T) = 0
      BY <2>1, FS_EmptySet
    <3> QED BY <3>1, <3>2
  <2>2. CASE T # {}
    <3> DEFINE x == Pick(T)  U == T \ {x}
    <3>1. x \in T
      BY <2>2, PickIn
    <3>2. IsFiniteSet(T) /\ IsFiniteSet(U)
      BY FS_Subset
    <3>3. U \in SUBSET S /\ U \in SUBSET T /\ U # T
      BY <3>1
    <3>4. Sum(f, T) = f[x] + Sum(f, U)
      BY <3>2, <2>2, SumPick
    <3>5. Cardinality(T) = Cardinality(U) + 1
      <4>1. T = U \cup {x} /\ x \notin U
        BY <3>1
      <4> HIDE DEF U, x
      <4> QED BY <4>1, <3>2, FS_AddElement
    <3> HIDE DEF x, U
    <3>6. Sum(f, U) <= c * Cardinality(U)
      BY <1>1, <3>3
    <3>7. Cardinality(U) \in Nat /\ Sum(f, U) \in Nat /\ f[x] \in Nat /\ f[x] <= c
      BY <3>1, <3>2, <3>3, SumIsNat, FS_CardinalityType
    <3>8. c * (Cardinality(U) + 1) = c * Cardinality(U) + c
      BY <3>7
    <3>9. c * Cardinality(U) \in Nat
      BY <3>7
    <3> QED BY <3>4, <3>5, <3>6, <3>7, <3>8, <3>9
  <2> QED BY <2>1, <2>2
<1> HIDE DEF C
<1>2. \A T \in SUBSET S : (\A U \in SUBSET T : U # T => U \in C) => T \in C
  BY <1>1 DEF C
<1>3. S \in C
  BY <1>2, SetInduction
<1> QED BY <1>3 DEF C

\* When every term of f is within a term of g of its own, up to the factors c
\* and d, so is the sum.
LEMMA SumInjected ==
  ASSUME NEW Q, NEW f \in [Q -> Nat], NEW S \in SUBSET Q, IsFiniteSet(S),
         NEW R, NEW g \in [R -> Nat], IsFiniteSet(R),
         NEW h \in [S -> R], \A x, y \in S : h[x] = h[y] => x = y,
         NEW c \in Nat, NEW d \in Nat, \A x \in S : c * f[x] <= d * g[h[x]]
  PROVE  c * Sum(f, S) <= d * Sum(g, R)
<1> DEFINE Img(T) == {h[x] : x \in T}
           C == {T \in SUBSET S : c * Sum(f, T) <= d * Sum(g, Img(T))}
<1>1. ASSUME NEW T \in SUBSET S, \A U \in SUBSET T : U # T => U \in C
      PROVE  c * Sum(f, T) <= d * Sum(g, Img(T))
  <2>1. CASE T = {}
    <3>1. Sum(f, T) = 0
      BY <2>1, SumPick, FS_EmptySet
    <3>2. Img(T) = {}
      BY <2>1
    <3>3. Sum(g, Img(T)) = 0
      BY <3>2, SumPick, FS_EmptySet
    <3> QED BY <3>1, <3>3
  <2>2. CASE T # {}
    <3> DEFINE x == Pick(T)  U == T \ {x}
    <3>1. x \in T
      BY <2>2, PickIn
    <3>2. IsFiniteSet(T) /\ IsFiniteSet(U)
      BY FS_Subset
    <3>3. U \in SUBSET S /\ U \in SUBSET T /\ U # T
      BY <3>1
    <3>4. Sum(f, T) = f[x] + Sum(f, U)
      BY <3>2, <2>2, SumPick
    <3>5. Img(T) \in SUBSET R /\ h[x] \in Img(T) /\ Img(U) = Img(T) \ {h[x]}
      BY <3>1
    <3> HIDE DEF x, U
    <3>6. c * Sum(f, U) <= d * Sum(g, Img(U))
      BY <1>1, <3>3
    <3> HIDE DEF Img
    <3>7. Sum(g, Img(T)) = g[h[x]] + Sum(g, Img(U))
      BY <3>5, SumAny, FS_Subset
    <3>8. Sum(f, U) \in Nat
      BY <3>2, <3>3, SumIsNat
    <3>9. Sum(g, Img(U)) \in Nat
      BY <3>5, FS_Subset, SumIsNat
    <3>10. f[x] \in Nat /\ g[h[x]] \in Nat /\ c * f[x] <= d * g[h[x]]
      BY <3>1
    <3> DEFINE F == Sum(f, U)  G == Sum(g, Img(U))  a == f[x]  b == g[h[x]]
    <3>11. F \in Nat /\ G \in Nat /\ a \in Nat /\ b \in Nat
      BY <3>8, <3>9, <3>10
    <3>12. c * F <= d * G /\ c * a <= d * b
      BY <3>6, <3>10
    <3> HIDE DEF F, G, a, b
    <3>13. c * (a + F) = c * a + c * F /\ d * (b + G) = d * b + d * G
      BY <3>11
    <3>14. c * a \in Nat /\ c * F \in Nat /\ d * b \in Nat /\ d * G \in Nat
      BY <3>11
    <3>15. c * (a + F) <= d * (b + G)
      BY <3>12, <3>13, <3>14
    <3> QED BY <3>4, <3>7, <3>15 DEF F, G, a, b
  <2> QED BY <2>1, <2>2
<1> HIDE DEF C
<1>2. \A T \in SUBSET S : (\A U \in SUBSET T : U # T => U \in C) => T \in C
  BY <1>1 DEF C
<1>3. S \in C
  BY <1>2, SetInduction
<1>4. c * Sum(f, S) <= d * Sum(g, Img(S))
  BY <1>3 DEF C
<1>5. Img(S) \in SUBSET R /\ IsFiniteSet(Img(S))
  BY FS_Subset
<1> HIDE DEF Img
<1>6. Sum(g, Img(S)) <= Sum(g, R)
  BY <1>5, SumOfSubset
<1>7. Sum(f, S) \in Nat /\ Sum(g, Img(S)) \in Nat /\ Sum(g, R) \in Nat
  BY <1>5, SumIsNat
<1>8. d * Sum(g, Img(S)) <= d * Sum(g, R)
  BY <1>6, <1>7
<1>9. c * Sum(f, S) \in Nat /\ d * Sum(g, Img(S)) \in Nat /\ d * Sum(g, R) \in Nat
  BY <1>7
<1> QED BY <1>4, <1>8, <1>9

=============================================================================
