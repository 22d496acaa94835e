-------------------------------- MODULE Sums --------------------------------
(***************************************************************************)
(* What SumFunctionOnSet computes for every finite set of indices.         *)
(*                                                                         *)
(* The sum is a fold, a recursive function on the subsets of the set.  It  *)
(* is shown to be the number of points under the graph of the function, by *)
(* induction along the strict subsets; the laws of sums are then laws of   *)
(* cardinalities.                                                          *)
(***************************************************************************)
EXTENDS Functions, FiniteSetTheorems, TLAPS

\* The points under f over S: the unit cells of its bar chart.
Column(f, i) == {i} \X (1..f[i])
Cells(f, S) == UNION {Column(f, i) : i \in S}

LEMMA ColumnCount == ASSUME NEW f, NEW i, f[i] \in Nat
                     PROVE  IsFiniteSet(Column(f, i)) /\ Cardinality(Column(f, i)) = f[i]
<1>1. /\ IsFiniteSet({i}) /\ Cardinality({i}) = 1
  BY FS_Singleton
<1>2. IsFiniteSet(1..f[i]) /\ Cardinality(1..f[i]) = f[i]
  <2> DEFINE n == f[i]
  <2>1. n \in Nat /\ 1 \in Int /\ n \in Int
    OBVIOUS
  <2> HIDE DEF n
  <2>2. /\ IsFiniteSet(1..n)
        /\ Cardinality(1..n) = IF 1 > n THEN 0 ELSE n - 1 + 1
    BY <2>1, FS_Interval
  <2>3. Cardinality(1..n) = n
    BY <2>1, <2>2
  <2> QED
    BY <2>2, <2>3 DEF n
<1>3. Cardinality(Column(f, i)) = 1 * f[i] /\ IsFiniteSet(Column(f, i))
  BY <1>1, <1>2, FS_Product DEF Column
<1> QED
  BY <1>3

LEMMA CellsAdd == ASSUME NEW f, NEW S, NEW x, x \notin S, f[x] \in Nat, IsFiniteSet(Cells(f, S))
                  PROVE  /\ IsFiniteSet(Cells(f, S \cup {x}))
                         /\ Cardinality(Cells(f, S \cup {x})) = Cardinality(Cells(f, S)) + f[x]
<1>1. Cells(f, S \cup {x}) = Cells(f, S) \cup Column(f, x)
  BY DEF Cells
<1>2. Cells(f, S) \cap Column(f, x) = {}
  BY DEF Cells, Column
<1>3. Cardinality({}) = 0 /\ Cardinality(Cells(f, S)) \in Nat
  BY FS_EmptySet, FS_CardinalityType
<1>4. IsFiniteSet(Column(f, x)) /\ Cardinality(Column(f, x)) = f[x]
  BY ColumnCount
<1>5. /\ IsFiniteSet(Cells(f, S) \cup Column(f, x))
      /\ Cardinality(Cells(f, S) \cup Column(f, x)) =
           Cardinality(Cells(f, S)) + Cardinality(Column(f, x))
             - Cardinality(Cells(f, S) \cap Column(f, x))
  BY <1>4, FS_Union
<1> DEFINE n == Cardinality(Cells(f, S))
           m == f[x]
<1>6. n \in Nat /\ m \in Nat /\ Cardinality(Cells(f, S) \cup Column(f, x)) = n + m - 0
  BY <1>2, <1>3, <1>4, <1>5
<1> HIDE DEF n, m
<1>7. Cardinality(Cells(f, S) \cup Column(f, x)) = n + m
  BY <1>6
<1> QED
  BY <1>1, <1>5, <1>7 DEF n, m

\* The recursion of SumFunctionOnSet, on the subsets of S.
Pick(s) == CHOOSE x \in s : TRUE
IsSum(g, f, S) == g = [s \in SUBSET S |-> IF s = {} THEN 0 ELSE f[Pick(s)] + g[s \ {Pick(s)}]]
Count(f, S) == [s \in SUBSET S |-> Cardinality(Cells(f, s))]

LEMMA CellsFinite == ASSUME NEW f, NEW S, IsFiniteSet(S), \A i \in S : f[i] \in Nat
                     PROVE  IsFiniteSet(Cells(f, S)) /\ Cardinality(Cells(f, S)) \in Nat
<1>1. IsFiniteSet({Column(f, i) : i \in S})
  <2> DEFINE g == [i \in S |-> Column(f, i)]
  <2>1. g \in Surjection(S, {Column(f, i) : i \in S})
    BY DEF Surjection
  <2> QED
    BY <2>1, FS_Surjection
<1>2. \A T \in {Column(f, i) : i \in S} : IsFiniteSet(T)
  BY ColumnCount
<1> QED
  BY <1>1, <1>2, FS_UNION, FS_CardinalityType DEF Cells

\* The cells satisfy the recursion, and nothing else does.
LEMMA CountIsSum == ASSUME NEW f, NEW S, IsFiniteSet(S), \A i \in S : f[i] \in Nat
                    PROVE  IsSum(Count(f, S), f, S)
<1>1. ASSUME NEW s \in SUBSET S
      PROVE  Count(f, S)[s] = IF s = {} THEN 0 ELSE f[Pick(s)] + Count(f, S)[s \ {Pick(s)}]
  <2>1. CASE s = {}
    <3>1. Cells(f, {}) = {}
      BY DEF Cells
    <3> QED
      BY <3>1, <2>1, FS_EmptySet DEF Count
  <2>2. CASE s # {}
    <3> DEFINE x == Pick(s)
               t == s \ {x}
    <3>1. x \in s
      BY <2>2 DEF Pick
    <3> HIDE DEF x
    <3>2. /\ t \in SUBSET S /\ IsFiniteSet(t) /\ f[x] \in Nat
          /\ t \cup {x} = s /\ x \notin t /\ \A i \in t : f[i] \in Nat
      BY <3>1, FS_Subset
    <3> HIDE DEF t
    <3>3. IsFiniteSet(Cells(f, t)) /\ Cardinality(Cells(f, t)) \in Nat
      BY <3>2, CellsFinite
    <3>4. Cardinality(Cells(f, s)) = Cardinality(Cells(f, t)) + f[x]
      BY <3>2, <3>3, CellsAdd
    <3>5. Cardinality(Cells(f, s)) = f[x] + Cardinality(Cells(f, t))
      BY <3>2, <3>3, <3>4
    <3> QED
      BY <3>2, <3>5, <2>2 DEF Count, x, t
  <2> QED
    BY <2>1, <2>2
<1> DEFINE g == Count(f, S)
<1>2. g = [s \in SUBSET S |-> g[s]]
  BY DEF Count
<1> HIDE DEF g
<1>3. g = [s \in SUBSET S |-> IF s = {} THEN 0 ELSE f[Pick(s)] + g[s \ {Pick(s)}]]
  BY <1>1, <1>2 DEF g
<1> QED
  BY <1>3 DEF IsSum, g

LEMMA SumUnique == ASSUME NEW f, NEW S, IsFiniteSet(S), NEW g, NEW h,
                          IsSum(g, f, S), IsSum(h, f, S)
                   PROVE  g = h
<1> DEFINE Differ == {s \in SUBSET S : g[s] # h[s]}
<1>1. Differ = {}
  <2> SUFFICES ASSUME Differ # {} PROVE FALSE
    OBVIOUS
  <2>1. IsWellFoundedOn(StrictSubsetOrdering(S), SUBSET S)
    BY FS_StrictSubsetOrderingWellFounded, FS_FiniteSubsetsOfFinite
  <2>2. PICK s \in Differ : \A t \in Differ : ~(<<t, s>> \in StrictSubsetOrdering(S))
    BY <2>1, WFMin
  <2>3. s # {}
    BY DEF IsSum
  <2> DEFINE x == Pick(s)
             t == s \ {x}
  <2>4. x \in s
    BY <2>3 DEF Pick
  <2>5. g[s] = f[x] + g[t] /\ h[s] = f[x] + h[t]
    BY <2>3 DEF IsSum
  <2> HIDE DEF x
  <2>6. t \in SUBSET S /\ t \subseteq s /\ t # s
    BY <2>4
  <2> HIDE DEF t
  <2>7. <<t, s>> \in StrictSubsetOrdering(S)
    BY <2>6 DEF StrictSubsetOrdering
  <2>8. g[t] = h[t]
    BY <2>2, <2>6, <2>7
  <2> QED
    BY <2>2, <2>5, <2>8
<1>2. g = [s \in SUBSET S |-> g[s]] /\ h = [s \in SUBSET S |-> h[s]]
  BY DEF IsSum
<1> QED
  BY <1>1, <1>2

\* SumFunctionOnSet counts the cells.
LEMMA SumIsCount == ASSUME NEW f, NEW S, IsFiniteSet(S), \A i \in S : f[i] \in Nat
                    PROVE  SumFunctionOnSet(f, S) = Cardinality(Cells(f, S))
<1> DEFINE g == CHOOSE g : IsSum(g, f, S)
<1>1. IsSum(g, f, S)
  BY CountIsSum
<1>2. g = Count(f, S)
  BY <1>1, CountIsSum, SumUnique
<1>3. SumFunctionOnSet(f, S) = g[S]
  BY DEF SumFunctionOnSet, FoldFunctionOnSet, MapThenFoldSet, IsSum, Pick
<1> QED
  BY <1>2, <1>3 DEF Count

-----------------------------------------------------------------------------
(* The laws of sums.                                                       *)

LEMMA SumEmpty == ASSUME NEW f PROVE SumFunctionOnSet(f, {}) = 0
<1>1. Cells(f, {}) = {}
  BY DEF Cells
<1> QED
  BY <1>1, SumIsCount, FS_EmptySet

LEMMA SumType == ASSUME NEW f, NEW S, IsFiniteSet(S), \A i \in S : f[i] \in Nat
                 PROVE  SumFunctionOnSet(f, S) \in Nat
BY SumIsCount, CellsFinite

\* Only the values on the set count.
LEMMA SumSame == ASSUME NEW f, NEW g, NEW S, IsFiniteSet(S),
                        \A i \in S : f[i] \in Nat /\ g[i] = f[i]
                 PROVE  SumFunctionOnSet(f, S) = SumFunctionOnSet(g, S)
<1>1. Cells(f, S) = Cells(g, S)
  BY DEF Cells, Column
<1>2. \A i \in S : f[i] \in Nat /\ g[i] \in Nat
  OBVIOUS
<1>3. SumFunctionOnSet(f, S) = Cardinality(Cells(f, S))
  BY <1>2, SumIsCount
<1>4. SumFunctionOnSet(g, S) = Cardinality(Cells(g, S))
  BY <1>2, SumIsCount
<1> QED
  BY <1>1, <1>3, <1>4

LEMMA SumAdd == ASSUME NEW f, NEW S, NEW x, IsFiniteSet(S), x \notin S,
                       \A i \in S \cup {x} : f[i] \in Nat
                PROVE  SumFunctionOnSet(f, S \cup {x}) = SumFunctionOnSet(f, S) + f[x]
<1>1. IsFiniteSet(S \cup {x})
  BY FS_AddElement
<1>2. SumFunctionOnSet(f, S \cup {x}) = Cardinality(Cells(f, S \cup {x}))
  BY <1>1, SumIsCount
<1>3. SumFunctionOnSet(f, S) = Cardinality(Cells(f, S))
  BY SumIsCount
<1> QED
  BY <1>2, <1>3, CellsFinite, CellsAdd

LEMMA SumRemove == ASSUME NEW f, NEW S, NEW x \in S, IsFiniteSet(S),
                          \A i \in S : f[i] \in Nat
                   PROVE  /\ SumFunctionOnSet(f, S \ {x}) = SumFunctionOnSet(f, S) - f[x]
                          /\ f[x] <= SumFunctionOnSet(f, S)
<1> DEFINE T == S \ {x}
<1>1. IsFiniteSet(T) /\ x \notin T /\ T \cup {x} = S /\ \A i \in T \cup {x} : f[i] \in Nat
  BY FS_Subset
<1> HIDE DEF T
<1>2. SumFunctionOnSet(f, S) = SumFunctionOnSet(f, T) + f[x] /\ SumFunctionOnSet(f, T) \in Nat
  BY <1>1, SumAdd, SumType
<1>3. f[x] \in Nat
  OBVIOUS
<1>4. SumFunctionOnSet(f, T) = SumFunctionOnSet(f, S) - f[x] /\ f[x] <= SumFunctionOnSet(f, S)
  BY <1>2, <1>3
<1> QED
  BY <1>4 DEF T

LEMMA SumSplit == ASSUME NEW f, NEW S, NEW T, IsFiniteSet(S), IsFiniteSet(T), S \cap T = {},
                         \A i \in S \cup T : f[i] \in Nat
                  PROVE  SumFunctionOnSet(f, S \cup T) =
                           SumFunctionOnSet(f, S) + SumFunctionOnSet(f, T)
<1>1. Cells(f, S \cup T) = Cells(f, S) \cup Cells(f, T)
  BY DEF Cells
<1>2. Cells(f, S) \cap Cells(f, T) = {}
  BY DEF Cells, Column
<1>3. /\ IsFiniteSet(Cells(f, S)) /\ Cardinality(Cells(f, S)) \in Nat
      /\ IsFiniteSet(Cells(f, T)) /\ Cardinality(Cells(f, T)) \in Nat
  BY CellsFinite
<1>4. Cardinality(Cells(f, S) \cup Cells(f, T)) =
        Cardinality(Cells(f, S)) + Cardinality(Cells(f, T)) - Cardinality({})
  BY <1>2, <1>3, FS_Union
<1> DEFINE n == Cardinality(Cells(f, S))
           m == Cardinality(Cells(f, T))
<1> HIDE DEF n, m
<1>5. Cardinality(Cells(f, S) \cup Cells(f, T)) = n + m
  BY <1>3, <1>4, FS_EmptySet DEF n, m
<1>6. /\ SumFunctionOnSet(f, S \cup T) = Cardinality(Cells(f, S \cup T))
      /\ SumFunctionOnSet(f, S) = n /\ SumFunctionOnSet(f, T) = m
  <2>1. IsFiniteSet(S \cup T)
    BY FS_Union
  <2> QED
    BY <2>1, SumIsCount DEF n, m
<1> QED
  BY <1>1, <1>5, <1>6

\* More indices, a larger sum.
LEMMA SumMonotone == ASSUME NEW f, NEW T, NEW S \in SUBSET T, IsFiniteSet(T),
                            \A i \in T : f[i] \in Nat
                     PROVE  SumFunctionOnSet(f, S) <= SumFunctionOnSet(f, T)
<1> DEFINE R == T \ S
<1>1. IsFiniteSet(S) /\ IsFiniteSet(R) /\ S \cap R = {} /\ S \cup R = T
  BY FS_Subset
<1> HIDE DEF R
<1>2. \A i \in S \cup R : f[i] \in Nat
  BY <1>1
<1>3. SumFunctionOnSet(f, S \cup R) = SumFunctionOnSet(f, S) + SumFunctionOnSet(f, R)
  BY <1>1, <1>2, SumSplit
<1>4. SumFunctionOnSet(f, S) \in Nat /\ SumFunctionOnSet(f, R) \in Nat
  BY <1>1, <1>2, SumType
<1>5. SumFunctionOnSet(f, S \cup R) = SumFunctionOnSet(f, T)
  BY <1>1, Zenon
<1> QED
  BY <1>3, <1>4, <1>5

LEMMA SumZero == ASSUME NEW f, NEW S, IsFiniteSet(S), \A i \in S : f[i] = 0
                 PROVE  SumFunctionOnSet(f, S) = 0
<1>1. Cells(f, S) = {}
  <2>1. \A i \in S : Column(f, i) = {}
    BY DEF Column
  <2> QED
    BY <2>1 DEF Cells
<1>2. SumFunctionOnSet(f, S) = Cardinality(Cells(f, S))
  BY SumIsCount
<1> QED
  BY <1>1, <1>2, FS_EmptySet

\* One value grows by one, and with it every sum that counts it.
LEMMA SumIncrement == ASSUME NEW D, NEW f \in [D -> Nat], NEW g \in [D -> Nat],
                             NEW x \in D, g[x] = f[x] + 1, \A i \in D : i # x => g[i] = f[i],
                             NEW S \in SUBSET D, IsFiniteSet(S)
                      PROVE  /\ x \in S => SumFunctionOnSet(g, S) = SumFunctionOnSet(f, S) + 1
                             /\ x \notin S => SumFunctionOnSet(g, S) = SumFunctionOnSet(f, S)
<1> DEFINE T == S \ {x}
<1>1. /\ \A i \in S : f[i] \in Nat /\ g[i] \in Nat
      /\ \A i \in S : i # x => g[i] = f[i]
      /\ g[x] = f[x] + 1 /\ f[x] \in Nat
  OBVIOUS
<1>2. IsFiniteSet(T) /\ \A i \in T : i # x /\ i \in S
  BY FS_Subset
<1>3. CASE x \notin S
  <2>1. \A i \in S : f[i] \in Nat /\ g[i] = f[i]
    BY <1>1, <1>3
  <2>2. SumFunctionOnSet(f, S) = SumFunctionOnSet(g, S) /\ SumFunctionOnSet(f, S) \in Nat
    BY <2>1, SumSame, SumType
  <2> QED
    BY <2>2, <1>3
<1>4. CASE x \in S
  <2>1. /\ SumFunctionOnSet(f, T) = SumFunctionOnSet(f, S) - f[x]
        /\ SumFunctionOnSet(g, T) = SumFunctionOnSet(g, S) - g[x]
    BY <1>1, <1>4, SumRemove
  <2>2. \A i \in T : f[i] \in Nat /\ g[i] = f[i]
    BY <1>1, <1>2
  <2>3. SumFunctionOnSet(f, T) = SumFunctionOnSet(g, T)
    BY <1>2, <2>2, SumSame
  <2>4. SumFunctionOnSet(f, S) \in Nat /\ SumFunctionOnSet(g, S) \in Nat
    BY <1>1, SumType
  <2>5. SumFunctionOnSet(g, S) = SumFunctionOnSet(f, S) + 1
    BY <2>1, <2>3, <2>4, <1>1
  <2> QED
    BY <2>5, <1>4
<1> QED
  BY <1>3, <1>4

\* One value changes, and with it every sum that counts it.
LEMMA SumChange == ASSUME NEW f, NEW g, NEW S, NEW x \in S, IsFiniteSet(S),
                          \A i \in S : f[i] \in Nat /\ g[i] \in Nat,
                          \A i \in S : i # x => g[i] = f[i]
                   PROVE  SumFunctionOnSet(g, S) = SumFunctionOnSet(f, S) - f[x] + g[x]
<1> DEFINE T == S \ {x}
<1>1. /\ SumFunctionOnSet(f, T) = SumFunctionOnSet(f, S) - f[x]
      /\ SumFunctionOnSet(g, T) = SumFunctionOnSet(g, S) - g[x]
  BY SumRemove
<1>2. IsFiniteSet(T) /\ \A i \in T : f[i] \in Nat /\ g[i] = f[i]
  BY FS_Subset
<1>3. SumFunctionOnSet(f, T) = SumFunctionOnSet(g, T)
  BY <1>2, SumSame
<1>4. SumFunctionOnSet(f, S) \in Nat /\ SumFunctionOnSet(g, S) \in Nat
  BY SumType
<1> QED
  BY <1>1, <1>3, <1>4

\* A sum does not depend on the names of the indices.
LEMMA SumRenamed == ASSUME NEW f, NEW g, NEW S, NEW T, IsFiniteSet(S), NEW b \in Bijection(S, T),
                           \A i \in S : f[i] \in Nat /\ g[b[i]] = f[i]
                    PROVE  SumFunctionOnSet(f, S) = SumFunctionOnSet(g, T)
<1>1. /\ b \in [S -> T] /\ \A i, j \in S : b[i] = b[j] => i = j
      /\ \A t \in T : \E s \in S : b[s] = t
  BY DEF Bijection, Injection, Surjection, IsInjective
<1>2. IsFiniteSet(T) /\ \A t \in T : g[t] \in Nat
  <2>1. ExistsBijection(S, T)
    BY DEF ExistsBijection
  <2> QED
    BY <1>1, <2>1, FS_Bijection
<1> DEFINE m == [cell \in Cells(f, S) |-> <<b[cell[1]], cell[2]>>]
<1>3. \A cell : cell \in Cells(f, S) <=> \E i \in S : \E n \in 1..f[i] : cell = <<i, n>>
  BY DEF Cells, Column
<1>4. \A cell : cell \in Cells(g, T) <=> \E i \in T : \E n \in 1..g[i] : cell = <<i, n>>
  BY DEF Cells, Column
<1>5. m \in [Cells(f, S) -> Cells(g, T)]
  <2>1. ASSUME NEW cell \in Cells(f, S)
        PROVE  <<b[cell[1]], cell[2]>> \in Cells(g, T)
    <3> PICK i \in S, n \in Nat : n \in 1..f[i] /\ cell = <<i, n>>
      BY <1>3
    <3>1. b[i] \in T /\ n \in 1..g[b[i]]
      BY <1>1
    <3> QED
      BY <3>1, <1>4
  <2> QED
    BY <2>1
<1>6. \A x, y \in Cells(f, S) : m[x] = m[y] => x = y
  <2> SUFFICES ASSUME NEW x \in Cells(f, S), NEW y \in Cells(f, S), m[x] = m[y]
               PROVE  x = y
    OBVIOUS
  <2>1. PICK i \in S, n \in Nat : n \in 1..f[i] /\ x = <<i, n>>
    BY <1>3
  <2>2. PICK j \in S, k \in Nat : k \in 1..f[j] /\ y = <<j, k>>
    BY <1>3
  <2> QED
    BY <2>1, <2>2, <1>1
<1>7. \A t \in Cells(g, T) : \E s \in Cells(f, S) : m[s] = t
  <2> SUFFICES ASSUME NEW t \in Cells(g, T)
               PROVE  \E s \in Cells(f, S) : m[s] = t
    OBVIOUS
  <2>1. PICK j \in T, n \in Nat : n \in 1..g[j] /\ t = <<j, n>>
    BY <1>4
  <2>2. PICK i \in S : b[i] = j
    BY <1>1
  <2>3. n \in 1..f[i]
    BY <2>1, <2>2
  <2>4. <<i, n>> \in Cells(f, S)
    BY <2>3, <1>3
  <2> QED
    BY <2>1, <2>2, <2>4
<1>8. ExistsBijection(Cells(f, S), Cells(g, T))
  <2> HIDE DEF m
  <2> QED
    BY <1>5, <1>6, <1>7 DEF ExistsBijection, Bijection, Injection, Surjection, IsInjective
<1>9. Cardinality(Cells(f, S)) = Cardinality(Cells(g, T))
  BY <1>8, CellsFinite, FS_Bijection
<1> QED
  BY <1>9, <1>2, SumIsCount

-----------------------------------------------------------------------------
LEMMA LeastNumber == ASSUME NEW T \in SUBSET Nat, T # {} PROVE \E n \in T : \A m \in T : n <= m
<1>1. PICK n \in T : \A m \in T : ~(<<m, n>> \in OpToRel(<, Nat))
  BY NatLessThanWellFounded, WFMin
<1>2. \A m \in T : ~(m < n)
  BY <1>1, Zenon DEF OpToRel
<1>3. \A m \in T : n <= m
  BY <1>2
<1> QED
  BY <1>3
=============================================================================
