----------------------------- MODULE SumLemmas -----------------------------
(***************************************************************************)
(* Facts about SumFunctionOnSet, the sum of a function over a finite set,  *)
(* which the ledgers and counters of the program are stated with.          *)
(*                                                                         *)
(* The sum is a fold, which is defined by recursion over the finite        *)
(* subsets.  It is shown to count a set, the units of the function, and    *)
(* what is known of the cardinalities of finite sets then gives the rest.  *)
(* Induction over the subsets is by a minimal counterexample, which exists *)
(* since strict inclusion of finite sets is well founded.                  *)
(***************************************************************************)
EXTENDS Functions, FiniteSetTheorems, WellFoundedInduction, TLAPS

\* The element that the fold takes out of the set s first.
Pick(s) == CHOOSE x \in s : TRUE

\* The recursion that the fold over the subsets of S follows.
SumsUp(f, S, h) ==
  h = [s \in SUBSET S |-> IF s = {} THEN 0 ELSE f[Pick(s)] + h[s \ {Pick(s)}]]

\* One element for each unit of each value of f over s.
Units(f, s) == {u \in s \X Nat : u[2] < f[u[1]]}
-----------------------------------------------------------------------------
\* Among the subsets of a finite set, a nonempty collection has a smallest.
LEMMA MinimalSubset ==
  ASSUME NEW S, IsFiniteSet(S), NEW B \in SUBSET (SUBSET S), B # {}
  PROVE  \E T \in B : \A U \in B : U \subseteq T => U = T
<1>1. IsWellFoundedOn(StrictSubsetOrdering(S), SUBSET S)
  BY FS_StrictSubsetOrderingWellFounded, FS_FiniteSubsetsOfFinite
<1>2. PICK T \in B : \A U \in B : ~ (<<U, T>> \in StrictSubsetOrdering(S))
  BY <1>1, WFMin
<1>3. ASSUME NEW U \in B, U \subseteq T
      PROVE  U = T
  BY <1>2, <1>3 DEF StrictSubsetOrdering
<1> QED
  BY <1>3

\* The units of a set are those of one element and those of the others.
LEMMA UnitsSplit ==
  ASSUME NEW S, IsFiniteSet(S), NEW f, NEW x \in S, f[x] \in Nat,
         IsFiniteSet(Units(f, S \ {x}))
  PROVE  /\ IsFiniteSet(Units(f, S))
         /\ Cardinality(Units(f, S)) = f[x] + Cardinality(Units(f, S \ {x}))
<1> DEFINE rest == Units(f, S \ {x})
           upto == 0..(f[x] - 1)
           own  == {x} \X upto
<1>1. /\ IsFiniteSet(own)
      /\ Cardinality(own) = f[x]
  <2>1. IsFiniteSet({x}) /\ Cardinality({x}) = 1
    BY FS_Singleton
  <2>2. IsFiniteSet(upto) /\ Cardinality(upto) = f[x]
    BY FS_Interval
  <2> HIDE DEF upto
  <2>3. IsFiniteSet(own) /\ Cardinality(own) = Cardinality({x}) * Cardinality(upto)
    BY <2>1, <2>2, FS_Product
  <2> QED
    BY <2>1, <2>2, <2>3
<1>2. Units(f, S) = own \cup rest
  BY DEF Units
<1>3. own \cap rest = {}
  BY DEF Units
<1>4. Cardinality(own \cap rest) = 0 /\ Cardinality(rest) \in Nat
  BY <1>3, FS_EmptySet, FS_CardinalityType
<1>5. /\ IsFiniteSet(own \cup rest)
      /\ Cardinality(own \cup rest) = f[x] + Cardinality(rest) - 0
  <2> HIDE DEF own, rest
  <2>1. IsFiniteSet(rest)
    BY DEF rest
  <2> QED  BY <1>1, <1>4, <2>1, FS_Union
<1> QED
  <2> HIDE DEF own
  <2> QED BY <1>2, <1>4, <1>5

\* Finitely many natural numbers have finitely many units.
LEMMA UnitsFinite ==
  ASSUME NEW S, IsFiniteSet(S), NEW f, \A x \in S : f[x] \in Nat
  PROVE  IsFiniteSet(Units(f, S))
<1> DEFINE B == {T \in SUBSET S : ~ IsFiniteSet(Units(f, T))}
<1> SUFFICES ASSUME B # {} PROVE FALSE
  OBVIOUS
<1>1. PICK T \in B : \A U \in B : U \subseteq T => U = T
  <2>1. B \in SUBSET (SUBSET S)
    OBVIOUS
  <2> HIDE DEF B
  <2> QED  BY <2>1, MinimalSubset
<1>2. T # {}
  <2>1. Units(f, {}) = {}
    BY DEF Units
  <2> QED  BY <2>1, FS_EmptySet
<1>3. PICK x \in T : TRUE
  BY <1>2
<1>4. IsFiniteSet(Units(f, T \ {x}))
  BY <1>1, <1>3
<1>5. IsFiniteSet(T)
  BY FS_Subset
<1> QED
  BY <1>1, <1>3, <1>4, <1>5, UnitsSplit

\* The numbers of units of the subsets follow the recursion of the fold.
LEMMA UnitsSumUp ==
  ASSUME NEW S, IsFiniteSet(S), NEW f, \A x \in S : f[x] \in Nat
  PROVE  SumsUp(f, S, [s \in SUBSET S |-> Cardinality(Units(f, s))])
<1> DEFINE g == [s \in SUBSET S |-> Cardinality(Units(f, s))]
<1>1. ASSUME NEW s \in SUBSET S
      PROVE  g[s] = IF s = {} THEN 0 ELSE f[Pick(s)] + g[s \ {Pick(s)}]
  <2>1. CASE s = {}
    <3>1. Units(f, s) = {}
      BY <2>1 DEF Units
    <3> QED  BY <2>1, <3>1, FS_EmptySet
  <2>2. CASE s # {}
    <3>1. Pick(s) \in s
      BY <2>2 DEF Pick
    <3>2. IsFiniteSet(s) /\ IsFiniteSet(s \ {Pick(s)})
      BY FS_Subset
    <3>3. IsFiniteSet(Units(f, s \ {Pick(s)}))
      BY <3>2, UnitsFinite
    <3>4. Cardinality(Units(f, s)) =
            f[Pick(s)] + Cardinality(Units(f, s \ {Pick(s)}))
      BY <3>1, <3>2, <3>3, UnitsSplit
    <3> QED  BY <2>2, <3>4
  <2> QED  BY <2>1, <2>2
<1> QED
  BY <1>1, Zenon DEF SumsUp

\* No two functions follow the recursion.
LEMMA SumsUpUnique ==
  ASSUME NEW S, IsFiniteSet(S), NEW f, NEW g, NEW h,
         SumsUp(f, S, g), SumsUp(f, S, h)
  PROVE  g[S] = h[S]
<1> DEFINE B == {T \in SUBSET S : g[T] # h[T]}
<1> SUFFICES ASSUME B # {} PROVE FALSE
  OBVIOUS
<1>1. PICK T \in B : \A U \in B : U \subseteq T => U = T
  <2>1. B \in SUBSET (SUBSET S)
    OBVIOUS
  <2> HIDE DEF B
  <2> QED  BY <2>1, MinimalSubset
<1>2. /\ g[T] = IF T = {} THEN 0 ELSE f[Pick(T)] + g[T \ {Pick(T)}]
      /\ h[T] = IF T = {} THEN 0 ELSE f[Pick(T)] + h[T \ {Pick(T)}]
  BY Zenon DEF SumsUp
<1>3. T # {}
  BY <1>2
<1>4. Pick(T) \in T
  BY <1>3 DEF Pick
<1>5. g[T \ {Pick(T)}] = h[T \ {Pick(T)}]
  BY <1>1, <1>4
<1> QED
  BY <1>2, <1>3, <1>5

\* The sum is the number of units.
LEMMA SumIsCount ==
  ASSUME NEW S, IsFiniteSet(S), NEW f, \A x \in S : f[x] \in Nat
  PROVE  SumFunctionOnSet(f, S) = Cardinality(Units(f, S))
<1> DEFINE iter == CHOOSE h : SumsUp(f, S, h)
           count == [s \in SUBSET S |-> Cardinality(Units(f, s))]
<1>1. SumFunctionOnSet(f, S) = iter[S]
  BY DEF SumFunctionOnSet, FoldFunctionOnSet, MapThenFoldSet, Pick, SumsUp
<1>2. SumsUp(f, S, count)
  BY UnitsSumUp
<1>3. SumsUp(f, S, iter)
  <2> HIDE DEF count
  <2> QED BY <1>2
<1>4. iter[S] = count[S]
  <2> HIDE DEF count, iter
  <2> QED BY <1>2, <1>3, SumsUpUnique
<1> QED
  BY <1>1, <1>4
-----------------------------------------------------------------------------
\* A sum of natural numbers is a natural number.
LEMMA SumType ==
  ASSUME NEW S, IsFiniteSet(S), NEW f, \A x \in S : f[x] \in Nat
  PROVE  SumFunctionOnSet(f, S) \in Nat
BY SumIsCount, UnitsFinite, FS_CardinalityType

\* The sum depends on the values of the function over the set alone.
LEMMA SumAgrees ==
  ASSUME NEW S, IsFiniteSet(S), NEW f, NEW g, \A x \in S : f[x] \in Nat,
         \A x \in S : g[x] = f[x]
  PROVE  SumFunctionOnSet(g, S) = SumFunctionOnSet(f, S)
<1>1. Units(g, S) = Units(f, S)
  BY DEF Units
<1>2. \A x \in S : g[x] \in Nat
  OBVIOUS
<1> QED
  BY <1>1, <1>2, SumIsCount

\* Nothing adds up to nothing.
LEMMA SumOfZeros ==
  ASSUME NEW S, IsFiniteSet(S), NEW f, \A x \in S : f[x] = 0
  PROVE  SumFunctionOnSet(f, S) = 0
<1>1. Units(f, S) = {}
  BY DEF Units
<1> QED
  BY <1>1, SumIsCount, FS_EmptySet

\* One summand may be counted apart.
LEMMA SumOneOut ==
  ASSUME NEW S, IsFiniteSet(S), NEW f, \A x \in S : f[x] \in Nat, NEW x \in S
  PROVE  SumFunctionOnSet(f, S) = f[x] + SumFunctionOnSet(f, S \ {x})
<1>1. IsFiniteSet(S \ {x})
  BY FS_RemoveElement
<1>2. IsFiniteSet(Units(f, S \ {x}))
  BY <1>1, UnitsFinite
<1>3. /\ SumFunctionOnSet(f, S) = Cardinality(Units(f, S))
      /\ SumFunctionOnSet(f, S \ {x}) = Cardinality(Units(f, S \ {x}))
  BY <1>1, SumIsCount
<1> QED
  BY <1>2, <1>3, UnitsSplit

\* A function that differs from another one at a single point of the set.
LEMMA SumUpdated ==
  ASSUME NEW S, IsFiniteSet(S), NEW f, NEW g,
         \A z \in S : f[z] \in Nat /\ g[z] \in Nat,
         NEW x \in S, \A z \in S \ {x} : g[z] = f[z]
  PROVE  SumFunctionOnSet(g, S) = SumFunctionOnSet(f, S) - f[x] + g[x]
<1>1. IsFiniteSet(S \ {x})
  BY FS_RemoveElement
<1>2. /\ SumFunctionOnSet(f, S) = f[x] + SumFunctionOnSet(f, S \ {x})
      /\ SumFunctionOnSet(g, S) = g[x] + SumFunctionOnSet(g, S \ {x})
  BY SumOneOut
<1>3. SumFunctionOnSet(g, S \ {x}) = SumFunctionOnSet(f, S \ {x})
  BY <1>1, SumAgrees
<1>4. SumFunctionOnSet(f, S \ {x}) \in Nat
  BY <1>1, SumType
<1> QED
  BY <1>2, <1>3, <1>4

\* A function that differs from another one at two points of the set.
LEMMA SumUpdatedTwice ==
  ASSUME NEW S, IsFiniteSet(S), NEW f, NEW g,
         \A z \in S : f[z] \in Nat /\ g[z] \in Nat,
         NEW x \in S, NEW y \in S, x # y,
         \A z \in S \ {x, y} : g[z] = f[z]
  PROVE  SumFunctionOnSet(g, S) =
           SumFunctionOnSet(f, S) - f[x] + g[x] - f[y] + g[y]
<1> DEFINE h == [z \in S |-> IF z = x THEN g[x] ELSE f[z]]
<1>1. \A z \in S : h[z] \in Nat
  OBVIOUS
<1>2. /\ \A z \in S \ {x} : h[z] = f[z]
      /\ \A z \in S \ {y} : g[z] = h[z]
      /\ h[x] = g[x] /\ h[y] = f[y]
  OBVIOUS
<1> HIDE DEF h
<1>3. SumFunctionOnSet(h, S) = SumFunctionOnSet(f, S) - f[x] + g[x]
  BY <1>1, <1>2, SumUpdated
<1>4. SumFunctionOnSet(g, S) = SumFunctionOnSet(h, S) - f[y] + g[y]
  BY <1>1, <1>2, SumUpdated
<1>5. SumFunctionOnSet(f, S) \in Nat
  BY SumType
<1> QED
  BY <1>2, <1>3, <1>4, <1>5

\* A function that agrees with another one on the set and has a point more.
LEMMA SumExtended ==
  ASSUME NEW S, IsFiniteSet(S), NEW f, NEW g, NEW x, x \notin S,
         \A z \in S : f[z] \in Nat /\ g[z] = f[z], g[x] \in Nat
  PROVE  SumFunctionOnSet(g, S \cup {x}) = SumFunctionOnSet(f, S) + g[x]
<1>1. IsFiniteSet(S \cup {x}) /\ (S \cup {x}) \ {x} = S
  BY FS_AddElement
<1>2. SumFunctionOnSet(g, S \cup {x}) = g[x] + SumFunctionOnSet(g, S)
  BY <1>1, SumOneOut
<1>3. SumFunctionOnSet(g, S) = SumFunctionOnSet(f, S)
  BY SumAgrees
<1>4. SumFunctionOnSet(f, S) \in Nat
  BY SumType
<1> QED
  BY <1>2, <1>3, <1>4

\* If each positive summand on the left has one on the right that is at least
\* as large, and no two of them the same, the left sum is not larger.
LEMMA SumCovered ==
  ASSUME NEW S, IsFiniteSet(S), NEW f, \A x \in S : f[x] \in Nat,
         NEW T, IsFiniteSet(T), NEW g, \A x \in T : g[x] \in Nat, NEW p,
         \A x \in S : f[x] > 0 => p[x] \in T /\ f[x] <= g[p[x]],
         \A x, z \in S : f[x] > 0 /\ f[z] > 0 /\ p[x] = p[z] => x = z
  PROVE  SumFunctionOnSet(f, S) <= SumFunctionOnSet(g, T)
<1> DEFINE cover == [u \in Units(f, S) |-> <<p[u[1]], u[2]>>]
<1>1. IsFiniteSet(Units(g, T))
  BY UnitsFinite
<1>2. ASSUME NEW u \in Units(f, S)
      PROVE  cover[u] \in Units(g, T) /\ u[1] \in S /\ f[u[1]] > 0
  <2>1. u[1] \in S /\ u[2] \in Nat /\ u[2] < f[u[1]]
    BY DEF Units
  <2>2. p[u[1]] \in T /\ f[u[1]] <= g[p[u[1]]] /\ f[u[1]] > 0
    BY <2>1
  <2>3. u[2] < g[p[u[1]]]
    BY <2>1, <2>2
  <2>4. cover[u] = <<p[u[1]], u[2]>>
    OBVIOUS
  <2> HIDE DEF cover
  <2> QED  BY <2>1, <2>2, <2>3, <2>4 DEF Units
<1>3. ASSUME NEW u \in Units(f, S), NEW v \in Units(f, S), cover[u] = cover[v]
      PROVE  u = v
  <2>1. p[u[1]] = p[v[1]] /\ u[2] = v[2]
    BY <1>3
  <2>2. u[1] = v[1]
    BY <1>2, <2>1
  <2>3. u = <<u[1], u[2]>> /\ v = <<v[1], v[2]>>
    BY DEF Units
  <2> QED  BY <2>1, <2>2, <2>3
<1>4. cover \in Injection(Units(f, S), Units(g, T))
  <2>1. cover \in [Units(f, S) -> Units(g, T)]
    BY <1>2
  <2> QED  BY <1>3, <2>1 DEF Injection, IsInjective
<1>5. Cardinality(Units(f, S)) <= Cardinality(Units(g, T))
  <2> HIDE DEF cover
  <2> QED  BY <1>1, <1>4, FS_Injection
<1> QED
  BY <1>5, SumIsCount
=============================================================================
