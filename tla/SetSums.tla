------------------------------ MODULE SetSums ------------------------------
(***************************************************************************)
(* Sums over finite sets, as MapThenSumSet of the community modules takes  *)
(* them.  What is added up is a function here, so that the facts need no   *)
(* operator parameter; Adds is the recursion that MapThenSumSet chooses.   *)
(* The lemmas go by a smallest subset for which a fact fails.              *)
(***************************************************************************)
EXTENDS Integers, FiniteSetsExt, FiniteSetTheorems, WellFoundedInduction, TLAPS

SumOf(g, S) == MapThenSumSet(LAMBDA x : g[x], S)

Some(s) == CHOOSE x \in s : TRUE

Adds(F, g, S) ==
    F = [s \in SUBSET S |-> IF s = {} THEN 0 ELSE g[Some(s)] + F[s \ {Some(s)}]]
-----------------------------------------------------------------------------
(***************************************************************************)
(* Among subsets of a finite set one is smallest.                          *)
(***************************************************************************)
LEMMA SmallestSubset ==
    ASSUME NEW S, IsFiniteSet(S), NEW T, T \subseteq SUBSET S, T # {}
    PROVE  \E s \in T : \A u \in T : u \subseteq s => u = s
  <1>1. T \subseteq FiniteSubsetsOf(S)
    BY FS_FiniteSubsetsOfFinite
  <1>2. PICK s \in T : \A u \in T : ~ (<<u, s>> \in StrictSubsetOrdering(S))
    <2> HIDE DEF StrictSubsetOrdering
    <2> QED BY <1>1, FS_StrictSubsetOrderingWellFounded, WFMin
  <1> QED BY <1>2 DEF StrictSubsetOrdering

\* Some element of a set is in it.
LEMMA SomeIn == ASSUME NEW s, s # {} PROVE Some(s) \in s
  BY DEF Some

(***************************************************************************)
(* Two recursions over the same values agree wherever both are defined.    *)
(***************************************************************************)
LEMMA AddsAgree ==
    ASSUME NEW S, IsFiniteSet(S), NEW g, NEW U \in SUBSET S, NEW V \in SUBSET S,
           NEW F, Adds(F, g, U), NEW G, Adds(G, g, V)
    PROVE  \A s \in SUBSET (U \intersect V) : F[s] = G[s]
  <1> DEFINE T == {s \in SUBSET (U \intersect V) : F[s] # G[s]}
  <1> SUFFICES ASSUME T # {} PROVE FALSE
    OBVIOUS
  <1>1. PICK s \in T : \A u \in T : u \subseteq s => u = s
    <2>1. T \subseteq SUBSET S
      OBVIOUS
    <2> HIDE DEF T
    <2> QED BY <2>1, SmallestSubset
  <1>2. s \subseteq U /\ s \subseteq V /\ F[s] # G[s]
    OBVIOUS
  <1>3. s # {}
    BY <1>2 DEF Adds
  <1>4. Some(s) \in s
    BY <1>3, SomeIn
  <1>5. F[s \ {Some(s)}] = G[s \ {Some(s)}]
    BY <1>1, <1>4
  <1> QED BY <1>2, <1>3, <1>5 DEF Adds

(***************************************************************************)
(* The recursion has a solution on every finite set.                       *)
(***************************************************************************)
LEMMA AddsExists ==
    ASSUME NEW S, IsFiniteSet(S), NEW g
    PROVE  \E F : Adds(F, g, S)
  <1> DEFINE T == {s \in SUBSET S : ~ \E F : Adds(F, g, s)}
  <1> SUFFICES ASSUME T # {} PROVE FALSE
    OBVIOUS
  <1>1. PICK s \in T : \A u \in T : u \subseteq s => u = s
    <2>1. T \subseteq SUBSET S
      OBVIOUS
    <2> HIDE DEF T
    <2> QED BY <2>1, SmallestSubset
  <1>2. s \subseteq S /\ ~ \E F : Adds(F, g, s)
    OBVIOUS
  <1>3. \A u \in SUBSET s : u # s => \E F : Adds(F, g, u)
    BY <1>1, <1>2
  <1> HIDE DEF T
  <1> DEFINE At(u) == CHOOSE F : Adds(F, g, u)
             H == [u \in SUBSET s |-> IF u = {} THEN 0
                      ELSE g[Some(u)] + At(u \ {Some(u)})[u \ {Some(u)}]]
  <1>4. \A u \in SUBSET s : u # s => Adds(At(u), g, u)
    BY <1>3
  <1> HIDE DEF At
  <1>5. ASSUME NEW u \in SUBSET s, u # {}
        PROVE  At(u \ {Some(u)})[u \ {Some(u)}] = H[u \ {Some(u)}]
    <2> DEFINE v == u \ {Some(u)}
    <2>1. Some(u) \in u
      BY <1>5, SomeIn
    <2>2. v \in SUBSET s /\ v # s
      BY <2>1
    <2>3. Adds(At(v), g, v)
      BY <2>2, <1>4
    <2>4. CASE v = {}
      BY <2>2, <2>3, <2>4 DEF Adds
    <2>5. CASE v # {}
      <3> DEFINE x == v \ {Some(v)}
      <3>1. Some(v) \in v
        BY <2>5, SomeIn
      <3>2. x \in SUBSET s /\ x # s /\ x \in SUBSET v
        BY <3>1, <2>2
      <3>3. Adds(At(x), g, x)
        BY <3>2, <1>4
      <3>4. At(v)[x] = At(x)[x]
        <4>1. v \in SUBSET S /\ x \in SUBSET S /\ x \in SUBSET (v \intersect x)
          BY <1>2, <2>2, <3>2
        <4> HIDE DEF v, x
        <4> QED BY <4>1, <2>3, <3>3, AddsAgree
      <3>5. At(v)[v] = g[Some(v)] + At(v)[x]
        BY <2>3, <2>5 DEF Adds
      <3>6. H[v] = g[Some(v)] + At(x)[x]
        BY <2>2, <2>5
      <3> QED BY <3>4, <3>5, <3>6
    <2> QED BY <2>4, <2>5
  <1>6. Adds(H, g, s)
    BY <1>5 DEF Adds
  <1> QED BY <1>2, <1>6
-----------------------------------------------------------------------------
(***************************************************************************)
(* MapThenSumSet is what any solution of the recursion says.               *)
(***************************************************************************)
LEMMA SumIs ==
    ASSUME NEW S, IsFiniteSet(S), NEW g, NEW F, Adds(F, g, S)
    PROVE  SumOf(g, S) = F[S]
  <1> DEFINE G == CHOOSE G : Adds(G, g, S)
  <1>1. Adds(G, g, S)
    BY AddsExists
  <1>2. SumOf(g, S) = G[S]
    BY DEF SumOf, MapThenSumSet, MapThenFoldSet, Adds, Some
  <1> HIDE DEF G
  <1>3. S \in SUBSET (S \intersect S) /\ S \in SUBSET S
    OBVIOUS
  <1>4. G[S] = F[S]
    BY <1>1, <1>3, AddsAgree
  <1> QED BY <1>2, <1>4

(***************************************************************************)
(* Naturals add up to a natural, and more at every element to no less.     *)
(***************************************************************************)
LEMMA SumMonotone ==
    ASSUME NEW S, IsFiniteSet(S), NEW g, NEW h,
           \A x \in S : g[x] \in Nat /\ h[x] \in Nat /\ g[x] <= h[x]
    PROVE  SumOf(g, S) \in Nat /\ SumOf(h, S) \in Nat /\ SumOf(g, S) <= SumOf(h, S)
  <1>1. PICK F : Adds(F, g, S)
    BY AddsExists
  <1>2. PICK G : Adds(G, h, S)
    BY AddsExists
  <1> DEFINE Good(s) == F[s] \in Nat /\ G[s] \in Nat /\ F[s] <= G[s]
             T == {s \in SUBSET S : ~ Good(s)}
  <1>3. T = {}
    <2> SUFFICES ASSUME T # {} PROVE FALSE
      OBVIOUS
    <2>1. PICK s \in T : \A u \in T : u \subseteq s => u = s
      <3>1. T \subseteq SUBSET S
        OBVIOUS
      <3> HIDE DEF T
      <3> QED BY <3>1, SmallestSubset
    <2>2. s \subseteq S /\ ~ Good(s)
      OBVIOUS
    <2>3. s # {}
      BY <1>1, <1>2, <2>2 DEF Adds
    <2> DEFINE x == Some(s)
    <2>4. x \in s
      BY <2>3, SomeIn
    <2>5. Good(s \ {x})
      BY <2>1, <2>2, <2>4
    <2>6. F[s] = g[x] + F[s \ {x}] /\ G[s] = h[x] + G[s \ {x}]
      BY <1>1, <1>2, <2>2, <2>3 DEF Adds
    <2>7. g[x] \in Nat /\ h[x] \in Nat /\ g[x] <= h[x]
      BY <2>2, <2>4
    <2> HIDE DEF x
    <2> QED BY <2>2, <2>5, <2>6, <2>7
  <1>4. Good(S)
    BY <1>3
  <1>5. SumOf(g, S) = F[S] /\ SumOf(h, S) = G[S]
    BY <1>1, <1>2, SumIs
  <1> QED BY <1>4, <1>5

(***************************************************************************)
(* One value changes, and the sum by as much.                              *)
(***************************************************************************)
LEMMA SumChanges ==
    ASSUME NEW S, IsFiniteSet(S), NEW g, NEW h, NEW w \in S,
           \A x \in S : g[x] \in Nat /\ h[x] \in Nat /\ (x # w => h[x] = g[x])
    PROVE  SumOf(h, S) + g[w] = SumOf(g, S) + h[w]
  <1>1. PICK F : Adds(F, g, S)
    BY AddsExists
  <1>2. PICK G : Adds(G, h, S)
    BY AddsExists
  <1> DEFINE Good(s) == /\ F[s] \in Nat /\ G[s] \in Nat
                        /\ w \in s => G[s] + g[w] = F[s] + h[w]
                        /\ w \notin s => G[s] = F[s]
             T == {s \in SUBSET S : ~ Good(s)}
  <1>3. T = {}
    <2> SUFFICES ASSUME T # {} PROVE FALSE
      OBVIOUS
    <2>1. PICK s \in T : \A u \in T : u \subseteq s => u = s
      <3>1. T \subseteq SUBSET S
        OBVIOUS
      <3> HIDE DEF T
      <3> QED BY <3>1, SmallestSubset
    <2>2. s \subseteq S /\ ~ Good(s)
      OBVIOUS
    <2>3. s # {}
      BY <1>1, <1>2, <2>2 DEF Adds
    <2> DEFINE x == Some(s)
    <2>4. x \in s
      BY <2>3, SomeIn
    <2>5. Good(s \ {x})
      BY <2>1, <2>2, <2>4
    <2>6. F[s] = g[x] + F[s \ {x}] /\ G[s] = h[x] + G[s \ {x}]
      BY <1>1, <1>2, <2>2, <2>3 DEF Adds
    <2>7. /\ g[x] \in Nat /\ h[x] \in Nat /\ g[w] \in Nat /\ h[w] \in Nat
          /\ x # w => h[x] = g[x]
      BY <2>2, <2>4
    <2>8. CASE x = w
      <3>1. w \in s /\ w \notin s \ {x}
        BY <2>4, <2>8
      <3> HIDE DEF x
      <3> QED BY <3>1, <2>2, <2>5, <2>6, <2>7, <2>8
    <2>9. CASE x # w
      <3>1. w \in s <=> w \in s \ {x}
        BY <2>9
      <3> HIDE DEF x
      <3> QED BY <3>1, <2>2, <2>5, <2>6, <2>7, <2>9
    <2> QED BY <2>8, <2>9
  <1>4. Good(S)
    BY <1>3
  <1>5. SumOf(g, S) = F[S] /\ SumOf(h, S) = G[S]
    BY <1>1, <1>2, SumIs
  <1> QED BY <1>4, <1>5

(***************************************************************************)
(* A sum of naturals is no less than each of them.                         *)
(***************************************************************************)
LEMMA SumAtLeast ==
    ASSUME NEW S, IsFiniteSet(S), NEW g, \A x \in S : g[x] \in Nat, NEW w \in S
    PROVE  g[w] <= SumOf(g, S)
  <1> DEFINE h == [x \in S |-> IF x = w THEN 0 ELSE g[x]]
  <1>1. h[w] = 0 /\ \A x \in S : h[x] \in Nat /\ (x # w => h[x] = g[x])
    OBVIOUS
  <1>2. SumOf(g, S) \in Nat
    BY SumMonotone
  <1> HIDE DEF h
  <1>3. SumOf(h, S) \in Nat
    BY <1>1, SumMonotone
  <1>4. SumOf(h, S) + g[w] = SumOf(g, S) + 0
    BY <1>1, SumChanges
  <1>5. g[w] \in Nat
    OBVIOUS
  <1> QED BY <1>2, <1>3, <1>4, <1>5

(***************************************************************************)
(* Zeros add up to zero.                                                   *)
(***************************************************************************)
LEMMA SumOfZeros ==
    ASSUME NEW S, IsFiniteSet(S), NEW g, \A x \in S : g[x] = 0
    PROVE  SumOf(g, S) = 0
  <1>1. PICK F : Adds(F, g, S)
    BY AddsExists
  <1> DEFINE T == {s \in SUBSET S : F[s] # 0}
  <1>3. T = {}
    <2> SUFFICES ASSUME T # {} PROVE FALSE
      OBVIOUS
    <2>1. PICK s \in T : \A u \in T : u \subseteq s => u = s
      <3>1. T \subseteq SUBSET S
        OBVIOUS
      <3> HIDE DEF T
      <3> QED BY <3>1, SmallestSubset
    <2>2. s \subseteq S /\ F[s] # 0
      OBVIOUS
    <2>3. s # {}
      BY <1>1, <2>2 DEF Adds
    <2> DEFINE x == Some(s)
    <2>4. x \in s
      BY <2>3, SomeIn
    <2>5. F[s \ {x}] = 0
      BY <2>1, <2>2, <2>4
    <2>6. F[s] = g[x] + F[s \ {x}]
      BY <1>1, <2>2, <2>3 DEF Adds
    <2> QED BY <2>2, <2>4, <2>5, <2>6
  <1>5. SumOf(g, S) = F[S]
    BY <1>1, SumIs
  <1> QED BY <1>3, <1>5
-----------------------------------------------------------------------------
(***************************************************************************)
(* Sums of squares: the sum over x of (x - y)^2 is not negative, whatever  *)
(* is added to it, and so n times the sum of squares is no less than the   *)
(* square of the sum.                                                      *)
(***************************************************************************)
LEMMA DistancesGrow ==
    ASSUME NEW n \in Nat, NEW a \in Int, NEW q \in Int, NEW y \in Int, NEW x \in Int,
           q - 2 * y * a + n * (y * y) >= 0
    PROVE  (q + x * x) - 2 * y * (a + x) + (n + 1) * (y * y) >= 0
  <1>1. (x - y) * (x - y) >= 0
    <2>1. PICK z \in Int : z = x - y
      OBVIOUS
    <2>2. z * z >= 0
      OBVIOUS
    <2> QED BY <2>1, <2>2
  <1>2. (x - y) * (x - y) = x * x - 2 * y * x + y * y
    OBVIOUS
  <1>3. (q + x * x) - 2 * y * (a + x) + (n + 1) * (y * y)
          = (q - 2 * y * a + n * (y * y)) + (x * x - 2 * y * x + y * y)
    OBVIOUS
  <1> QED BY <1>1, <1>2, <1>3

\* One more term keeps the denominator of a fit positive.
LEMMA VarianceGrows ==
    ASSUME NEW n \in Nat, NEW a \in Int, NEW q \in Int, NEW x \in Int,
           q - 2 * x * a + n * (x * x) >= 0, n * q - a * a >= 0
    PROVE  (n + 1) * (q + x * x) - (a + x) * (a + x) >= 0
  <1>1. (n + 1) * (q + x * x) - (a + x) * (a + x)
          = (n * q - a * a) + (q - 2 * x * a + n * (x * x))
    OBVIOUS
  <1> QED BY <1>1

\* The square of a sum is at most the number of terms times the sum of squares.
LEMMA SumOfSquares ==
    ASSUME NEW S, IsFiniteSet(S), NEW g, NEW h,
           \A x \in S : g[x] \in Nat /\ h[x] = g[x] * g[x]
    PROVE  Cardinality(S) * SumOf(h, S) - SumOf(g, S) * SumOf(g, S) >= 0
  <1>1. PICK F : Adds(F, g, S)
    BY AddsExists
  <1>2. PICK G : Adds(G, h, S)
    BY AddsExists
  <1> DEFINE Good(s) ==
                /\ F[s] \in Int /\ G[s] \in Int
                /\ \A y \in Int : G[s] - 2 * y * F[s] + Cardinality(s) * (y * y) >= 0
                /\ Cardinality(s) * G[s] - F[s] * F[s] >= 0
             T == {s \in SUBSET S : ~ Good(s)}
  <1>3. T = {}
    <2> SUFFICES ASSUME T # {} PROVE FALSE
      OBVIOUS
    <2>1. PICK s \in T : \A u \in T : u \subseteq s => u = s
      <3>1. T \subseteq SUBSET S
        OBVIOUS
      <3> HIDE DEF T
      <3> QED BY <3>1, SmallestSubset
    <2>2. s \subseteq S /\ ~ Good(s)
      OBVIOUS
    <2>3. s # {}
      <3> SUFFICES ASSUME s = {} PROVE FALSE
        OBVIOUS
      <3>1. F[s] = 0 /\ G[s] = 0
        BY <1>1, <1>2 DEF Adds
      <3>2. Cardinality(s) = 0
        BY FS_EmptySet
      <3>3. Good(s)
        BY <3>1, <3>2
      <3> QED BY <2>2, <3>3
    <2> DEFINE x == Some(s)
               r == s \ {x}
    <2>4. x \in s
      BY <2>3, SomeIn
    <2>5. Good(r)
      BY <2>1, <2>2, <2>4
    <2>6. F[s] = g[x] + F[r] /\ G[s] = g[x] * g[x] + G[r]
      <3>1. F[s] = g[x] + F[r] /\ G[s] = h[x] + G[r]
        BY <1>1, <1>2, <2>2, <2>3 DEF Adds
      <3>2. h[x] = g[x] * g[x]
        BY <2>2, <2>4
      <3> QED BY <3>1, <3>2
    <2>7. g[x] \in Int
      BY <2>2, <2>4
    <2>8. Cardinality(r) \in Nat /\ Cardinality(s) = Cardinality(r) + 1
      <3>1. IsFiniteSet(s) /\ IsFiniteSet(r)
        BY <2>2, FS_Subset
      <3>2. Cardinality(r) = Cardinality(s) - 1 /\ Cardinality(s) \in Nat
        BY <3>1, <2>4, FS_RemoveElement, FS_CardinalityType
      <3>3. Cardinality(r) \in Nat
        BY <3>1, FS_CardinalityType
      <3> QED BY <3>2, <3>3
    <2>9. PICK n, a, q, z : /\ n = Cardinality(r) /\ a = F[r] /\ q = G[r] /\ z = g[x]
      OBVIOUS
    <2>10. n \in Nat /\ a \in Int /\ q \in Int /\ z \in Int
      BY <2>5, <2>7, <2>8, <2>9
    <2>11. /\ \A y \in Int : q - 2 * y * a + n * (y * y) >= 0
           /\ n * q - a * a >= 0
      BY <2>5, <2>9
    <2>12. F[s] = a + z /\ G[s] = q + z * z /\ Cardinality(s) = n + 1
      BY <2>6, <2>8, <2>9, <2>10
    <2> HIDE DEF x, r
    <2>13. \A y \in Int : (q + z * z) - 2 * y * (a + z) + (n + 1) * (y * y) >= 0
      BY <2>10, <2>11, DistancesGrow
    <2>14. (n + 1) * (q + z * z) - (a + z) * (a + z) >= 0
      BY <2>10, <2>11, VarianceGrows
    <2>15. a + z \in Int /\ q + z * z \in Int
      BY <2>10
    <2>16. Good(s)
      BY <2>12, <2>13, <2>14, <2>15
    <2> QED BY <2>2, <2>16
  <1>4. Good(S)
    BY <1>3
  <1>5. SumOf(g, S) = F[S] /\ SumOf(h, S) = G[S]
    BY <1>1, <1>2, SumIs
  <1> QED BY <1>4, <1>5

(***************************************************************************)
(* A set of subsets with the empty one, and with each every larger by one  *)
(* element, has the whole set.                                             *)
(***************************************************************************)
LEMMA SubsetsGrow ==
    ASSUME NEW S, IsFiniteSet(S), NEW T, {} \in T,
           \A s \in SUBSET S : \A x \in S \ s : s \in T => s \union {x} \in T
    PROVE  S \in T
  <1> DEFINE U == {s \in SUBSET S : s \notin T}
  <1> SUFFICES ASSUME U # {} PROVE FALSE
    OBVIOUS
  <1>1. PICK s \in U : \A u \in U : u \subseteq s => u = s
    <2>1. U \subseteq SUBSET S
      OBVIOUS
    <2> HIDE DEF U
    <2> QED BY <2>1, SmallestSubset
  <1>2. s \subseteq S /\ s \notin T
    OBVIOUS
  <1>3. PICK x \in s : TRUE
    BY <1>2
  <1>4. s \ {x} \in T
    <2>1. s \ {x} \notin U
      BY <1>1, <1>3
    <2> QED BY <1>2, <2>1
  <1>5. (s \ {x}) \union {x} = s /\ s \ {x} \in SUBSET S /\ x \in S \ (s \ {x})
    BY <1>2, <1>3
  <1>6. s \in T
    BY <1>4, <1>5
  <1> QED BY <1>2, <1>6

\* Nothing adds up to zero.
LEMMA SumOfNone == ASSUME NEW g PROVE SumOf(g, {}) = 0
  <1>1. IsFiniteSet({})
    BY FS_EmptySet
  <1> QED BY <1>1, SumOfZeros

(***************************************************************************)
(* Integers add up to an integer, whichever of them is added last.         *)
(***************************************************************************)
LEMMA SumRemoves ==
    ASSUME NEW S, IsFiniteSet(S), NEW g, \A x \in S : g[x] \in Int
    PROVE  /\ SumOf(g, S) \in Int
           /\ \A w \in S : SumOf(g, S) = g[w] + SumOf(g, S \ {w})
  <1>1. PICK F : Adds(F, g, S)
    BY AddsExists
  <1> DEFINE Good(s) == F[s] \in Int /\ \A w \in s : F[s] = g[w] + F[s \ {w}]
             T == {s \in SUBSET S : ~ Good(s)}
  <1>2. T = {}
    <2> SUFFICES ASSUME T # {} PROVE FALSE
      OBVIOUS
    <2>1. PICK s \in T : \A u \in T : u \subseteq s => u = s
      <3>1. T \subseteq SUBSET S
        OBVIOUS
      <3> HIDE DEF T
      <3> QED BY <3>1, SmallestSubset
    <2>2. s \subseteq S /\ ~ Good(s)
      OBVIOUS
    <2>3. \A u \in SUBSET s : u # s => Good(u)
      BY <2>1, <2>2
    <2> HIDE DEF T
    <2>4. s # {}
      BY <1>1, <2>2 DEF Adds
    <2> DEFINE x == Some(s)
    <2>5. x \in s
      BY <2>4, SomeIn
    <2>6. F[s] = g[x] + F[s \ {x}]
      BY <1>1, <2>2, <2>4 DEF Adds
    <2>7. Good(s \ {x}) /\ g[x] \in Int
      BY <2>2, <2>3, <2>5
    <2> HIDE DEF x
    <2>8. F[s] \in Int
      BY <2>6, <2>7
    <2>9. ASSUME NEW w \in s
          PROVE  F[s] = g[w] + F[s \ {w}]
      <3>1. CASE w = x
        BY <2>6, <3>1
      <3>2. CASE w # x
        <4> DEFINE r == (s \ {x}) \ {w}
        <4>1. w \in s \ {x} /\ x \in s \ {w} /\ r = (s \ {w}) \ {x} /\ w \in S
          BY <2>2, <2>5, <3>2
        <4>2. F[s \ {x}] = g[w] + F[r]
          BY <2>7, <4>1
        <4>3. Good(s \ {w})
          BY <2>3
        <4>4. F[s \ {w}] = g[x] + F[r]
          BY <4>1, <4>3
        <4>5. Good(r)
          BY <2>3, <2>5
        <4>6. F[r] \in Int /\ g[w] \in Int
          BY <4>1, <4>5
        <4> HIDE DEF r
        <4> QED BY <2>6, <2>7, <4>2, <4>4, <4>6
      <3> QED BY <3>1, <3>2
    <2> QED BY <2>2, <2>8, <2>9
  <1>3. Good(S)
    BY <1>2
  <1>4. SumOf(g, S) = F[S]
    BY <1>1, SumIs
  <1>5. ASSUME NEW w \in S
        PROVE  SumOf(g, S \ {w}) = F[S \ {w}]
    <2>1. IsFiniteSet(S \ {w})
      BY FS_Subset
    <2>2. PICK G : Adds(G, g, S \ {w})
      BY <2>1, AddsExists
    <2>3. SumOf(g, S \ {w}) = G[S \ {w}]
      BY <2>1, <2>2, SumIs
    <2>4. S \in SUBSET S /\ S \ {w} \in SUBSET S /\ S \ {w} \in SUBSET (S \intersect (S \ {w}))
      OBVIOUS
    <2>5. F[S \ {w}] = G[S \ {w}]
      BY <1>1, <2>2, <2>4, AddsAgree
    <2> QED BY <2>3, <2>5
  <1> QED BY <1>3, <1>4, <1>5

\* One more element adds its value.
LEMMA SumGrows ==
    ASSUME NEW S, IsFiniteSet(S), NEW w, w \notin S, NEW g,
           g[w] \in Int, \A x \in S : g[x] \in Int
    PROVE  SumOf(g, S \union {w}) = g[w] + SumOf(g, S)
  <1> DEFINE T == S \union {w}
  <1>1. IsFiniteSet(T) /\ w \in T /\ T \ {w} = S /\ \A x \in T : g[x] \in Int
    BY FS_AddElement
  <1> HIDE DEF T
  <1>2. SumOf(g, T) = g[w] + SumOf(g, T \ {w})
    BY <1>1, SumRemoves
  <1> QED BY <1>1, <1>2 DEF T

(***************************************************************************)
(* The same values have the same sum, sums add up and are multiplied.      *)
(***************************************************************************)
LEMMA SumLinear ==
    ASSUME NEW S, IsFiniteSet(S), NEW g, NEW h, NEW k, NEW c \in Int,
           \A x \in S : g[x] \in Int /\ h[x] \in Int /\ k[x] = c * g[x] + h[x]
    PROVE  SumOf(k, S) = c * SumOf(g, S) + SumOf(h, S)
  <1> DEFINE T == {s \in SUBSET S : SumOf(k, s) = c * SumOf(g, s) + SumOf(h, s)}
  <1>1. {} \in T
    BY SumOfNone
  <1>2. ASSUME NEW s \in SUBSET S, NEW x \in S \ s, s \in T
        PROVE  s \union {x} \in T
    <2>1. IsFiniteSet(s)
      BY FS_Subset
    <2>2. SumOf(k, s) = c * SumOf(g, s) + SumOf(h, s)
      BY <1>2
    <2>3. \A y \in s \union {x} : /\ g[y] \in Int /\ h[y] \in Int /\ k[y] \in Int
                                  /\ k[y] = c * g[y] + h[y]
      OBVIOUS
    <2> HIDE DEF T
    <2>4. /\ SumOf(k, s \union {x}) = k[x] + SumOf(k, s)
          /\ SumOf(g, s \union {x}) = g[x] + SumOf(g, s)
          /\ SumOf(h, s \union {x}) = h[x] + SumOf(h, s)
      BY <2>1, <2>3, SumGrows
    <2>5. SumOf(g, s) \in Int /\ SumOf(h, s) \in Int
      BY <2>1, <2>3, SumRemoves
    <2>6. k[x] = c * g[x] + h[x] /\ g[x] \in Int /\ h[x] \in Int
      BY <2>3
    <2>7. PICK a, b, e, f : a = g[x] /\ b = h[x] /\ e = SumOf(g, s) /\ f = SumOf(h, s)
      OBVIOUS
    <2>8. a \in Int /\ b \in Int /\ e \in Int /\ f \in Int
      BY <2>5, <2>6, <2>7
    <2>9. (c * a + b) + (c * e + f) = c * (a + e) + (b + f)
      BY <2>8
    <2>10. SumOf(k, s \union {x}) = c * SumOf(g, s \union {x}) + SumOf(h, s \union {x})
      BY <2>2, <2>4, <2>6, <2>7, <2>9
    <2> QED BY <2>10 DEF T
  <1> HIDE DEF T
  <1>3. S \in T
    BY <1>1, <1>2, SubsetsGrow
  <1> QED BY <1>3 DEF T

LEMMA SumSame ==
    ASSUME NEW S, IsFiniteSet(S), NEW g, NEW h,
           \A x \in S : g[x] \in Int /\ h[x] = g[x]
    PROVE  SumOf(h, S) = SumOf(g, S)
  <1> DEFINE z == [x \in S |-> 0]
  <1>1. \A x \in S : g[x] \in Int /\ z[x] \in Int /\ z[x] = 0 /\ h[x] = 1 * g[x] + z[x]
    OBVIOUS
  <1> HIDE DEF z
  <1>2. SumOf(h, S) = 1 * SumOf(g, S) + SumOf(z, S)
    BY <1>1, SumLinear
  <1>3. SumOf(z, S) = 0 /\ SumOf(g, S) \in Int
    BY <1>1, SumOfZeros, SumRemoves
  <1> QED BY <1>2, <1>3

(***************************************************************************)
(* A sum is that of a part and of the rest.                                *)
(***************************************************************************)
LEMMA SumSplits ==
    ASSUME NEW S, IsFiniteSet(S), NEW g, \A x \in S : g[x] \in Int, NEW A \in SUBSET S
    PROVE  /\ SumOf(g, S) = SumOf(g, A) + SumOf(g, S \ A)
           /\ SumOf(g, A) \in Int /\ SumOf(g, S \ A) \in Int
  <1> DEFINE T == {s \in SUBSET S : SumOf(g, s) = SumOf(g, s \intersect A) + SumOf(g, s \ A)}
  <1>1. {} \in T
    <2>1. {} \intersect A = {} /\ {} \ A = {}
      OBVIOUS
    <2> QED BY <2>1, SumOfNone
  <1>2. ASSUME NEW s \in SUBSET S, NEW x \in S \ s, s \in T
        PROVE  s \union {x} \in T
    <2>1. /\ IsFiniteSet(s) /\ IsFiniteSet(s \intersect A) /\ IsFiniteSet(s \ A)
          /\ \A y \in s \union {x} : g[y] \in Int
      BY FS_Subset
    <2>2. SumOf(g, s) = SumOf(g, s \intersect A) + SumOf(g, s \ A)
      BY <1>2
    <2> HIDE DEF T
    <2>3. SumOf(g, s \union {x}) = g[x] + SumOf(g, s)
      BY <2>1, SumGrows
    <2>4. /\ SumOf(g, s \intersect A) \in Int /\ SumOf(g, s \ A) \in Int
          /\ g[x] \in Int
      BY <2>1, SumRemoves
    <2>5. CASE x \in A
      <3> DEFINE u == s \union {x}
      <3>1. u \intersect A = (s \intersect A) \union {x} /\ u \ A = s \ A /\ x \notin s \intersect A
        BY <2>5
      <3>2. SumOf(g, (s \intersect A) \union {x}) = g[x] + SumOf(g, s \intersect A)
        BY <2>1, <3>1, SumGrows
      <3>3. u \in SUBSET S
        OBVIOUS
      <3> HIDE DEF u
      <3>4. SumOf(g, u \intersect A) = g[x] + SumOf(g, s \intersect A) /\ SumOf(g, u \ A) = SumOf(g, s \ A)
        BY <3>1, <3>2
      <3>5. SumOf(g, u) = g[x] + SumOf(g, s)
        BY <2>3 DEF u
      <3>6. SumOf(g, u) = SumOf(g, u \intersect A) + SumOf(g, u \ A)
        BY <2>2, <2>4, <3>4, <3>5
      <3>7. u \in T
        BY <3>3, <3>6 DEF T
      <3> QED BY <3>7 DEF u
    <2>6. CASE x \notin A
      <3> DEFINE u == s \union {x}
      <3>1. u \ A = (s \ A) \union {x} /\ u \intersect A = s \intersect A /\ x \notin s \ A
        BY <2>6
      <3>2. SumOf(g, (s \ A) \union {x}) = g[x] + SumOf(g, s \ A)
        BY <2>1, <3>1, SumGrows
      <3>3. u \in SUBSET S
        OBVIOUS
      <3> HIDE DEF u
      <3>4. SumOf(g, u \ A) = g[x] + SumOf(g, s \ A) /\ SumOf(g, u \intersect A) = SumOf(g, s \intersect A)
        BY <3>1, <3>2
      <3>5. SumOf(g, u) = g[x] + SumOf(g, s)
        BY <2>3 DEF u
      <3>6. SumOf(g, u) = SumOf(g, u \intersect A) + SumOf(g, u \ A)
        BY <2>2, <2>4, <3>4, <3>5
      <3>7. u \in T
        BY <3>3, <3>6 DEF T
      <3> QED BY <3>7 DEF u
    <2> QED BY <2>5, <2>6
  <1> HIDE DEF T
  <1>3. S \in T
    BY <1>1, <1>2, SubsetsGrow
  <1>4. S \intersect A = A
    OBVIOUS
  <1>5. IsFiniteSet(A) /\ IsFiniteSet(S \ A)
    BY FS_Subset
  <1>6. SumOf(g, A) \in Int /\ SumOf(g, S \ A) \in Int
    BY <1>5, SumRemoves
  <1> QED BY <1>3, <1>4, <1>6 DEF T

\* What is zero may be left out.
LEMMA SumSkips ==
    ASSUME NEW S, IsFiniteSet(S), NEW g, \A x \in S : g[x] \in Int,
           NEW A \in SUBSET S, \A x \in S \ A : g[x] = 0
    PROVE  SumOf(g, S) = SumOf(g, A)
  <1>1. SumOf(g, S) = SumOf(g, A) + SumOf(g, S \ A) /\ SumOf(g, A) \in Int
    BY SumSplits
  <1>2. IsFiniteSet(S \ A)
    BY FS_Subset
  <1>3. SumOf(g, S \ A) = 0
    BY <1>2, SumOfZeros
  <1> QED BY <1>1, <1>3

\* One value alone.
LEMMA SumOfOne ==
    ASSUME NEW x, NEW g, g[x] \in Int
    PROVE  SumOf(g, {x}) = g[x]
  <1>1. IsFiniteSet({}) /\ x \notin {} /\ {} \union {x} = {x}
    BY FS_EmptySet
  <1>2. SumOf(g, {} \union {x}) = g[x] + SumOf(g, {})
    BY <1>1, SumGrows
  <1> QED BY <1>1, <1>2, SumOfNone

\* What has one key.
Share(S, key, k) == {x \in S : key[x] = k}

(***************************************************************************)
(* A sum is that of its parts: what has one key is added up first, and     *)
(* then the sums by key.                                                   *)
(***************************************************************************)
LEMMA SumOfParts ==
    ASSUME NEW S, IsFiniteSet(S), NEW g, \A x \in S : g[x] \in Int,
           NEW K, IsFiniteSet(K), NEW key, \A x \in S : key[x] \in K,
           NEW h, \A k \in K : h[k] = SumOf(g, Share(S, key, k))
    PROVE  SumOf(g, S) = SumOf(h, K) /\ \A k \in K : h[k] \in Int
  <1> DEFINE in(s) == {x \in S : key[x] \in s}
             T == {s \in SUBSET K : SumOf(g, in(s)) = SumOf(h, s)}
  <1>0. ASSUME NEW k \in K PROVE h[k] \in Int
    <2>1. IsFiniteSet(Share(S, key, k)) /\ \A x \in Share(S, key, k) : g[x] \in Int
      BY FS_Subset DEF Share
    <2>2. SumOf(g, Share(S, key, k)) \in Int
      BY <2>1, SumRemoves
    <2> QED BY <2>2
  <1>1. {} \in T
    <2>1. in({}) = {}
      OBVIOUS
    <2> QED BY <2>1, SumOfNone
  <1>2. ASSUME NEW s \in SUBSET K, NEW k \in K \ s, s \in T
        PROVE  s \union {k} \in T
    <2> DEFINE A == in(s)
               B == in(s \union {k})
    <2>1. /\ IsFiniteSet(B) /\ A \in SUBSET B /\ B \ A = Share(S, key, k)
          /\ \A x \in B : g[x] \in Int
      BY FS_Subset DEF Share
    <2>2. SumOf(g, A) = SumOf(h, s)
      BY <1>2
    <2> HIDE DEF A, B, T
    <2>3. SumOf(g, B) = SumOf(g, A) + SumOf(g, B \ A) /\ SumOf(g, A) \in Int
      BY <2>1, SumSplits
    <2>4. SumOf(g, B \ A) = h[k]
      BY <2>1
    <2>5. IsFiniteSet(s) /\ \A x \in s \union {k} : h[x] \in Int
      BY <1>0, FS_Subset
    <2>6. SumOf(h, s \union {k}) = h[k] + SumOf(h, s)
      BY <2>5, SumGrows
    <2>7. SumOf(g, B) = SumOf(h, s \union {k})
      BY <2>2, <2>3, <2>4, <2>5, <2>6
    <2> QED BY <2>7 DEF T, B
  <1>3. in(K) = S
    OBVIOUS
  <1> HIDE DEF T
  <1>4. K \in T
    BY <1>1, <1>2, SubsetsGrow
  <1> QED BY <1>0, <1>3, <1>4 DEF T

\* The values are those of other elements, one for one.
LEMMA SumRenames ==
    ASSUME NEW S, IsFiniteSet(S), NEW g, \A x \in S : g[x] \in Int,
           NEW K, NEW key, K = {key[x] : x \in S},
           \A x, y \in S : key[x] = key[y] => x = y,
           NEW h, \A x \in S : h[key[x]] = g[x]
    PROVE  SumOf(g, S) = SumOf(h, K) /\ IsFiniteSet(K) /\ Cardinality(K) = Cardinality(S)
  <1> DEFINE f == [x \in S |-> key[x]]
  <1>1. f \in Surjection(S, K) /\ f \in Bijection(S, K)
    <2>1. f \in [S -> K] /\ \A x \in S : f[x] = key[x]
      OBVIOUS
    <2> HIDE DEF f
    <2>2. \A k \in K : \E x \in S : f[x] = k
      BY <2>1
    <2>3. \A x, y \in S : f[x] = f[y] => x = y
      BY <2>1
    <2>4. f \in Surjection(S, K)
      BY <2>1, <2>2 DEF Surjection
    <2>5. f \in Injection(S, K)
      BY <2>1, <2>3 DEF Injection, IsInjective
    <2> QED BY <2>4, <2>5 DEF Bijection
  <1> HIDE DEF f
  <1>2. IsFiniteSet(K) /\ Cardinality(K) = Cardinality(S)
    <2>1. ExistsBijection(S, K)
      BY <1>1 DEF ExistsBijection
    <2>2. IsFiniteSet(K)
      BY <1>1, FS_Surjection
    <2> QED BY <2>1, <2>2, FS_Bijection
  <1>3. ASSUME NEW k \in K
        PROVE  h[k] = SumOf(g, Share(S, key, k))
    <2>1. PICK x \in S : k = key[x]
      OBVIOUS
    <2>2. Share(S, key, k) = {x}
      BY <2>1 DEF Share
    <2>3. SumOf(g, {x}) = g[x]
      BY SumOfOne
    <2> QED BY <2>1, <2>2, <2>3
  <1>4. \A x \in S : key[x] \in K
    OBVIOUS
  <1>5. SumOf(g, S) = SumOf(h, K)
    <2>1. \A k \in K : h[k] = SumOf(g, Share(S, key, k))
      BY <1>3
    <2> HIDE DEF f
    <2> QED BY <1>2, <1>4, <2>1, SumOfParts
  <1> QED BY <1>2, <1>5

\* Ones count.
LEMMA SumOfOnes ==
    ASSUME NEW S, IsFiniteSet(S), NEW g, \A x \in S : g[x] = 1
    PROVE  SumOf(g, S) = Cardinality(S)
  <1> DEFINE T == {s \in SUBSET S : SumOf(g, s) = Cardinality(s)}
  <1>1. {} \in T
    BY SumOfNone, FS_EmptySet
  <1>2. ASSUME NEW s \in SUBSET S, NEW x \in S \ s, s \in T
        PROVE  s \union {x} \in T
    <2>1. IsFiniteSet(s) /\ \A y \in s \union {x} : g[y] \in Int
      BY FS_Subset
    <2>2. SumOf(g, s) = Cardinality(s)
      BY <1>2
    <2> HIDE DEF T
    <2>3. SumOf(g, s \union {x}) = g[x] + SumOf(g, s)
      BY <2>1, SumGrows
    <2>4. Cardinality(s \union {x}) = Cardinality(s) + 1 /\ Cardinality(s) \in Nat
      BY <2>1, FS_AddElement, FS_CardinalityType
    <2> QED BY <2>2, <2>3, <2>4 DEF T
  <1> HIDE DEF T
  <1>3. S \in T
    BY <1>1, <1>2, SubsetsGrow
  <1> QED BY <1>3 DEF T

(***************************************************************************)
(* The sum of what four values come to at four prices.                     *)
(***************************************************************************)
LEMMA SumAtPrices ==
    ASSUME NEW S, IsFiniteSet(S), NEW a, NEW b, NEW c, NEW d,
           \A x \in S : a[x] \in Int /\ b[x] \in Int /\ c[x] \in Int /\ d[x] \in Int,
           NEW p \in Int, NEW q \in Int, NEW r \in Int, NEW s \in Int,
           NEW g, \A x \in S : g[x] = p * a[x] + q * b[x] + r * c[x] + s * d[x]
    PROVE  SumOf(g, S) = p * SumOf(a, S) + q * SumOf(b, S) + r * SumOf(c, S) + s * SumOf(d, S)
  <1> DEFINE z  == [x \in S |-> 0]
             h4 == [x \in S |-> s * d[x] + z[x]]
             h3 == [x \in S |-> r * c[x] + h4[x]]
             h2 == [x \in S |-> q * b[x] + h3[x]]
  <1>1. \A x \in S : z[x] = 0 /\ z[x] \in Int
    OBVIOUS
  <1>2. \A x \in S : h4[x] = s * d[x] + z[x] /\ h4[x] \in Int
    OBVIOUS
  <1> HIDE DEF z, h4
  <1>3. \A x \in S : h3[x] = r * c[x] + h4[x] /\ h3[x] \in Int
    BY <1>2
  <1> HIDE DEF h3
  <1>4. \A x \in S : h2[x] = q * b[x] + h3[x] /\ h2[x] \in Int
    BY <1>3
  <1> HIDE DEF h2
  <1>5. ASSUME NEW x \in S
        PROVE  g[x] = p * a[x] + h2[x]
    <2>1. PICK i, j, k, l \in Int : i = p * a[x] /\ j = q * b[x] /\ k = r * c[x] /\ l = s * d[x]
      OBVIOUS
    <2>2. h4[x] = l /\ h3[x] = k + h4[x] /\ h2[x] = j + h3[x]
      BY <1>1, <1>2, <1>3, <1>4, <2>1
    <2>3. g[x] = i + j + k + l
      BY <2>1
    <2> QED BY <2>1, <2>2, <2>3
  <1>6. SumOf(h4, S) = s * SumOf(d, S) + SumOf(z, S) /\ SumOf(z, S) = 0
    BY <1>1, <1>2, SumLinear, SumOfZeros
  <1>7. SumOf(h3, S) = r * SumOf(c, S) + SumOf(h4, S)
    BY <1>2, <1>3, SumLinear
  <1>8. SumOf(h2, S) = q * SumOf(b, S) + SumOf(h3, S)
    BY <1>3, <1>4, SumLinear
  <1>9. SumOf(g, S) = p * SumOf(a, S) + SumOf(h2, S)
    BY <1>4, <1>5, SumLinear
  <1>10. /\ SumOf(a, S) \in Int /\ SumOf(b, S) \in Int
         /\ SumOf(c, S) \in Int /\ SumOf(d, S) \in Int
    BY SumRemoves
  <1>11. PICK i, j, k, l \in Int : /\ i = p * SumOf(a, S) /\ j = q * SumOf(b, S)
                                  /\ k = r * SumOf(c, S) /\ l = s * SumOf(d, S)
    BY <1>10
  <1>12. SumOf(g, S) = i + (j + (k + l))
    BY <1>6, <1>7, <1>8, <1>9, <1>11
  <1> QED BY <1>11, <1>12

=============================================================================
