----------------------------- MODULE Induction ------------------------------
(***************************************************************************)
(* Lemmas about the least and the greatest element of a set of natural     *)
(* numbers, for the searches and scans of the engine, and the inductions   *)
(* that follow from them.  A statement that is proved by induction is      *)
(* given as the set of the numbers, or sets, that it holds for: so the     *)
(* lemmas have no operator as a parameter.  Then what they say of the      *)
(* operators of the community modules that are defined by recursion.       *)
(***************************************************************************)
EXTENDS Integers, FiniteSetsExt, SequencesExt, FiniteSetTheorems, SequenceTheorems,
        WellFoundedInduction, TLAPS

\* A set of natural numbers has a least element.
LEMMA LeastNatural ==
  ASSUME NEW T \in SUBSET Nat, T # {}
  PROVE  \E n \in T : \A m \in T : n <= m
<1> DEFINE R == OpToRel(<, Nat)
<1>1. IsWellFoundedOn(R, Nat)
  BY NatLessThanWellFounded
<1>2. \A x, y \in Nat : <<y, x>> \in R <=> y < x
  BY DEF OpToRel
<1> HIDE DEF R
<1>3. PICK n \in T : \A y \in T : <<y, n>> \notin R
  BY <1>1, WFMin
<1>4. \A m \in T : n \in Nat /\ m \in Nat /\ ~(m < n)
  BY <1>2, <1>3
<1> QED BY <1>4

\* A bounded set of natural numbers has a greatest element: the one at the least
\* distance from the bound.
LEMMA GreatestNatural ==
  ASSUME NEW b \in Nat, NEW T \in SUBSET (0 .. b), T # {}
  PROVE  /\ \E n \in T : \A m \in T : m <= n
         /\ Max(T) \in T
         /\ \A m \in T : m <= Max(T)
<1> DEFINE Distances == {d \in 0 .. b : b - d \in T}
<1>1. Distances \in SUBSET Nat /\ Distances # {}
  <2>1. PICK m \in T : TRUE
    OBVIOUS
  <2>2. b - m \in 0 .. b /\ b - (b - m) = m
    BY <2>1
  <2>3. b - m \in Distances
    BY <2>1, <2>2
  <2>4. Distances \in SUBSET Nat
    OBVIOUS
  <2> QED BY <2>3, <2>4
<1>2. PICK d \in Distances : \A c \in Distances : d <= c
  BY <1>1, LeastNatural
<1>3. ASSUME NEW m \in T PROVE m <= b - d
  <2>1. b - m \in 0 .. b /\ b - (b - m) = m
    OBVIOUS
  <2>2. b - m \in Distances
    BY <2>1
  <2>3. d <= b - m
    BY <1>2, <2>2
  <2> QED BY <1>2, <2>3
<1>4. b - d \in T
  BY <1>2
<1>5. \E n \in T : \A m \in T : m <= n
  BY <1>3, <1>4
<1>6. \E n \in T : \A m \in T : n >= m
  BY <1>5
<1>7. Max(T) \in T /\ \A m \in T : Max(T) >= m
  BY <1>6 DEF Max
<1> QED BY <1>5, <1>7

-----------------------------------------------------------------------------
\* What holds for a number whenever it holds for all smaller ones holds for all.
LEMMA CompleteInduction ==
  ASSUME NEW T, \A n \in Nat : (\A m \in Nat : m < n => m \in T) => n \in T
  PROVE  \A n \in Nat : n \in T
<1> DEFINE Others == Nat \ T
<1>1. SUFFICES ASSUME Others # {} PROVE FALSE
  OBVIOUS
<1>2. PICK n \in Others : \A m \in Others : n <= m
  BY <1>1, LeastNatural
<1>3. \A m \in Nat : m < n => m \in T
  <2>1. ASSUME NEW m \in Nat, m < n, m \notin T PROVE FALSE
    <3>1. n <= m
      BY <1>2, <2>1
    <3> QED BY <2>1, <3>1
  <2> QED BY <2>1
<1> QED BY <1>2, <1>3

\* What holds for 0, and with a number for the next one, holds for all.
LEMMA SimpleInduction ==
  ASSUME NEW T, 0 \in T, \A n \in Nat : n \in T => n + 1 \in T
  PROVE  \A n \in Nat : n \in T
<1>1. ASSUME NEW n \in Nat, \A m \in Nat : m < n => m \in T PROVE n \in T
  <2>1. CASE n = 0
    BY <2>1
  <2>2. CASE n # 0
    <3>1. n - 1 \in Nat /\ n - 1 < n /\ (n - 1) + 1 = n
      BY <2>2
    <3>2. n - 1 \in T
      BY <1>1, <3>1
    <3> QED BY <3>1, <3>2
  <2> QED BY <2>1, <2>2
<1> QED BY <1>1, CompleteInduction

\* What holds for the empty set, and stays true when an element is added, holds
\* for every finite set.
LEMMA FiniteInduction ==
  ASSUME NEW S, IsFiniteSet(S), NEW F, {} \in F,
         \A T \in SUBSET S, x \in S : T \in F /\ x \notin T => T \cup {x} \in F
  PROVE  S \in F
<1> DEFINE Sizes == {n \in Nat : \A T \in SUBSET S : Cardinality(T) = n => T \in F}
<1>1. \A T \in SUBSET S : IsFiniteSet(T) /\ Cardinality(T) \in Nat
  BY FS_Subset, FS_CardinalityType
<1>2. 0 \in Sizes
  BY <1>1, FS_EmptySet
<1>3. ASSUME NEW n \in Nat, n \in Sizes PROVE n + 1 \in Sizes
  <2> SUFFICES ASSUME NEW T \in SUBSET S, Cardinality(T) = n + 1 PROVE T \in F
    OBVIOUS
  <2>1. T # {}
    <3>1. n + 1 # 0
      OBVIOUS
    <3> QED BY <3>1, FS_EmptySet
  <2>2. PICK x \in T : TRUE
    BY <2>1
  <2>3. Cardinality(T \ {x}) = n
    <3>1. IsFiniteSet(T) /\ Cardinality(T) = n + 1 /\ x \in T
      BY <1>1, <2>2
    <3>2. Cardinality(T \ {x}) = IF x \in T THEN Cardinality(T) - 1 ELSE Cardinality(T)
      BY <3>1, FS_RemoveElement
    <3> QED BY <3>1, <3>2
  <2>4. T \ {x} \in F /\ T \ {x} \in SUBSET S /\ x \notin T \ {x} /\ x \in S
    BY <1>3, <2>2, <2>3
  <2>5. (T \ {x}) \cup {x} = T
    BY <2>2
  <2> HIDE DEF Sizes
  <2>6. (T \ {x}) \cup {x} \in F
    BY <2>4
  <2> QED BY <2>5, <2>6
<1> HIDE DEF Sizes
<1>4. \A n \in Nat : n \in Sizes
  BY <1>2, <1>3, SimpleInduction
<1>5. Cardinality(S) \in Sizes
  BY <1>1, <1>4
<1> QED BY <1>5 DEF Sizes

\* What holds for a set whenever it holds with each of its elements left out holds
\* for every finite set.
LEMMA RemovalInduction ==
  ASSUME NEW S, IsFiniteSet(S), NEW F,
         \A T \in SUBSET S : (\A x \in T : T \ {x} \in F) => T \in F
  PROVE  \A T \in SUBSET S : T \in F
<1> DEFINE Sizes == {n \in Nat : \A T \in SUBSET S : Cardinality(T) = n => T \in F}
<1>1. \A T \in SUBSET S : IsFiniteSet(T) /\ Cardinality(T) \in Nat
  BY FS_Subset, FS_CardinalityType
<1>2. ASSUME NEW T \in SUBSET S, NEW x \in T
      PROVE  Cardinality(T) # 0 /\ Cardinality(T \ {x}) = Cardinality(T) - 1
  <2>1. IsFiniteSet(T) /\ x \in T /\ T # {}
    BY <1>1
  <2>2. Cardinality(T \ {x}) = IF x \in T THEN Cardinality(T) - 1 ELSE Cardinality(T)
    BY <2>1, FS_RemoveElement
  <2> QED BY <2>1, <2>2, FS_EmptySet
<1>3. 0 \in Sizes
  <2> SUFFICES ASSUME NEW T \in SUBSET S, Cardinality(T) = 0 PROVE T \in F
    OBVIOUS
  <2>1. \A x \in T : T \ {x} \in F
    BY <1>2
  <2> QED BY <2>1
<1>4. ASSUME NEW n \in Nat, n \in Sizes PROVE n + 1 \in Sizes
  <2> SUFFICES ASSUME NEW T \in SUBSET S, Cardinality(T) = n + 1 PROVE T \in F
    OBVIOUS
  <2>1. ASSUME NEW x \in T PROVE T \ {x} \in F
    <3>1. Cardinality(T \ {x}) = n
      BY <1>2
    <3> QED BY <1>4, <3>1
  <2> QED BY <2>1
<1> HIDE DEF Sizes
<1>5. \A n \in Nat : n \in Sizes
  BY <1>3, <1>4, SimpleInduction
<1> QED BY <1>1, <1>5 DEF Sizes

\* A function has finitely many values on a finite set, and as many as the set has
\* elements if no two of them share one.
LEMMA ImageFacts ==
  ASSUME NEW S, IsFiniteSet(S), NEW f
  PROVE  /\ IsFiniteSet({f[x] : x \in S})
         /\ (\A x, y \in S : f[x] = f[y] => x = y) => Cardinality({f[x] : x \in S}) = Cardinality(S)
<1> DEFINE T == {f[x] : x \in S}
           g == [x \in S |-> f[x]]
<1>1. g \in Surjection(S, T)
  BY DEF Surjection
<1>2. (\A x, y \in S : f[x] = f[y] => x = y) => g \in Injection(S, T)
  BY DEF Injection, IsInjective
<1> HIDE DEF g, T
<1>3. IsFiniteSet(T) /\ (Cardinality(T) = Cardinality(S) <=> g \in Injection(S, T))
  BY <1>1, FS_Surjection
<1> QED BY <1>2, <1>3 DEF T

-----------------------------------------------------------------------------
\* g adds the values of f up, on every subset of S.
Sums(g, f, S) ==
  g = [s \in SUBSET S |-> IF s = {} THEN 0
                          ELSE LET x == CHOOSE y \in s : TRUE IN f[x] + g[s \ {x}]]

\* There is such a function, and SumFunctionOnSet is its last value.
LEMMA SumExists ==
  ASSUME NEW S, IsFiniteSet(S), NEW f
  PROVE  \E g : Sums(g, f, S) /\ SumFunctionOnSet(f, S) = g[S]
<1> DEFINE Body(g, s) == IF s = {} THEN 0
                         ELSE LET x == CHOOSE y \in s : TRUE IN f[x] + g[s \ {x}]
           Small(n) == {s \in SUBSET S : Cardinality(s) <= n}
           Sizes == {n \in Nat : \E g : g = [s \in Small(n) |-> Body(g, s)]}
           sum == CHOOSE g : g = [s \in SUBSET S |-> Body(g, s)]
<1>1. SumFunctionOnSet(f, S) = sum[S]
  BY DEF SumFunctionOnSet, FoldFunctionOnSet, MapThenFoldSet
<1>2. \A s \in SUBSET S : IsFiniteSet(s) /\ Cardinality(s) \in Nat
  BY FS_Subset, FS_CardinalityType
<1>3. ASSUME NEW s \in SUBSET S, s # {}, NEW x, x = CHOOSE y \in s : TRUE
      PROVE  s \ {x} \in SUBSET S /\ Cardinality(s \ {x}) = Cardinality(s) - 1
  <2>1. IsFiniteSet(s) /\ x \in s
    BY <1>2, <1>3
  <2>2. Cardinality(s \ {x}) = IF x \in s THEN Cardinality(s) - 1 ELSE Cardinality(s)
    BY <2>1, FS_RemoveElement
  <2> QED BY <2>1, <2>2
<1>4. 0 \in Sizes
  <2> DEFINE g == [s \in Small(0) |-> 0]
  <2>1. ASSUME NEW s \in Small(0) PROVE s = {}
    <3>1. IsFiniteSet(s) /\ Cardinality(s) = 0
      BY <1>2
    <3> QED BY <3>1, FS_EmptySet
  <2>2. \A s \in Small(0) : Body(g, s) = 0
    BY <2>1
  <2> HIDE DEF Body, Small
  <2>3. g = [s \in Small(0) |-> Body(g, s)]
    BY <2>2
  <2> HIDE DEF g
  <2> QED BY <2>3
<1>5. ASSUME NEW n \in Nat, n \in Sizes PROVE n + 1 \in Sizes
  <2>1. PICK g : g = [s \in Small(n) |-> Body(g, s)]
    BY <1>5
  <2> DEFINE h == [s \in Small(n + 1) |-> Body(g, s)]
  <2>2. ASSUME NEW s \in Small(n + 1) PROVE Body(h, s) = Body(g, s)
    <3>1. CASE s = {}
      BY <3>1
    <3>2. CASE s # {}
      <4> DEFINE x == CHOOSE x \in s : TRUE
                 t == s \ {x}
      <4>1. t \in Small(n) /\ t \in Small(n + 1)
        <5>1. s \in SUBSET S /\ Cardinality(s) \in Nat /\ Cardinality(s) <= n + 1
          BY <1>2
        <5>2. t \in SUBSET S /\ Cardinality(t) = Cardinality(s) - 1
          BY <1>3, <3>2, <5>1
        <5> HIDE DEF t
        <5> QED BY <5>1, <5>2
      <4>2. /\ Body(h, s) = f[x] + h[t]
            /\ Body(g, s) = f[x] + g[t]
        BY <3>2
      <4> HIDE DEF t, Body, Small
      <4>3. h[t] = Body(g, t)
        BY <4>1
      <4>4. g[t] = Body(g, t)
        BY <2>1, <4>1
      <4> HIDE DEF h, x
      <4> QED BY <4>2, <4>3, <4>4
    <3> QED BY <3>1, <3>2
  <2> HIDE DEF Body, Small
  <2>3. h = [s \in Small(n + 1) |-> Body(h, s)]
    BY <2>2
  <2> HIDE DEF h
  <2> QED BY <2>3
<1>6. \A n \in Nat : n \in Sizes
  <2> HIDE DEF Sizes
  <2> QED BY <1>4, <1>5, SimpleInduction
<1>7. Small(Cardinality(S)) = SUBSET S /\ Cardinality(S) \in Nat
  <2>1. \A s \in SUBSET S : Cardinality(s) <= Cardinality(S)
    BY FS_Subset
  <2> QED BY <1>2, <2>1
<1>8. \E g : g = [s \in SUBSET S |-> Body(g, s)]
  <2> HIDE DEF Body, Small
  <2> QED BY <1>6, <1>7
<1>9. sum = [s \in SUBSET S |-> Body(sum, s)]
  <2> HIDE DEF Body
  <2> QED BY <1>8
<1> HIDE DEF sum
<1>10. Sums(sum, f, S)
  BY <1>9 DEF Sums
<1> QED BY <1>1, <1>10

\* What adds up a function, on whatever set, is found for a subset alike: the sum
\* over a set depends on the values of its own elements only.
LEMMA SumUnique ==
  ASSUME NEW S, IsFiniteSet(S), NEW R, NEW f, NEW e, S \subseteq R,
         \A x \in S : e[x] = f[x],
         NEW g, Sums(g, f, S), NEW h, Sums(h, e, R)
  PROVE  \A T \in SUBSET S : g[T] = h[T]
<1> DEFINE F == {T \in SUBSET S : g[T] = h[T]}
<1>1. ASSUME NEW T \in SUBSET S, \A x \in T : T \ {x} \in F PROVE T \in F
  <2>0. T \in SUBSET R
    OBVIOUS
  <2>1. CASE T = {}
    BY <2>0, <2>1 DEF Sums
  <2>2. CASE T # {}
    <3> DEFINE x == CHOOSE x \in T : TRUE
    <3>1. x \in T
      BY <2>2
    <3>2. g[T] = f[x] + g[T \ {x}]
      BY <2>2 DEF Sums
    <3>3. h[T] = e[x] + h[T \ {x}]
      BY <2>0, <2>2 DEF Sums
    <3> HIDE DEF x
    <3> QED BY <1>1, <3>1, <3>2, <3>3
  <2> QED BY <2>1, <2>2
<1> HIDE DEF F
<1>2. \A T \in SUBSET S : T \in F
  BY <1>1, RemovalInduction
<1> QED BY <1>2 DEF F

\* The sum over a set is that of any element and of the others.
LEMMA SumFacts ==
  ASSUME NEW S, IsFiniteSet(S), NEW f, \A x \in S : f[x] \in Nat
  PROVE  /\ SumFunctionOnSet(f, S) \in Nat
         /\ SumFunctionOnSet(f, {}) = 0
         /\ \A x \in S : SumFunctionOnSet(f, S) = f[x] + SumFunctionOnSet(f, S \ {x})
<1>0. PICK g : Sums(g, f, S) /\ SumFunctionOnSet(f, S) = g[S]
  BY SumExists
<1>1. ASSUME NEW T \in SUBSET S PROVE SumFunctionOnSet(f, T) = g[T]
  <2>1. IsFiniteSet(T)
    BY FS_Subset
  <2>2. PICK h : Sums(h, f, T) /\ SumFunctionOnSet(f, T) = h[T]
    BY <2>1, SumExists
  <2>3. T \subseteq S /\ Sums(h, f, T) /\ Sums(g, f, S) /\ \A x \in T : f[x] = f[x]
    BY <1>0, <2>2
  <2>4. \A U \in SUBSET T : h[U] = g[U]
    BY <2>1, <2>3, SumUnique
  <2>5. h[T] = g[T]
    BY <2>4
  <2> QED BY <2>2, <2>5
<1>2. g[{}] = 0
  BY <1>0 DEF Sums
<1>3. ASSUME NEW T \in SUBSET S, T # {}
      PROVE  \E y \in T : g[T] = f[y] + g[T \ {y}]
  <2> DEFINE y == CHOOSE x \in T : TRUE
  <2>1. y \in T
    BY <1>3
  <2>2. g[T] = f[y] + g[T \ {y}]
    BY <1>0, <1>3 DEF Sums
  <2> HIDE DEF y
  <2> QED BY <2>1, <2>2
<1> DEFINE Typed == {T \in SUBSET S : g[T] \in Nat}
<1>4. ASSUME NEW T \in SUBSET S, \A x \in T : T \ {x} \in Typed PROVE T \in Typed
  <2>1. CASE T = {}
    BY <1>2, <2>1
  <2>2. CASE T # {}
    <3>1. PICK y \in T : g[T] = f[y] + g[T \ {y}]
      BY <1>3, <2>2
    <3>2. f[y] \in Nat /\ g[T \ {y}] \in Nat
      BY <1>4
    <3> QED BY <3>1, <3>2
  <2> QED BY <2>1, <2>2
<1>5. \A T \in SUBSET S : g[T] \in Nat
  <2> HIDE DEF Typed
  <2>1. \A T \in SUBSET S : T \in Typed
    BY <1>4, RemovalInduction
  <2> QED BY <2>1 DEF Typed
<1> DEFINE F == {T \in SUBSET S : \A x \in T : g[T] = f[x] + g[T \ {x}]}
<1>6. ASSUME NEW T \in SUBSET S, \A x \in T : T \ {x} \in F PROVE T \in F
  <2>1. ASSUME NEW x \in T PROVE g[T] = f[x] + g[T \ {x}]
    <3>1. PICK y \in T : g[T] = f[y] + g[T \ {y}]
      BY <1>3
    <3>2. CASE x = y
      BY <3>1, <3>2
    <3>3. CASE x # y
      <4> DEFINE others == (T \ {y}) \ {x}
      <4>1. (T \ {x}) \ {y} = others /\ others \in SUBSET S
        OBVIOUS
      <4>2. g[T \ {y}] = f[x] + g[others]
        BY <1>6, <3>3
      <4>3. g[T \ {x}] = f[y] + g[others]
        BY <1>6, <3>3, <4>1
      <4>4. f[x] \in Nat /\ f[y] \in Nat /\ g[others] \in Nat
        BY <1>5, <4>1
      <4> HIDE DEF others
      <4> QED BY <3>1, <4>2, <4>3, <4>4
    <3> QED BY <3>2, <3>3
  <2> QED BY <2>1
<1> HIDE DEF F
<1>7. \A T \in SUBSET S : T \in F
  BY <1>6, RemovalInduction
<1>8. \A x \in S : g[S] = f[x] + g[S \ {x}]
  BY <1>7 DEF F
<1> QED BY <1>0, <1>1, <1>2, <1>5, <1>8

\* A sum is monotonic in its summands, and zero if they all are.
LEMMA SumMonotonic ==
  ASSUME NEW S, IsFiniteSet(S), NEW f, NEW e,
         \A x \in S : f[x] \in Nat /\ e[x] \in Nat /\ f[x] <= e[x]
  PROVE  SumFunctionOnSet(f, S) <= SumFunctionOnSet(e, S)
<1> DEFINE F == {T \in SUBSET S : SumFunctionOnSet(f, T) <= SumFunctionOnSet(e, T)}
<1>1. ASSUME NEW T \in SUBSET S, \A x \in T : T \ {x} \in F PROVE T \in F
  <2>1. /\ IsFiniteSet(T) /\ \A x \in T : f[x] \in Nat /\ e[x] \in Nat /\ f[x] <= e[x]
        /\ \A x \in T : IsFiniteSet(T \ {x})
    BY FS_Subset
  <2>2. CASE T = {}
    <3>1. SumFunctionOnSet(f, T) = 0 /\ SumFunctionOnSet(e, T) = 0
      BY <2>1, <2>2, SumFacts
    <3> QED BY <3>1
  <2>3. ASSUME NEW x \in T PROVE SumFunctionOnSet(f, T) <= SumFunctionOnSet(e, T)
    <3> DEFINE a == SumFunctionOnSet(f, T \ {x})
               b == SumFunctionOnSet(e, T \ {x})
    <3>1. /\ SumFunctionOnSet(f, T) = f[x] + a
          /\ SumFunctionOnSet(e, T) = e[x] + b
      BY <2>1, SumFacts
    <3>2. a \in Nat /\ b \in Nat
      <4>1. \A y \in T \ {x} : f[y] \in Nat /\ e[y] \in Nat
        BY <2>1
      <4> QED BY <2>1, <4>1, SumFacts
    <3>3. a <= b
      BY <1>1
    <3> HIDE DEF a, b
    <3> QED BY <2>1, <3>1, <3>2, <3>3
  <2> QED BY <2>2, <2>3
<1>2. \A T \in SUBSET S : T \in F
  <2> HIDE DEF F
  <2> QED BY <1>1, RemovalInduction
<1> QED BY <1>2

LEMMA SumZero ==
  ASSUME NEW S, IsFiniteSet(S), NEW f, \A x \in S : f[x] = 0
  PROVE  SumFunctionOnSet(f, S) = 0
<1> DEFINE F == {T \in SUBSET S : SumFunctionOnSet(f, T) = 0}
<1>1. ASSUME NEW T \in SUBSET S, \A x \in T : T \ {x} \in F PROVE T \in F
  <2>1. IsFiniteSet(T) /\ \A x \in T : f[x] \in Nat /\ f[x] = 0
    BY FS_Subset
  <2>2. CASE T = {}
    BY <2>1, <2>2, SumFacts
  <2>3. ASSUME NEW x \in T PROVE SumFunctionOnSet(f, T) = 0
    <3>1. SumFunctionOnSet(f, T) = f[x] + SumFunctionOnSet(f, T \ {x})
      BY <2>1, SumFacts
    <3> QED BY <1>1, <2>1, <3>1
  <2> QED BY <2>2, <2>3
<1>2. \A T \in SUBSET S : T \in F
  <2> HIDE DEF F
  <2> QED BY <1>1, RemovalInduction
<1> QED BY <1>2

\* Functions with the same values on a set have the same sum over it.
LEMMA SumSame ==
  ASSUME NEW S, IsFiniteSet(S), NEW f, NEW e, \A x \in S : e[x] = f[x]
  PROVE  SumFunctionOnSet(e, S) = SumFunctionOnSet(f, S)
<1>1. PICK g : Sums(g, f, S) /\ SumFunctionOnSet(f, S) = g[S]
  BY SumExists
<1>2. PICK h : Sums(h, e, S) /\ SumFunctionOnSet(e, S) = h[S]
  BY SumExists
<1>3. \A T \in SUBSET S : g[T] = h[T]
  BY <1>1, <1>2, SumUnique
<1> QED BY <1>1, <1>2, <1>3

\* If one summand grows by d at least, and none shrinks, so does the sum.
LEMMA SumRaised ==
  ASSUME NEW S, IsFiniteSet(S), NEW f, NEW e, NEW t \in S, NEW d \in Nat,
         \A x \in S : f[x] \in Nat /\ e[x] \in Nat /\ f[x] <= e[x],
         f[t] + d <= e[t]
  PROVE  /\ SumFunctionOnSet(f, S) \in Nat /\ SumFunctionOnSet(e, S) \in Nat
         /\ SumFunctionOnSet(f, S) + d <= SumFunctionOnSet(e, S)
<1> DEFINE R == S \ {t}
           a == SumFunctionOnSet(f, R)
           b == SumFunctionOnSet(e, R)
<1>1. IsFiniteSet(R) /\ \A x \in R : f[x] \in Nat /\ e[x] \in Nat /\ f[x] <= e[x]
  BY FS_Subset
<1>2. a <= b
  <2> HIDE DEF R
  <2> QED BY <1>1, SumMonotonic
<1>3. a \in Nat /\ b \in Nat
  <2> HIDE DEF R
  <2> QED BY <1>1, SumFacts
<1>4. /\ SumFunctionOnSet(f, S) = f[t] + a /\ SumFunctionOnSet(e, S) = e[t] + b
      /\ SumFunctionOnSet(f, S) \in Nat /\ SumFunctionOnSet(e, S) \in Nat
  BY SumFacts
<1> HIDE DEF a, b
<1> QED BY <1>2, <1>3, <1>4

\* A sum is at most a multiple of another if each summand is.
LEMMA SumScaled ==
  ASSUME NEW S, IsFiniteSet(S), NEW f, NEW e, NEW c \in Nat,
         \A x \in S : f[x] \in Nat /\ e[x] \in Nat /\ f[x] <= c * e[x]
  PROVE  SumFunctionOnSet(f, S) <= c * SumFunctionOnSet(e, S)
<1> DEFINE F == {T \in SUBSET S : SumFunctionOnSet(f, T) <= c * SumFunctionOnSet(e, T)}
<1>1. ASSUME NEW T \in SUBSET S, \A x \in T : T \ {x} \in F PROVE T \in F
  <2>1. /\ IsFiniteSet(T) /\ \A x \in T : f[x] \in Nat /\ e[x] \in Nat /\ f[x] <= c * e[x]
        /\ \A x \in T : IsFiniteSet(T \ {x})
    BY FS_Subset
  <2>2. CASE T = {}
    <3>1. SumFunctionOnSet(f, T) = 0 /\ SumFunctionOnSet(e, T) = 0
      BY <2>1, <2>2, SumFacts
    <3> QED BY <3>1
  <2>3. ASSUME NEW x \in T PROVE SumFunctionOnSet(f, T) <= c * SumFunctionOnSet(e, T)
    <3> DEFINE a == SumFunctionOnSet(f, T \ {x})
               b == SumFunctionOnSet(e, T \ {x})
    <3>1. /\ SumFunctionOnSet(f, T) = f[x] + a
          /\ SumFunctionOnSet(e, T) = e[x] + b
      BY <2>1, SumFacts
    <3>2. a \in Nat /\ b \in Nat
      <4>1. \A y \in T \ {x} : f[y] \in Nat /\ e[y] \in Nat
        BY <2>1
      <4> QED BY <2>1, <4>1, SumFacts
    <3>3. a <= c * b
      BY <1>1
    <3> HIDE DEF a, b
    <3>4. c * (e[x] + b) = c * e[x] + c * b /\ c * e[x] \in Nat /\ c * b \in Nat
      BY <2>1, <3>2
    <3> QED BY <2>1, <3>1, <3>2, <3>3, <3>4
  <2> QED BY <2>2, <2>3
<1>2. \A T \in SUBSET S : T \in F
  <2> HIDE DEF F
  <2> QED BY <1>1, RemovalInduction
<1> QED BY <1>2

-----------------------------------------------------------------------------
\* f strings the first sequences of ss together, up to each one.
Strings(f, ss) ==
  f = [i \in 1 .. Len(ss) |-> IF i = 1 THEN ss[i] ELSE f[i - 1] \o ss[i]]

\* There is such a function, and FlattenSeq is its last value.
LEMMA FlattenExists ==
  ASSUME NEW S, NEW ss \in Seq(Seq(S)), ss # <<>>
  PROVE  \E f \in [1 .. Len(ss) -> Seq(S)] : Strings(f, ss) /\ FlattenSeq(ss) = f[Len(ss)]
<1> DEFINE Body(f, i) == IF i = 1 THEN ss[i] ELSE f[i - 1] \o ss[i]
           Sizes == {n \in Nat : \E f : f = [i \in 1 .. n |-> Body(f, i)]}
           flatten == CHOOSE f : f = [i \in 1 .. Len(ss) |-> Body(f, i)]
<1>0. Len(ss) \in Nat \ {0} /\ \A i \in 1 .. Len(ss) : ss[i] \in Seq(S)
  BY EmptySeq, ElementOfSeq
<1>1. FlattenSeq(ss) = flatten[Len(ss)]
  BY <1>0 DEF FlattenSeq
<1>2. 0 \in Sizes
  <2> DEFINE f == [i \in 1 .. 0 |-> <<>>]
  <2>1. 1 .. 0 = {}
    OBVIOUS
  <2>2. f = [i \in 1 .. 0 |-> Body(f, i)]
    BY <2>1
  <2> HIDE DEF f, Body
  <2> QED BY <2>2
<1>3. ASSUME NEW n \in Nat, n \in Sizes PROVE n + 1 \in Sizes
  <2>1. PICK f : f = [i \in 1 .. n |-> Body(f, i)]
    BY <1>3
  <2> DEFINE h == [i \in 1 .. (n + 1) |-> Body(f, i)]
  <2>2. ASSUME NEW i \in 1 .. (n + 1) PROVE Body(h, i) = Body(f, i)
    <3>1. CASE i = 1
      BY <3>1
    <3>2. CASE i # 1
      <4>1. i - 1 \in 1 .. n /\ i - 1 \in 1 .. (n + 1)
        BY <2>2, <3>2
      <4> HIDE DEF Body
      <4>2. h[i - 1] = Body(f, i - 1)
        BY <4>1
      <4>3. f[i - 1] = Body(f, i - 1)
        BY <2>1, <4>1
      <4> HIDE DEF h
      <4> QED BY <3>2, <4>2, <4>3 DEF Body
    <3> QED BY <3>1, <3>2
  <2> HIDE DEF Body
  <2>3. h = [i \in 1 .. (n + 1) |-> Body(h, i)]
    BY <2>2
  <2> HIDE DEF h
  <2> QED BY <2>3
<1>4. \A n \in Nat : n \in Sizes
  <2> HIDE DEF Sizes
  <2> QED BY <1>2, <1>3, SimpleInduction
<1>5. flatten = [i \in 1 .. Len(ss) |-> Body(flatten, i)]
  <2>1. \E f : f = [i \in 1 .. Len(ss) |-> Body(f, i)]
    BY <1>0, <1>4
  <2> HIDE DEF Body
  <2> QED BY <2>1
<1> HIDE DEF flatten, Sizes
<1> DEFINE Typed == {n \in Nat : n + 1 \in 1 .. Len(ss) => flatten[n + 1] \in Seq(S)}
<1>6. 0 \in Typed
  BY <1>0, <1>5
<1>7. ASSUME NEW n \in Nat, n \in Typed PROVE n + 1 \in Typed
  <2> SUFFICES ASSUME (n + 1) + 1 \in 1 .. Len(ss) PROVE flatten[(n + 1) + 1] \in Seq(S)
    OBVIOUS
  <2> DEFINE m == n + 1
  <2>1. m \in 1 .. Len(ss) /\ m + 1 \in 1 .. Len(ss) /\ m + 1 # 1 /\ (m + 1) - 1 = m
    BY <1>0
  <2>2. flatten[m] \in Seq(S)
    BY <1>7, <2>1
  <2> HIDE DEF m
  <2>3. flatten[m + 1] = flatten[m] \o ss[m + 1]
    BY <1>5, <2>1
  <2>4. flatten[m + 1] \in Seq(S)
    BY <1>0, <2>1, <2>2, <2>3, ConcatProperties
  <2> QED BY <2>4 DEF m
<1>8. \A n \in Nat : n \in Typed
  <2> HIDE DEF Typed
  <2> QED BY <1>6, <1>7, SimpleInduction
<1>9. ASSUME NEW i \in 1 .. Len(ss) PROVE flatten[i] \in Seq(S)
  <2>1. i - 1 \in Nat /\ (i - 1) + 1 = i
    BY <1>0
  <2>2. i - 1 \in Typed
    BY <1>8, <2>1
  <2> QED BY <1>9, <2>1, <2>2
<1> HIDE DEF Typed
<1>10. Strings(flatten, ss)
  BY <1>5 DEF Strings
<1>11. flatten \in [1 .. Len(ss) -> Seq(S)]
  BY <1>5, <1>9
<1> QED BY <1>1, <1>10, <1>11

LEMMA FlattenNone == FlattenSeq(<<>>) = <<>>
BY EmptySeq DEF FlattenSeq

LEMMA FlattenType ==
  ASSUME NEW S, NEW ss \in Seq(Seq(S))
  PROVE  FlattenSeq(ss) \in Seq(S) /\ FlattenSeq(<<>>) = <<>>
<1>0. FlattenSeq(<<>>) = <<>>
  BY EmptySeq DEF FlattenSeq
<1>1. ASSUME ss = <<>> PROVE FlattenSeq(ss) \in Seq(S)
  <2>1. <<>> \in Seq(S)
    OBVIOUS
  <2> QED BY <1>0, <1>1, <2>1
<1>2. ASSUME ss # <<>> PROVE FlattenSeq(ss) \in Seq(S)
  <2>1. PICK f \in [1 .. Len(ss) -> Seq(S)] : FlattenSeq(ss) = f[Len(ss)]
    BY <1>2, FlattenExists
  <2>2. Len(ss) \in Nat /\ Len(ss) # 0
    BY <1>2, EmptySeq, LenProperties
  <2>3. Len(ss) \in 1 .. Len(ss)
    BY <2>2
  <2> QED BY <2>1, <2>3
<1>3. FlattenSeq(ss) \in Seq(S)
  BY <1>1, <1>2
<1> QED BY <1>0, <1>3

\* One more sequence is strung to the end of the others.
LEMMA FlattenAppend ==
  ASSUME NEW S, NEW ss \in Seq(Seq(S)), NEW s \in Seq(S)
  PROVE  FlattenSeq(Append(ss, s)) = FlattenSeq(ss) \o s
<1> DEFINE tt == Append(ss, s)
           l == Len(ss)
<1>1. /\ tt \in Seq(Seq(S)) /\ tt # <<>> /\ Len(tt) = l + 1 /\ l \in Nat
      /\ tt[l + 1] = s /\ \A i \in 1 .. l : tt[i] = ss[i]
  BY AppendProperties, LenProperties
<1> HIDE DEF tt
<1>2. PICK g \in [1 .. Len(tt) -> Seq(S)] : Strings(g, tt) /\ FlattenSeq(tt) = g[Len(tt)]
  BY <1>1, FlattenExists
<1>3. CASE ss = <<>>
  <2>1. l = 0
    BY <1>3, EmptySeq
  <2>2. FlattenSeq(tt) = s
    BY <1>1, <1>2, <2>1 DEF Strings
  <2> QED BY <1>3, <2>2, FlattenType, ConcatEmptySeq DEF tt
<1>4. CASE ss # <<>>
  <2>1. PICK f \in [1 .. l -> Seq(S)] : Strings(f, ss) /\ FlattenSeq(ss) = f[l]
    BY <1>4, FlattenExists
  <2>2. l # 0
    BY <1>4, EmptySeq
  <2> HIDE DEF l
  <2> DEFINE Same == {n \in Nat : n + 1 <= l => f[n + 1] = g[n + 1]}
  <2>3. 0 \in Same
    <3>1. ASSUME 1 <= l PROVE f[1] = g[1]
      <4>1. 1 \in 1 .. l /\ 1 \in 1 .. Len(tt)
        BY <1>1, <3>1
      <4> QED BY <1>1, <1>2, <2>1, <4>1 DEF Strings, l
    <3> QED BY <3>1
  <2>4. ASSUME NEW n \in Nat, n \in Same PROVE n + 1 \in Same
    <3> SUFFICES ASSUME (n + 1) + 1 <= l PROVE f[(n + 1) + 1] = g[(n + 1) + 1]
      OBVIOUS
    <3> DEFINE m == n + 1
    <3>1. /\ m \in 1 .. l /\ m + 1 \in 1 .. l /\ m + 1 \in 1 .. Len(tt)
          /\ m + 1 # 1 /\ (m + 1) - 1 = m
      BY <1>1
    <3>2. f[m] = g[m]
      BY <2>4, <3>1
    <3> HIDE DEF m
    <3>3. f[m + 1] = f[m] \o ss[m + 1]
      BY <2>1, <3>1 DEF Strings, l
    <3>4. g[m + 1] = g[m] \o tt[m + 1]
      BY <1>2, <3>1 DEF Strings
    <3>5. f[m + 1] = g[m + 1]
      BY <1>1, <3>1, <3>2, <3>3, <3>4
    <3> QED BY <3>5 DEF m
  <2>5. \A n \in Nat : n \in Same
    <3> HIDE DEF Same
    <3> QED BY <2>3, <2>4, SimpleInduction
  <2>6. f[l] = g[l]
    <3>1. l - 1 \in Nat /\ (l - 1) + 1 = l
      BY <1>1, <2>2
    <3>2. l - 1 \in Same
      BY <2>5, <3>1
    <3> QED BY <1>1, <3>1, <3>2
  <2>7. g[l + 1] = g[l] \o s
    <3>1. l + 1 \in 1 .. Len(tt) /\ l + 1 # 1 /\ (l + 1) - 1 = l
      BY <1>1, <2>2
    <3> QED BY <1>1, <1>2, <3>1 DEF Strings
  <2> QED BY <1>1, <1>2, <2>1, <2>6, <2>7 DEF tt
<1> QED BY <1>3, <1>4

\* A single sequence is strung to itself.
LEMMA FlattenSingle == \A s : FlattenSeq(<<s>>) = s
<1> SUFFICES ASSUME NEW s PROVE FlattenSeq(<<s>>) = s
  OBVIOUS
<1> DEFINE ss == <<s>>
           Body(f, i) == IF i = 1 THEN ss[i] ELSE f[i - 1] \o ss[i]
           flatten == CHOOSE f : f = [i \in 1 .. Len(ss) |-> Body(f, i)]
           g == [i \in 1 .. Len(ss) |-> s]
<1>1. Len(ss) = 1 /\ ss[1] = s
  OBVIOUS
<1>2. FlattenSeq(ss) = flatten[Len(ss)]
  BY <1>1 DEF FlattenSeq
<1> HIDE DEF ss
<1>3. \A i \in 1 .. Len(ss) : i = 1
  BY <1>1
<1>4. g = [i \in 1 .. Len(ss) |-> Body(g, i)]
  BY <1>1, <1>3
<1> HIDE DEF g
<1>5. \E f : f = [i \in 1 .. Len(ss) |-> Body(f, i)]
  <2> HIDE DEF Body
  <2> QED BY <1>4
<1>6. flatten = [i \in 1 .. Len(ss) |-> Body(flatten, i)]
  <2> HIDE DEF Body
  <2> QED BY <1>5
<1> HIDE DEF flatten
<1>7. flatten[1] = s
  BY <1>1, <1>6
<1> QED BY <1>1, <1>2, <1>7 DEF ss

\* The sequences that begin with another still do when more is strung to them.
Continuations(S, b) == {b \o t : t \in Seq(S)}

LEMMA ContinuationsFacts ==
  ASSUME NEW S, NEW b \in Seq(S)
  PROVE  /\ b \in Continuations(S, b)
         /\ \A f \in Continuations(S, b), w \in Seq(S) : f \o w \in Continuations(S, b)
<1>1. b \in Continuations(S, b)
  <2>1. b = b \o <<>> /\ <<>> \in Seq(S)
    BY ConcatEmptySeq
  <2> QED BY <2>1 DEF Continuations
<1>2. ASSUME NEW t \in Seq(S), NEW w \in Seq(S)
      PROVE  (b \o t) \o w = b \o (t \o w) /\ t \o w \in Seq(S)
  <2>1. (b \o t) \o w = b \o (t \o w)
    BY SMTT(30)
  <2>2. t \o w \in Seq(S)
    BY ConcatProperties
  <2> QED BY <2>1, <2>2
<1>3. ASSUME NEW f \in Continuations(S, b), NEW w \in Seq(S)
      PROVE  f \o w \in Continuations(S, b)
  <2>1. PICK t \in Seq(S) : f = b \o t
    BY DEF Continuations
  <2>2. f \o w = b \o (t \o w) /\ t \o w \in Seq(S)
    BY <1>2, <2>1
  <2> QED BY <2>2 DEF Continuations
<1> QED BY <1>1, <1>3

\* The first sequences, strung together, one by one.
LEMMA FlattenUp ==
  ASSUME NEW S, NEW ss \in Seq(Seq(S))
  PROVE  /\ FlattenSeq(SubSeq(ss, 1, 0)) = <<>>
         /\ \A n \in 0 .. Len(ss) : FlattenSeq(SubSeq(ss, 1, n)) \in Seq(S)
         /\ FlattenSeq(SubSeq(ss, 1, Len(ss))) = FlattenSeq(ss)
         /\ \A n \in Nat : n + 1 <= Len(ss) =>
              FlattenSeq(SubSeq(ss, 1, n + 1)) = FlattenSeq(SubSeq(ss, 1, n)) \o ss[n + 1]
<1> DEFINE Up(n) == SubSeq(ss, 1, n)
<1>0. Len(ss) \in Nat
  BY LenProperties
<1>1. ASSUME NEW n \in Nat, n <= Len(ss) PROVE Up(n) \in Seq(Seq(S))
  <2>1. \A k \in 1 .. n : ss[k] \in Seq(S)
    BY <1>0, <1>1, ElementOfSeq
  <2> QED BY <1>1, <2>1, SubSeqProperties
<1>2. ASSUME NEW n \in Nat, n + 1 <= Len(ss)
      PROVE  FlattenSeq(Up(n + 1)) = FlattenSeq(Up(n)) \o ss[n + 1]
  <2> DEFINE m == n + 1
  <2>0. m \in 1 .. Len(ss) /\ m - 1 = n /\ 1 \in 1 .. Len(ss) /\ m \in 1 .. m /\ m \in Nat
    BY <1>0, <1>2
  <2>1. ss[m] \in Seq(S)
    BY <2>0, ElementOfSeq
  <2> HIDE DEF m
  <2>2. SubSeq(ss, 1, m) = SubSeq(ss, 1, m - 1) \o <<ss[m]>>
    BY <1>0, <2>0, SubSeqRecursiveSecond
  <2>3. Up(n) \in Seq(Seq(S))
    BY <1>0, <1>1, <1>2
  <2>4. Append(Up(n), ss[m]) = Up(n) \o <<ss[m]>>
    BY <2>1, <2>3, AppendIsConcat
  <2>5. FlattenSeq(Append(Up(n), ss[m])) = FlattenSeq(Up(n)) \o ss[m]
    BY <2>1, <2>3, FlattenAppend
  <2> QED BY <2>0, <2>2, <2>4, <2>5 DEF m
<1>3. FlattenSeq(Up(0)) = <<>>
  <2>1. Up(0) = <<>>
    BY <1>0, SubSeqEmpty
  <2> QED BY <2>1, FlattenType
<1>4. \A n \in 0 .. Len(ss) : FlattenSeq(Up(n)) \in Seq(S)
  <2>1. \A n \in 0 .. Len(ss) : n \in Nat /\ n <= Len(ss)
    BY <1>0
  <2> HIDE DEF Up
  <2> QED BY <1>1, <2>1, FlattenType
<1>5. Up(Len(ss)) = ss
  BY SubSeqFull
<1>6. FlattenSeq(Up(Len(ss))) = FlattenSeq(ss)
  BY <1>5
<1> QED BY <1>2, <1>3, <1>4, <1>6

\* What two sequences of sequences string together stands one behind the other.
LEMMA FlattenConcat ==
  ASSUME NEW S, NEW ss \in Seq(Seq(S)), NEW tt \in Seq(Seq(S))
  PROVE  FlattenSeq(ss \o tt) = FlattenSeq(ss) \o FlattenSeq(tt)
<1> DEFINE Sizes == {n \in Nat : \A uu \in Seq(Seq(S)) :
                       Len(uu) = n => FlattenSeq(ss \o uu) = FlattenSeq(ss) \o FlattenSeq(uu)}
<1>0. FlattenSeq(ss) \in Seq(S)
  BY FlattenType
<1>1. 0 \in Sizes
  <2> SUFFICES ASSUME NEW uu \in Seq(Seq(S)), Len(uu) = 0
               PROVE  FlattenSeq(ss \o uu) = FlattenSeq(ss) \o FlattenSeq(uu)
    OBVIOUS
  <2>1. uu = <<>>
    BY EmptySeq
  <2>2. ss \o <<>> = ss /\ FlattenSeq(ss) \o <<>> = FlattenSeq(ss) /\ FlattenSeq(<<>>) = <<>>
    BY <1>0, ConcatEmptySeq, FlattenType
  <2> QED BY <2>1, <2>2
<1>2. ASSUME NEW n \in Nat, n \in Sizes PROVE n + 1 \in Sizes
  <2> SUFFICES ASSUME NEW uu \in Seq(Seq(S)), Len(uu) = n + 1
               PROVE  FlattenSeq(ss \o uu) = FlattenSeq(ss) \o FlattenSeq(uu)
    OBVIOUS
  <2> DEFINE m == n + 1
             vv == SubSeq(uu, 1, n)
  <2>0. m \in 1 .. Len(uu) /\ m \in 1 .. m /\ m - 1 = n /\ 1 \in 1 .. Len(uu) /\ m = Len(uu)
    OBVIOUS
  <2>1. uu[m] \in Seq(S) /\ vv \in Seq(Seq(S)) /\ Len(vv) = n
    <3>1. \A k \in 1 .. n : uu[k] \in Seq(S)
      BY <2>0, ElementOfSeq
    <3>2. vv \in Seq(Seq(S)) /\ Len(vv) = IF 1 <= n THEN n - 1 + 1 ELSE 0
      BY <3>1, SubSeqProperties
    <3> QED BY <2>0, <3>2, ElementOfSeq
  <2> HIDE DEF m
  <2>2. uu = Append(vv, uu[m])
    <3>1. SubSeq(uu, 1, m) = SubSeq(uu, 1, m - 1) \o <<uu[m]>>
      BY <2>0, SubSeqRecursiveSecond
    <3>2. SubSeq(uu, 1, Len(uu)) = uu
      BY SubSeqFull
    <3>3. Append(vv, uu[m]) = vv \o <<uu[m]>>
      BY <2>1, AppendIsConcat
    <3> QED BY <2>0, <3>1, <3>2, <3>3
  <2>3. FlattenSeq(ss \o vv) = FlattenSeq(ss) \o FlattenSeq(vv)
    BY <1>2, <2>1
  <2> HIDE DEF vv
  <2>4. ss \o uu = Append(ss \o vv, uu[m])
    <3>1. Append(vv, uu[m]) = vv \o <<uu[m]>> /\ <<uu[m]>> \in Seq(Seq(S))
      BY <2>1, AppendIsConcat
    <3>2. ss \o vv \in Seq(Seq(S))
      BY <2>1, ConcatProperties
    <3>3. Append(ss \o vv, uu[m]) = (ss \o vv) \o <<uu[m]>>
      BY <2>1, <3>2, AppendIsConcat
    <3>4. (ss \o vv) \o <<uu[m]>> = ss \o (vv \o <<uu[m]>>)
      <4>1. vv \in Seq(Seq(S)) /\ <<uu[m]>> \in Seq(Seq(S))
        BY <2>1, <3>1
      <4> HIDE DEF vv, Sizes
      <4> QED BY <4>1, SMTT(30)
    <3> QED BY <2>2, <3>1, <3>3, <3>4
  <2>5. FlattenSeq(ss \o uu) = FlattenSeq(ss \o vv) \o uu[m]
    <3>1. ss \o vv \in Seq(Seq(S))
      BY <2>1, ConcatProperties
    <3> QED BY <2>1, <2>4, <3>1, FlattenAppend
  <2>6. FlattenSeq(uu) = FlattenSeq(vv) \o uu[m]
    BY <2>1, <2>2, FlattenAppend
  <2>7. FlattenSeq(vv) \in Seq(S)
    BY <2>1, FlattenType
  <2>8. ASSUME NEW s \in Seq(S), NEW t \in Seq(S), NEW u \in Seq(S)
        PROVE  (s \o t) \o u = s \o (t \o u)
    BY SMTT(30)
  <2>9. (FlattenSeq(ss) \o FlattenSeq(vv)) \o uu[m] = FlattenSeq(ss) \o (FlattenSeq(vv) \o uu[m])
    BY <1>0, <2>1, <2>7, <2>8
  <2> QED BY <2>3, <2>5, <2>6, <2>9
<1>3. \A n \in Nat : n \in Sizes
  <2> HIDE DEF Sizes
  <2> QED BY <1>1, <1>2, SimpleInduction
<1>4. Len(tt) \in Nat
  BY LenProperties
<1> QED BY <1>3, <1>4

\* Empty sequences string together to the empty one.
LEMMA FlattenEmpties ==
  ASSUME NEW S, NEW ss \in Seq(Seq(S)), \A i \in 1 .. Len(ss) : ss[i] = <<>>
  PROVE  FlattenSeq(ss) = <<>>
<1> DEFINE Sizes == {n \in Nat : n <= Len(ss) => FlattenSeq(SubSeq(ss, 1, n)) = <<>>}
<1>0. Len(ss) \in Nat
  BY LenProperties
<1>1. 0 \in Sizes
  BY FlattenUp
<1>2. ASSUME NEW n \in Nat, n \in Sizes PROVE n + 1 \in Sizes
  <2> SUFFICES ASSUME n + 1 <= Len(ss) PROVE FlattenSeq(SubSeq(ss, 1, n + 1)) = <<>>
    OBVIOUS
  <2>1. n <= Len(ss) /\ n + 1 \in 1 .. Len(ss)
    BY <1>0
  <2>2. FlattenSeq(SubSeq(ss, 1, n + 1)) = FlattenSeq(SubSeq(ss, 1, n)) \o ss[n + 1]
    BY FlattenUp
  <2>3. <<>> \o <<>> = <<>>
    OBVIOUS
  <2> QED BY <1>2, <2>1, <2>2, <2>3
<1>3. \A n \in Nat : n \in Sizes
  <2> HIDE DEF Sizes
  <2> QED BY <1>1, <1>2, SimpleInduction
<1>4. FlattenSeq(SubSeq(ss, 1, Len(ss))) = <<>>
  BY <1>0, <1>3
<1> QED BY <1>4, FlattenUp

\* Of sequences that are empty from number n + 1 on, the first n remain.
LEMMA FlattenFirst ==
  ASSUME NEW S, NEW ss \in Seq(Seq(S)), NEW n \in 0 .. Len(ss),
         \A i \in (n + 1) .. Len(ss) : ss[i] = <<>>
  PROVE  FlattenSeq(ss) = FlattenSeq(SubSeq(ss, 1, n))
<1> DEFINE ff == SubSeq(ss, 1, n)
           rr == SubSeq(ss, n + 1, Len(ss))
<1>0. Len(ss) \in Nat /\ n \in Nat /\ n <= Len(ss) /\ n + 1 \in Int
  BY LenProperties
<1>1. ff \in Seq(Seq(S)) /\ rr \in Seq(Seq(S))
  <2>1. \A k \in 1 .. n : ss[k] \in Seq(S)
    BY <1>0, ElementOfSeq
  <2>2. \A k \in (n + 1) .. Len(ss) : ss[k] \in Seq(S)
    BY <1>0, ElementOfSeq
  <2> QED BY <1>0, <2>1, <2>2, SubSeqProperties
<1>2. ss = ff \o rr
  <2>1. 1 \in 1 .. Len(ss) + 1 /\ n \in 1 - 1 .. Len(ss) /\ Len(ss) \in n .. Len(ss)
    BY <1>0
  <2>2. SubSeq(ss, 1, n) \o SubSeq(ss, n + 1, Len(ss)) = SubSeq(ss, 1, Len(ss))
    BY <2>1, ConcatAdjacentSubSeq
  <2> QED BY <2>2, SubSeqFull
<1>3. \A i \in 1 .. Len(rr) : rr[i] = <<>>
  <2>1. \A k \in (n + 1) .. Len(ss) : ss[k] \in Seq(S)
    BY <1>0, ElementOfSeq
  <2>2. /\ Len(rr) = IF n + 1 <= Len(ss) THEN Len(ss) - (n + 1) + 1 ELSE 0
        /\ \A i \in 1 .. Len(ss) - (n + 1) + 1 : rr[i] = ss[n + 1 + i - 1]
    BY <1>0, <2>1, SubSeqProperties
  <2> HIDE DEF rr
  <2> SUFFICES ASSUME NEW i \in 1 .. Len(rr) PROVE rr[i] = <<>>
    OBVIOUS
  <2>3. i \in 1 .. Len(ss) - (n + 1) + 1 /\ n + 1 + i - 1 \in (n + 1) .. Len(ss)
    BY <1>0, <2>2
  <2> QED BY <2>2, <2>3
<1>4. FlattenSeq(rr) = <<>>
  <2> HIDE DEF rr
  <2> QED BY <1>1, <1>3, FlattenEmpties
<1>5. FlattenSeq(ff \o rr) = FlattenSeq(ff) \o FlattenSeq(rr)
  <2> HIDE DEF ff, rr
  <2> QED BY <1>1, FlattenConcat
<1>6. FlattenSeq(ff) \in Seq(S)
  <2> HIDE DEF ff
  <2> QED BY <1>1, FlattenType
<1>7. FlattenSeq(ff) \o <<>> = FlattenSeq(ff)
  BY <1>6, ConcatEmptySeq
<1> QED BY <1>2, <1>4, <1>5, <1>7

\* Of sequences that are all empty but one, that one remains.
LEMMA FlattenOnly ==
  ASSUME NEW S, NEW ss \in Seq(Seq(S)), NEW n \in 1 .. Len(ss),
         \A i \in 1 .. Len(ss) : i # n => ss[i] = <<>>
  PROVE  FlattenSeq(ss) = ss[n]
<1> DEFINE m == n - 1
           ff == SubSeq(ss, 1, m)
<1>0. /\ Len(ss) \in Nat /\ n \in 0 .. Len(ss) /\ m \in Nat /\ m + 1 = n /\ m + 1 <= Len(ss)
      /\ ss[n] \in Seq(S)
  BY LenProperties, ElementOfSeq
<1>1. \A i \in (n + 1) .. Len(ss) : ss[i] = <<>>
  BY <1>0
<1>2. FlattenSeq(ss) = FlattenSeq(SubSeq(ss, 1, n))
  BY <1>0, <1>1, FlattenFirst
<1> HIDE DEF m
<1>3. FlattenSeq(SubSeq(ss, 1, m + 1)) = FlattenSeq(ff) \o ss[m + 1]
  BY <1>0, FlattenUp
<1>4. ff \in Seq(Seq(S)) /\ \A i \in 1 .. Len(ff) : ff[i] = <<>>
  <2>0. \A k \in 1 .. m : k \in 1 .. Len(ss) /\ k # n
    BY <1>0
  <2>1. \A k \in 1 .. m : ss[k] \in Seq(S) /\ ss[k] = <<>>
    BY <2>0, ElementOfSeq
  <2>2. /\ ff \in Seq(Seq(S)) /\ Len(ff) = IF 1 <= m THEN m - 1 + 1 ELSE 0
        /\ \A i \in 1 .. m - 1 + 1 : ff[i] = ss[1 + i - 1]
    BY <1>0, <2>1, SubSeqProperties
  <2> HIDE DEF ff
  <2>3. \A i \in 1 .. Len(ff) : i \in 1 .. m /\ i \in 1 .. m - 1 + 1 /\ 1 + i - 1 = i
    BY <1>0, <2>2
  <2> QED BY <2>1, <2>2, <2>3
<1>5. FlattenSeq(ff) = <<>>
  <2> HIDE DEF ff
  <2> QED BY <1>4, FlattenEmpties
<1>6. <<>> \o ss[n] = ss[n]
  BY <1>0, ConcatEmptySeq
<1> QED BY <1>0, <1>2, <1>3, <1>5, <1>6

\* Every sequence stands in the string behind the ones that come before it.
LEMMA FlattenParts ==
  ASSUME NEW S, NEW ss \in Seq(Seq(S)), NEW i \in 1 .. Len(ss)
  PROVE  FlattenSeq(ss) \in Continuations(S, FlattenSeq(SubSeq(ss, 1, i - 1)) \o ss[i])
<1> DEFINE Up(n) == SubSeq(ss, 1, n)
           before == FlattenSeq(Up(i - 1)) \o ss[i]
           more == Continuations(S, before)
           Good == {n \in Nat : i + n <= Len(ss) => FlattenSeq(Up(i + n)) \in more}
<1>0. Len(ss) \in Nat /\ i \in Nat \ {0} /\ i <= Len(ss)
  BY LenProperties
<1>1. ASSUME NEW n \in Nat, n <= Len(ss) PROVE Up(n) \in Seq(Seq(S))
  <2>1. \A k \in 1 .. n : ss[k] \in Seq(S)
    BY <1>0, <1>1, ElementOfSeq
  <2> QED BY <1>1, <2>1, SubSeqProperties
<1>2. ASSUME NEW n \in Nat, n + 1 <= Len(ss)
      PROVE  FlattenSeq(Up(n + 1)) = FlattenSeq(Up(n)) \o ss[n + 1]
  BY <1>2, FlattenUp
<1>3. before \in Seq(S)
  <2>1. i - 1 \in Nat /\ i - 1 <= Len(ss)
    BY <1>0
  <2>2. Up(i - 1) \in Seq(Seq(S)) /\ ss[i] \in Seq(S)
    BY <1>1, <2>1, ElementOfSeq
  <2>3. FlattenSeq(Up(i - 1)) \in Seq(S)
    BY <2>2, FlattenType
  <2> QED BY <2>2, <2>3, ConcatProperties
<1>4. before \in more /\ \A f \in more, w \in Seq(S) : f \o w \in more
  BY <1>3, ContinuationsFacts
<1> HIDE DEF Up, before, more
<1>5. 0 \in Good
  <2>1. i - 1 \in Nat /\ (i - 1) + 1 = i /\ i + 0 = i
    BY <1>0
  <2>2. FlattenSeq(Up(i)) = before
    BY <1>0, <1>2, <2>1 DEF before
  <2> QED BY <1>4, <2>1, <2>2
<1>6. ASSUME NEW n \in Nat, n \in Good PROVE n + 1 \in Good
  <2> SUFFICES ASSUME i + (n + 1) <= Len(ss) PROVE FlattenSeq(Up(i + (n + 1))) \in more
    OBVIOUS
  <2> DEFINE m == i + n
  <2>0. m \in Nat /\ m + 1 = i + (n + 1) /\ m <= Len(ss) /\ m + 1 <= Len(ss) /\ m + 1 \in 1 .. Len(ss)
    BY <1>0
  <2>1. FlattenSeq(Up(m)) \in more
    BY <1>6, <2>0
  <2> HIDE DEF m, Good
  <2>2. FlattenSeq(Up(m + 1)) = FlattenSeq(Up(m)) \o ss[m + 1]
    BY <1>2, <2>0
  <2>3. ss[m + 1] \in Seq(S)
    BY <2>0, ElementOfSeq
  <2> QED BY <1>4, <2>0, <2>1, <2>2, <2>3
<1>7. \A n \in Nat : n \in Good
  <2> HIDE DEF Good
  <2> QED BY <1>5, <1>6, SimpleInduction
<1>8. PICK q \in Nat : i + q = Len(ss)
  <2>1. Len(ss) - i \in Nat /\ i + (Len(ss) - i) = Len(ss)
    BY <1>0
  <2> QED BY <2>1
<1>9. Up(i + q) \in {ss}
  BY <1>8, SubSeqFull DEF Up
<1>10. FlattenSeq(Up(i + q)) \in more
  <2>1. i + q <= Len(ss)
    BY <1>0, <1>8
  <2> QED BY <1>7, <2>1
<1> QED BY <1>9, <1>10 DEF before, more, Up

\* e holds where each sequence of ss ends in the string s of all of them.
Ends(e, ss, s) ==
  /\ e \in [0 .. Len(ss) -> Nat] /\ e[0] = 0 /\ e[Len(ss)] = Len(s)
  /\ \A i \in 1 .. Len(ss) : /\ e[i] = e[i - 1] + Len(ss[i])
                             /\ \A j \in 1 .. Len(ss[i]) : s[e[i - 1] + j] = ss[i][j]

\* The string consists of the sequences, one behind the other.
LEMMA FlattenEnds ==
  ASSUME NEW S, NEW ss \in Seq(Seq(S))
  PROVE  \E e : Ends(e, ss, FlattenSeq(ss))
<1> DEFINE Up(n) == FlattenSeq(SubSeq(ss, 1, n))
           e == [i \in 0 .. Len(ss) |-> Len(Up(i))]
           s == FlattenSeq(ss)
<1>0. Len(ss) \in Nat
  BY LenProperties
<1>1. /\ Up(0) = <<>> /\ Up(Len(ss)) = s /\ \A n \in 0 .. Len(ss) : Up(n) \in Seq(S)
      /\ \A n \in Nat : n + 1 <= Len(ss) => Up(n + 1) = Up(n) \o ss[n + 1]
  BY FlattenUp
<1>2. ASSUME NEW i \in 1 .. Len(ss)
      PROVE  s \in Continuations(S, Up(i - 1) \o ss[i]) /\ ss[i] \in Seq(S)
  <2>1. ss[i] \in Seq(S)
    BY ElementOfSeq
  <2> QED BY <2>1, FlattenParts
<1> HIDE DEF Up, s
<1>3. ASSUME NEW i \in 1 .. Len(ss)
      PROVE  /\ e[i] = e[i - 1] + Len(ss[i])
             /\ \A j \in 1 .. Len(ss[i]) : s[e[i - 1] + j] = ss[i][j]
  <2>0. i - 1 \in Nat /\ (i - 1) + 1 = i /\ i - 1 \in 0 .. Len(ss) /\ i \in 0 .. Len(ss) /\ i <= Len(ss)
    BY <1>0
  <2> DEFINE a == Up(i - 1)
             b == ss[i]
             c == a \o b
  <2>1. a \in Seq(S) /\ b \in Seq(S) /\ Up(i) = c
    BY <1>1, <1>2, <2>0
  <2> HIDE DEF a, b
  <2>2. /\ c \in Seq(S) /\ Len(c) = Len(a) + Len(b) /\ Len(a) \in Nat /\ Len(b) \in Nat
        /\ \A k \in 1 .. Len(a) + Len(b) : c[k] = IF k <= Len(a) THEN a[k] ELSE b[k - Len(a)]
    BY <2>1, ConcatProperties, LenProperties
  <2>3. PICK t \in Seq(S) : s = c \o t
    BY <1>2 DEF Continuations, a, b
  <2> HIDE DEF c
  <2>4. /\ Len(t) \in Nat
        /\ \A k \in 1 .. Len(c) + Len(t) : s[k] = IF k <= Len(c) THEN c[k] ELSE t[k - Len(c)]
    BY <2>2, <2>3, ConcatProperties, LenProperties
  <2>5. ASSUME NEW j \in 1 .. Len(b) PROVE s[Len(a) + j] = b[j]
    <3>1. /\ Len(a) + j \in 1 .. Len(c) + Len(t) /\ Len(a) + j \in 1 .. Len(a) + Len(b)
          /\ Len(a) + j <= Len(c) /\ ~(Len(a) + j <= Len(a)) /\ (Len(a) + j) - Len(a) = j
      <4>1. \A x, y, z, u \in Nat : \A k \in 1 .. y : z = x + y =>
              /\ x + k \in 1 .. z + u /\ x + k \in 1 .. x + y
              /\ x + k <= z /\ ~(x + k <= x) /\ (x + k) - x = k
        OBVIOUS
      <4>2. Len(c) \in Nat
        BY <2>2
      <4> QED BY <2>2, <2>4, <4>1, <4>2
    <3> QED BY <2>2, <2>4, <3>1
  <2>6. e[i - 1] = Len(a) /\ e[i] = Len(c)
    BY <2>0, <2>1 DEF a
  <2> HIDE DEF e
  <2> QED BY <2>2, <2>5, <2>6 DEF b
<1>4. e \in [0 .. Len(ss) -> Nat] /\ e[0] = 0 /\ e[Len(ss)] = Len(s)
  <2>1. \A n \in 0 .. Len(ss) : Len(Up(n)) \in Nat
    BY <1>1, LenProperties
  <2>2. 0 \in 0 .. Len(ss) /\ Len(ss) \in 0 .. Len(ss) /\ Len(<<>>) = 0
    BY <1>0
  <2> QED BY <1>1, <2>1, <2>2
<1>5. Ends(e, ss, s)
  <2> HIDE DEF e
  <2> QED BY <1>3, <1>4 DEF Ends
<1> QED BY <1>5 DEF s

\* Every place of the string lies in a sequence.
Pieces(e, ss, s) ==
  \A p \in 1 .. Len(s) : \E i \in 1 .. Len(ss) : \E j \in 1 .. Len(ss[i]) :
    p = e[i - 1] + j /\ s[p] = ss[i][j]

\* The ends do not decrease, and nothing lies between the sequences.
LEMMA EndsFacts ==
  ASSUME NEW S, NEW ss \in Seq(Seq(S)), NEW s, NEW e, Ends(e, ss, s)
  PROVE  /\ \A i, j \in 0 .. Len(ss) : i <= j => e[i] <= e[j]
         /\ Pieces(e, ss, s)
<1> DEFINE l == Len(ss)
<1>0. /\ l \in Nat /\ e \in [0 .. l -> Nat] /\ e[0] = 0 /\ e[l] = Len(s)
      /\ \A i \in 1 .. l : /\ e[i] = e[i - 1] + Len(ss[i]) /\ Len(ss[i]) \in Nat
                           /\ \A j \in 1 .. Len(ss[i]) : s[e[i - 1] + j] = ss[i][j]
  BY LenProperties, ElementOfSeq DEF Ends
<1> HIDE DEF l
<1>1. ASSUME NEW i \in 1 .. l
      PROVE  e[i - 1] \in Nat /\ e[i] \in Nat /\ e[i - 1] <= e[i] /\ i - 1 \in 0 .. l
  <2>1. i - 1 \in 0 .. l /\ i \in 0 .. l
    BY <1>0
  <2>2. e[i - 1] \in Nat /\ e[i] \in Nat /\ Len(ss[i]) \in Nat /\ e[i] = e[i - 1] + Len(ss[i])
    BY <1>0, <2>1
  <2> QED BY <2>1, <2>2
<1> DEFINE Far == {d \in Nat : \A i \in 0 .. l : i + d <= l => e[i] <= e[i + d]}
<1>2. 0 \in Far
  <2>1. \A i \in 0 .. l : i + 0 = i /\ e[i] \in Nat
    BY <1>0
  <2>2. \A i \in 0 .. l : e[i] <= e[i + 0]
    BY <2>1
  <2> QED BY <2>2
<1>3. ASSUME NEW d \in Nat, d \in Far PROVE d + 1 \in Far
  <2> SUFFICES ASSUME NEW i \in 0 .. l, i + (d + 1) <= l PROVE e[i] <= e[i + (d + 1)]
    OBVIOUS
  <2> DEFINE k == i + d
  <2>1. k \in 0 .. l /\ k + 1 \in 1 .. l /\ (k + 1) - 1 = k /\ i + (d + 1) = k + 1 /\ k <= l
    BY <1>0
  <2>2. e[i] <= e[k]
    BY <1>3, <2>1
  <2> HIDE DEF k, Far
  <2>3. e[k] \in Nat /\ e[k + 1] \in Nat /\ e[k] <= e[k + 1] /\ e[i] \in Nat
    BY <1>0, <1>1, <2>1
  <2> QED BY <2>1, <2>2, <2>3
<1>4. \A d \in Nat : d \in Far
  <2> HIDE DEF Far
  <2> QED BY <1>2, <1>3, SimpleInduction
<1>5. ASSUME NEW i \in 0 .. l, NEW j \in 0 .. l, i <= j PROVE e[i] <= e[j]
  <2>1. j - i \in Nat /\ i + (j - i) = j /\ i + (j - i) <= l
    BY <1>0, <1>5
  <2>2. j - i \in Far
    BY <1>4, <2>1
  <2> QED BY <2>1, <2>2
<1> HIDE DEF Far
<1>6. ASSUME NEW p \in 1 .. Len(s)
      PROVE  \E i \in 1 .. l : \E j \in 1 .. Len(ss[i]) : p = e[i - 1] + j /\ s[p] = ss[i][j]
  <2> DEFINE T == {i \in 0 .. l : p <= e[i]}
  <2>0. p \in Nat /\ 1 <= p /\ p <= e[l]
    <3>1. e[l] \in Nat
      BY <1>0
    <3> QED BY <1>0, <3>1
  <2>1. T \in SUBSET Nat /\ l \in T
    BY <1>0, <2>0
  <2>2. PICK i \in T : \A k \in T : i <= k
    <3> HIDE DEF T
    <3> QED BY <2>1, LeastNatural
  <2>3. i \in 0 .. l /\ p <= e[i] /\ i # 0
    BY <1>0, <2>0, <2>2
  <2>4. i \in 1 .. l
    BY <1>0, <2>3
  <2>5. i - 1 \in 0 .. l /\ ~(i <= i - 1)
    BY <1>0, <2>4
  <2>6. ~(p <= e[i - 1])
    BY <2>2, <2>5
  <2> DEFINE j == p - e[i - 1]
  <2>7. j \in 1 .. Len(ss[i]) /\ p = e[i - 1] + j
    <3>1. e[i - 1] \in Nat /\ e[i] = e[i - 1] + Len(ss[i]) /\ Len(ss[i]) \in Nat
      BY <1>0, <1>1, <2>4
    <3> QED BY <2>0, <2>3, <2>6, <3>1
  <2> HIDE DEF j
  <2>8. s[p] = ss[i][j]
    BY <1>0, <2>4, <2>7
  <2> QED BY <2>4, <2>7, <2>8
<1> QED BY <1>5, <1>6 DEF l, Pieces

-----------------------------------------------------------------------------
\* Of a finite set with an order the elements can be numbered by how many come
\* before each.
StrictOrder(R, S) ==
  /\ \A x \in S : <<x, x>> \notin R
  /\ \A x, y, z \in S : <<x, y>> \in R /\ <<y, z>> \in R => <<x, z>> \in R
  /\ \A x, y \in S : x # y => <<x, y>> \in R \/ <<y, x>> \in R

Rank(R, S, x) == Cardinality({y \in S : <<y, x>> \in R})

LEMMA Ranks ==
  \A S, R : IsFiniteSet(S) /\ StrictOrder(R, S) =>
    /\ Cardinality(S) \in Nat
    /\ \A x \in S : Rank(R, S, x) + 1 \in 1 .. Cardinality(S) /\ Rank(R, S, x) \in Nat
    /\ \A x, z \in S : Rank(R, S, x) = Rank(R, S, z) => x = z
    /\ \A i \in 1 .. Cardinality(S) : \E x \in S : Rank(R, S, x) = i - 1
<1> SUFFICES
      ASSUME NEW S, NEW R, IsFiniteSet(S), StrictOrder(R, S)
      PROVE  /\ Cardinality(S) \in Nat
             /\ \A x \in S : Rank(R, S, x) + 1 \in 1 .. Cardinality(S) /\ Rank(R, S, x) \in Nat
             /\ \A x, z \in S : Rank(R, S, x) = Rank(R, S, z) => x = z
             /\ \A i \in 1 .. Cardinality(S) : \E x \in S : Rank(R, S, x) = i - 1
  OBVIOUS
<1>0. /\ \A x \in S : <<x, x>> \notin R
      /\ \A x, y, z \in S : <<x, y>> \in R /\ <<y, z>> \in R => <<x, z>> \in R
      /\ \A x, y \in S : x # y => <<x, y>> \in R \/ <<y, x>> \in R
  BY DEF StrictOrder
<1> USE <1>0
<1> DEFINE Before(x) == {y \in S : <<y, x>> \in R}
           n == Cardinality(S)
           rank == [x \in S |-> Cardinality(Before(x))]
           ranks == {rank[x] : x \in S}
<1>1. /\ n \in Nat
      /\ \A T \in SUBSET S : IsFiniteSet(T) /\ Cardinality(T) \in Nat
  BY FS_Subset, FS_CardinalityType
<1>2. ASSUME NEW x \in S PROVE Cardinality(Before(x)) \in 0 .. (n - 1)
  <2>1. Before(x) \in SUBSET (S \ {x})
    OBVIOUS
  <2>2. IsFiniteSet(S \ {x}) /\ Cardinality(S \ {x}) = n - 1
    BY FS_RemoveElement
  <2> HIDE DEF Before
  <2>3. Cardinality(Before(x)) <= Cardinality(S \ {x}) /\ Before(x) \in SUBSET S
    BY <2>1, <2>2, FS_Subset
  <2>4. Cardinality(Before(x)) \in Nat
    BY <1>1, <2>3
  <2> QED BY <1>1, <2>2, <2>3, <2>4
<1>3. ASSUME NEW x \in S, NEW z \in S, <<x, z>> \in R
      PROVE  Cardinality(Before(x)) < Cardinality(Before(z))
  <2>1. Before(x) \in SUBSET Before(z) /\ x \in Before(z) /\ x \notin Before(x) /\ Before(z) \in SUBSET S
    BY <1>3
  <2> HIDE DEF Before
  <2>2. IsFiniteSet(Before(z))
    BY <1>1, <2>1
  <2>3. Before(x) # Before(z)
    BY <2>1
  <2>4. Cardinality(Before(x)) <= Cardinality(Before(z)) /\ Cardinality(Before(x)) # Cardinality(Before(z))
    BY <2>1, <2>2, <2>3, FS_Subset
  <2>5. Cardinality(Before(x)) \in Int /\ Cardinality(Before(z)) \in Int
    <3>1. Before(x) \in SUBSET S
      BY <2>1
    <3> QED BY <1>1, <2>1, <3>1
  <2> QED BY <2>4, <2>5
<1>4. ASSUME NEW x \in S, NEW z \in S, Cardinality(Before(x)) = Cardinality(Before(z)) PROVE x = z
  <2>0. Cardinality(Before(x)) \in Int /\ Cardinality(Before(z)) \in Int
    BY <1>2
  <2>1. ~(<<x, z>> \in R) /\ ~(<<z, x>> \in R)
    <3> HIDE DEF Before
    <3> QED BY <1>3, <1>4, <2>0
  <2> QED BY <2>1
<1>5. /\ \A x \in S : rank[x] \in 0 .. (n - 1)
      /\ \A x, z \in S : rank[x] = rank[z] => x = z
  <2> HIDE DEF Before
  <2> QED BY <1>2, <1>4
<1>6. IsFiniteSet(ranks) /\ Cardinality(ranks) = n
  <2> HIDE DEF rank
  <2> QED BY <1>5, ImageFacts
<1>7. ranks = 0 .. (n - 1)
  <2>1. ranks \in SUBSET (0 .. (n - 1))
    <3> HIDE DEF rank, n
    <3> QED BY <1>5
  <2>2. 0 \in Int /\ n - 1 \in Int
    BY <1>1
  <2>3. IsFiniteSet(0 .. (n - 1)) /\ Cardinality(0 .. (n - 1)) = IF 0 > n - 1 THEN 0 ELSE (n - 1) - 0 + 1
    BY <2>2, FS_Interval
  <2>4. Cardinality(0 .. (n - 1)) = n
    BY <1>1, <2>3
  <2> DEFINE D == 0 .. (n - 1)
  <2>5. IsFiniteSet(D) /\ Cardinality(D) = n /\ ranks \in SUBSET D
    BY <2>1, <2>3, <2>4
  <2> HIDE DEF ranks, n, D
  <2>6. ranks = D
    BY <1>6, <2>5, FS_Subset
  <2> QED BY <2>6 DEF D
<1>8. ASSUME NEW i \in 1 .. n PROVE \E x \in S : Cardinality(Before(x)) = i - 1
  <2>1. i - 1 \in 0 .. (n - 1)
    BY <1>1
  <2>2. PICK x \in S : rank[x] = i - 1
    <3> HIDE DEF rank
    <3> QED BY <1>7, <2>1
  <2> QED BY <2>2
<1>9. \A x \in S : Cardinality(Before(x)) + 1 \in 1 .. n /\ Cardinality(Before(x)) \in Nat
  <2> HIDE DEF Before
  <2> QED BY <1>1, <1>2
<1>10. \A x : Rank(R, S, x) = Cardinality(Before(x))
  BY DEF Rank
<1> HIDE DEF Before, n
<1> QED BY <1>1, <1>4, <1>8, <1>9, <1>10 DEF n

=============================================================================
