---------------------------- MODULE LearnProofs -----------------------------
(***************************************************************************)
(* What a knowledge base counts makes probabilities and is shown by the    *)
(* text, whatever the text and its symbols, and the windows of a sentence  *)
(* cut no stretch that can hold a phrase, for any size of the architecture.*)
(***************************************************************************)
EXTENDS Learn, OrganizerProofs

Bag(B) == B \in [DOMAIN B -> Nat \ {0}]

\* What the links to t were counted together.
TotalTo(t, counts) == SumFunctionOnSet(counts, LinksTo(t, DOMAIN counts))

\* The counts of a knowledge base make up its sums, and made up those that its
\* strengths were computed with.
Balanced(kb) ==
  /\ Bag(kb.counts) /\ Bag(kb.sums) /\ IsFiniteSet(DOMAIN kb.counts)
  /\ DOMAIN kb.sums = {link[1] : link \in DOMAIN kb.counts}
  /\ \A t \in DOMAIN kb.sums : kb.sums[t] = TotalTo(t, kb.counts)
  /\ SharesAddUp(kb)

Tokens == Words \cup {Unknown, Hole}

TypeOK ==
  /\ text \in Seq(Seq(Tokens)) /\ read \in 0 .. Len(text)
  /\ buffer \in Seq(Tokens)
  /\ DOMAIN kbs = KbPairs

AllBalanced ==
  \A p \in KbPairs : /\ DOMAIN kbs[p] = {"counts", "sums", "strengths"}
                     /\ Balanced(kbs[p])

IInv == TypeOK /\ AllBalanced

-----------------------------------------------------------------------------
\* Bags.

\* The values of a function on a finite set form a bag.
LEMMA BagOfIsBag ==
  ASSUME NEW f, NEW S, IsFiniteSet(S)
  PROVE  /\ DOMAIN BagOf(f, S) = {f[k] : k \in S}
         /\ Bag(BagOf(f, S))
<1>1. DOMAIN BagOf(f, S) = {f[k] : k \in S}
  BY DEF BagOf
<1>2. ASSUME NEW e \in {f[k] : k \in S} PROVE BagOf(f, S)[e] \in Nat \ {0}
  <2>1. PICK k \in S : f[k] = e
    BY <1>2
  <2> DEFINE K == {m \in S : f[m] = e}
  <2>2. IsFiniteSet(K) /\ K # {}
    BY <2>1, FS_Subset
  <2>3. Cardinality(K) \in Nat /\ Cardinality(K) # 0
    BY <2>2, FS_CardinalityType, FS_EmptySet
  <2>4. BagOf(f, S)[e] = Cardinality(K)
    BY <1>2 DEF BagOf
  <2> QED BY <2>3, <2>4
<1> QED BY <1>1, <1>2 DEF BagOf, Bag

\* The union of two bags.
LEMMA UnionIsBag ==
  ASSUME NEW B, NEW C, Bag(B), Bag(C)
  PROVE  /\ DOMAIN (B (+) C) = DOMAIN B \cup DOMAIN C
         /\ Bag(B (+) C)
         /\ \A e \in DOMAIN B \cup DOMAIN C :
              (B (+) C)[e] = (IF e \in DOMAIN B THEN B[e] ELSE 0)
                             + (IF e \in DOMAIN C THEN C[e] ELSE 0)
<1> DEFINE Both(e) == (IF e \in DOMAIN B THEN B[e] ELSE 0)
                      + (IF e \in DOMAIN C THEN C[e] ELSE 0)
<1>1. B (+) C = [e \in DOMAIN B \cup DOMAIN C |-> Both(e)]
  BY Zenon DEF (+)
<1>2. \A e \in DOMAIN B : B[e] \in Nat \ {0}
  BY DEF Bag
<1>3. \A e \in DOMAIN C : C[e] \in Nat \ {0}
  BY DEF Bag
<1>4. \A e \in DOMAIN B \cup DOMAIN C : Both(e) \in Nat \ {0}
  BY <1>2, <1>3
<1> HIDE DEF Both
<1>5. B (+) C \in [DOMAIN B \cup DOMAIN C -> Nat \ {0}]
  BY <1>1, <1>4
<1>6. DOMAIN (B (+) C) = DOMAIN B \cup DOMAIN C
  BY <1>1
<1>7. \A e \in DOMAIN B \cup DOMAIN C : (B (+) C)[e] = Both(e)
  BY <1>1
<1> QED BY <1>5, <1>6, <1>7 DEF Bag, Both

\* Copies in a union of bags.
LEMMA UnionCopies ==
  ASSUME NEW B, NEW C, Bag(B), Bag(C), NEW e
  PROVE  /\ Copies(B (+) C, e) = Copies(B, e) + Copies(C, e)
         /\ Copies(B, e) \in Nat /\ Copies(C, e) \in Nat
<1>1. /\ DOMAIN (B (+) C) = DOMAIN B \cup DOMAIN C
      /\ \A x \in DOMAIN B \cup DOMAIN C : (B (+) C)[x] = Copies(B, x) + Copies(C, x)
  BY UnionIsBag, Zenon DEF Copies
<1>2. Copies(B, e) \in Nat /\ Copies(C, e) \in Nat
  BY DEF Bag, Copies
<1>3. CASE e \in DOMAIN B \cup DOMAIN C
  <2>1. Copies(B (+) C, e) = (B (+) C)[e]
    BY <1>1, <1>3, Zenon DEF Copies
  <2> QED BY <1>1, <1>2, <1>3, <2>1, Zenon
<1>4. CASE e \notin DOMAIN B \cup DOMAIN C
  <2>1. Copies(B (+) C, e) = 0
    BY <1>1, <1>4, Zenon DEF Copies
  <2>2. Copies(B, e) = 0 /\ Copies(C, e) = 0
    BY <1>4 DEF Copies
  <2> QED BY <1>2, <2>1, <2>2
<1> QED BY <1>2, <1>3, <1>4

\* The elements of T are as often in a union of bags as in both together.
LEMMA UnionTotal ==
  ASSUME NEW B, NEW C, Bag(B), Bag(C),
         NEW S, IsFiniteSet(S), S \subseteq DOMAIN B \cup DOMAIN C
  PROVE  SumFunctionOnSet(B (+) C, S) = SumFunctionOnSet(B, S \cap DOMAIN B)
                                        + SumFunctionOnSet(C, S \cap DOMAIN C)
<1> DEFINE U == B (+) C
           Total(X, T) == SumFunctionOnSet(X, T \cap DOMAIN X)
           F == {T \in SUBSET S : SumFunctionOnSet(U, T) = Total(B, T) + Total(C, T)}
<1>1. \A x \in S : U[x] = Copies(B, x) + Copies(C, x) /\ U[x] \in Nat
  <2>1. \A x \in DOMAIN B \cup DOMAIN C : U[x] = Copies(B, x) + Copies(C, x)
    BY UnionIsBag, Zenon DEF Copies
  <2>2. \A x : Copies(B, x) \in Nat /\ Copies(C, x) \in Nat
    BY UnionCopies
  <2> HIDE DEF U
  <2> QED BY <2>1, <2>2
<1>2. ASSUME NEW X, Bag(X), NEW T \in SUBSET S, NEW x \in T
      PROVE  /\ Total(X, T) = Copies(X, x) + Total(X, T \ {x})
             /\ Total(X, T) \in Nat /\ Total(X, T \ {x}) \in Nat
  <2> DEFINE K == T \cap DOMAIN X
             L == (T \ {x}) \cap DOMAIN X
  <2>1. /\ IsFiniteSet(K) /\ IsFiniteSet(L) /\ K \subseteq DOMAIN X /\ L \subseteq DOMAIN X
        /\ L = K \ {x} /\ (x \in K <=> x \in DOMAIN X)
    BY FS_Subset
  <2>2. \A y \in DOMAIN X : X[y] \in Nat
    BY <1>2 DEF Bag
  <2> HIDE DEF K, L
  <2>3. /\ SumFunctionOnSet(X, K) \in Nat /\ SumFunctionOnSet(X, L) \in Nat
        /\ x \in K => SumFunctionOnSet(X, K) = X[x] + SumFunctionOnSet(X, L)
    BY <2>1, <2>2, SumFacts
  <2>4. CASE x \in DOMAIN X
    <3>1. SumFunctionOnSet(X, K) = Copies(X, x) + SumFunctionOnSet(X, L)
      BY <2>1, <2>3, <2>4 DEF Copies
    <3> QED BY <2>3, <3>1 DEF K, L
  <2>5. CASE x \notin DOMAIN X
    <3>1. K = L /\ Copies(X, x) = 0
      BY <2>1, <2>5 DEF Copies
    <3>2. SumFunctionOnSet(X, K) = Copies(X, x) + SumFunctionOnSet(X, L)
      BY <2>3, <3>1
    <3> QED BY <2>3, <3>2 DEF K, L
  <2> QED BY <2>4, <2>5
<1>3. ASSUME NEW T \in SUBSET S, \A x \in T : T \ {x} \in F PROVE T \in F
  <2>1. IsFiniteSet(T) /\ \A y \in T : U[y] \in Nat
    BY <1>1, FS_Subset
  <2>2. CASE T = {}
    <3>1. IsFiniteSet({}) /\ \A X : SumFunctionOnSet(X, {}) = 0
      <4>1. IsFiniteSet({})
        BY FS_EmptySet
      <4> QED BY <4>1, SumZero
    <3>2. \A X : T \cap DOMAIN X = {}
      BY <2>2
    <3>3. SumFunctionOnSet(U, T) = 0 /\ Total(B, T) = 0 /\ Total(C, T) = 0
      BY <2>2, <3>1, <3>2
    <3> HIDE DEF U, Total
    <3> QED BY <3>3
  <2>3. ASSUME NEW x \in T PROVE T \in F
    <3> DEFINE R == T \ {x}
    <3>1. SumFunctionOnSet(U, T) = U[x] + SumFunctionOnSet(U, R)
      BY <2>1, SumFacts
    <3>2. SumFunctionOnSet(U, R) = Total(B, R) + Total(C, R)
      BY <1>3
    <3>3. /\ Total(B, T) = Copies(B, x) + Total(B, R)
          /\ Total(C, T) = Copies(C, x) + Total(C, R)
          /\ Total(B, R) \in Nat /\ Total(C, R) \in Nat
      BY <1>2
    <3>4. U[x] = Copies(B, x) + Copies(C, x) /\ Copies(B, x) \in Nat /\ Copies(C, x) \in Nat
      BY <1>1, UnionCopies
    <3> HIDE DEF U, Total, R
    <3>5. SumFunctionOnSet(U, T) = Total(B, T) + Total(C, T)
      BY <3>1, <3>2, <3>3, <3>4
    <3> QED BY <3>5
  <2> QED BY <2>2, <2>3
<1> HIDE DEF U, Total
<1>4. S \in F
  <2> HIDE DEF F
  <2>1. \A T \in SUBSET S : T \in F
    BY <1>3, RemovalInduction
  <2> QED BY <2>1
<1> QED BY <1>4 DEF U, Total

\* The elements of T are as often in the bag of the values of f as f takes them.
LEMMA BagOfTotal ==
  ASSUME NEW f, NEW S, IsFiniteSet(S), NEW D \in SUBSET {f[k] : k \in S}
  PROVE  SumFunctionOnSet(BagOf(f, S), D) = Cardinality({k \in S : f[k] \in D})
<1> DEFINE B == BagOf(f, S)
           Into(T) == {k \in S : f[k] \in T}
           F == {T \in SUBSET D : SumFunctionOnSet(B, T) = Cardinality(Into(T))}
<1>1. IsFiniteSet(D)
  <2>1. IsFiniteSet({f[k] : k \in S})
    BY ImageFacts
  <2> QED BY <2>1, FS_Subset
<1>2. \A x \in D : B[x] = Cardinality({k \in S : f[k] = x})
  BY DEF BagOf
<1>3. \A x \in D : B[x] \in Nat
  BY BagOfIsBag DEF Bag
<1>4. ASSUME NEW T \in SUBSET D, \A x \in T : T \ {x} \in F PROVE T \in F
  <2>1. IsFiniteSet(T) /\ \A y \in T : B[y] \in Nat
    BY <1>1, <1>3, FS_Subset
  <2>2. CASE T = {}
    <3>1. Into(T) = {}
      BY <2>2
    <3>2. SumFunctionOnSet(B, T) = 0
      BY <2>1, <2>2, SumZero
    <3>3. Cardinality(Into(T)) = 0
      BY <3>1, FS_EmptySet
    <3> QED BY <3>2, <3>3
  <2>3. ASSUME NEW x \in T PROVE T \in F
    <3> DEFINE R == T \ {x}
               X == {k \in S : f[k] = x}
    <3>1. SumFunctionOnSet(B, T) = B[x] + SumFunctionOnSet(B, R)
      BY <2>1, SumFacts
    <3>2. SumFunctionOnSet(B, R) = Cardinality(Into(R))
      BY <1>4
    <3>3. IsFiniteSet(X) /\ IsFiniteSet(Into(R))
      BY FS_Subset
    <3>4. Into(T) = X \cup Into(R) /\ X \cap Into(R) = {}
      OBVIOUS
    <3>5. B[x] = Cardinality(X)
      BY <1>2
    <3> HIDE DEF B, R, X, Into
    <3>6. Cardinality(Into(T)) = Cardinality(X) + Cardinality(Into(R)) - Cardinality({})
      BY <3>3, <3>4, FS_Union
    <3>7. Cardinality(X) \in Nat /\ Cardinality(Into(R)) \in Nat /\ Cardinality({}) = 0
      BY <3>3, FS_CardinalityType, FS_EmptySet
    <3>8. SumFunctionOnSet(B, T) = Cardinality(Into(T))
      BY <3>1, <3>2, <3>5, <3>6, <3>7
    <3> QED BY <3>8
  <2> QED BY <2>2, <2>3
<1> HIDE DEF B, Into
<1>5. D \in F
  <2> HIDE DEF F
  <2>1. \A T \in SUBSET D : T \in F
    BY <1>1, <1>4, RemovalInduction
  <2> QED BY <2>1
<1> QED BY <1>5 DEF B, Into

\* The links of one window to a target were counted as often as the target.
LEMMA WindowTotals ==
  ASSUME NEW S, IsFiniteSet(S), NEW source, NEW target, NEW t
  PROVE  LET links == [k \in S |-> <<target[k], source[k]>>]
         IN  TotalTo(t, BagOf(links, S)) = Copies(BagOf(target, S), t)
<1> DEFINE links == [k \in S |-> <<target[k], source[k]>>]
           C == BagOf(links, S)
           D == LinksTo(t, DOMAIN C)
           T == {k \in S : target[k] = t}
<1>1. DOMAIN C = {links[k] : k \in S} /\ DOMAIN BagOf(target, S) = {target[k] : k \in S}
  BY DEF BagOf
<1>2. D \in SUBSET {links[k] : k \in S}
  BY <1>1 DEF LinksTo
<1>3. {k \in S : links[k] \in D} = T
  BY <1>1 DEF LinksTo
<1>4. SumFunctionOnSet(C, D) = Cardinality(T)
  <2> HIDE DEF links, D, T
  <2> QED BY <1>2, <1>3, BagOfTotal
<1>5. Copies(BagOf(target, S), t) = Cardinality(T)
  <2>1. CASE t \in DOMAIN BagOf(target, S)
    BY <2>1 DEF Copies, BagOf
  <2>2. CASE t \notin DOMAIN BagOf(target, S)
    <3>1. T = {}
      BY <1>1, <2>2
    <3>2. Cardinality(T) = 0
      BY <3>1, FS_EmptySet
    <3> QED BY <2>2, <3>2 DEF Copies
  <2> QED BY <2>1, <2>2
<1>6. TotalTo(t, C) = Copies(BagOf(target, S), t)
  BY <1>4, <1>5 DEF TotalTo
<1> HIDE DEF C
<1> QED BY <1>6 DEF C

\* No link to t is counted if t is no target, so its sum is what Copies says.
LEMMA BalancedCopies ==
  ASSUME NEW counts, NEW sums,
         DOMAIN sums = {link[1] : link \in DOMAIN counts},
         \A t \in DOMAIN sums : sums[t] = TotalTo(t, counts), NEW t
  PROVE  TotalTo(t, counts) = Copies(sums, t)
<1>1. CASE t \in DOMAIN sums
  BY <1>1 DEF Copies
<1>2. CASE t \notin DOMAIN sums
  <2>1. LinksTo(t, DOMAIN counts) = {}
    BY <1>2 DEF LinksTo
  <2>2. IsFiniteSet({})
    BY FS_EmptySet
  <2>3. SumFunctionOnSet(counts, {}) = 0
    BY <2>2, SumZero
  <2> QED BY <1>2, <2>1, <2>3 DEF TotalTo, Copies
<1> QED BY <1>1, <1>2

\* AddAll adds as much to the sum of a target as to the counts of its links.
LEMMA AddAllBalanced ==
  ASSUME NEW kb, Balanced(kb), DOMAIN kb = {"counts", "sums", "strengths"},
         NEW S, IsFiniteSet(S), NEW source, NEW target
  PROVE  Balanced(AddAll(kb, S, source, target))
<1> DEFINE links == [k \in S |-> <<target[k], source[k]>>]
           B == kb.counts
           C == BagOf(links, S)
           D == kb.sums
           E == BagOf(target, S)
           kb2 == AddAll(kb, S, source, target)
           U == B (+) C
           V == D (+) E
<1>1. /\ Bag(B) /\ Bag(D) /\ IsFiniteSet(DOMAIN B)
      /\ DOMAIN D = {link[1] : link \in DOMAIN B}
      /\ \A t \in DOMAIN D : D[t] = TotalTo(t, B)
  BY DEF Balanced
<1>2. /\ Bag(C) /\ Bag(E)
      /\ DOMAIN C = {links[k] : k \in S} /\ DOMAIN E = {target[k] : k \in S}
  BY BagOfIsBag
<1>3. IsFiniteSet(DOMAIN C) /\ DOMAIN E = {link[1] : link \in DOMAIN C}
  <2>1. IsFiniteSet({links[k] : k \in S})
    <3> HIDE DEF links
    <3> QED BY ImageFacts
  <2>2. {link[1] : link \in {links[k] : k \in S}} = {target[k] : k \in S}
    <3>1. \A k \in S : links[k][1] = target[k]
      OBVIOUS
    <3> HIDE DEF links
    <3> QED BY <3>1
  <2> HIDE DEF C, E, links
  <2> QED BY <1>2, <2>1, <2>2
<1>4. kb2.counts = U /\ kb2.sums = V /\ kb2.strengths = kb.strengths
  BY DEF AddAll
<1>5. \A t : TotalTo(t, C) = Copies(E, t)
  BY WindowTotals, Zenon
<1>6. \A t : TotalTo(t, B) = Copies(D, t)
  <2> HIDE DEF B, D
  <2> QED BY <1>1, BalancedCopies
<1> HIDE DEF B, C, D, E, kb2
<1>7. /\ Bag(U) /\ DOMAIN U = DOMAIN B \cup DOMAIN C
      /\ Bag(V) /\ DOMAIN V = DOMAIN D \cup DOMAIN E
  BY <1>1, <1>2, UnionIsBag
<1>8. IsFiniteSet(DOMAIN U)
  <2>1. IsFiniteSet(DOMAIN B \cup DOMAIN C)
    BY <1>1, <1>3, FS_Union
  <2> QED BY <1>7, <2>1
<1> HIDE DEF U, V
<1>9. DOMAIN V = {link[1] : link \in DOMAIN U}
  BY <1>1, <1>3, <1>7
<1>10. ASSUME NEW t \in DOMAIN V PROVE V[t] = TotalTo(t, U)
  <2> DEFINE L == LinksTo(t, DOMAIN U)
  <2>1. /\ L \subseteq DOMAIN B \cup DOMAIN C
        /\ L \cap DOMAIN B = LinksTo(t, DOMAIN B) /\ L \cap DOMAIN C = LinksTo(t, DOMAIN C)
    BY <1>7 DEF LinksTo
  <2>2. IsFiniteSet(L)
    BY <1>8, FS_Subset DEF LinksTo
  <2> HIDE DEF L
  <2>3. SumFunctionOnSet(U, L) = SumFunctionOnSet(B, L \cap DOMAIN B)
                                 + SumFunctionOnSet(C, L \cap DOMAIN C)
    BY <1>1, <1>2, <2>1, <2>2, UnionTotal DEF U
  <2>4. SumFunctionOnSet(U, L) = TotalTo(t, B) + TotalTo(t, C)
    BY <2>1, <2>3, Zenon DEF TotalTo
  <2>5. Copies(V, t) = Copies(D, t) + Copies(E, t)
    BY <1>1, <1>2, UnionCopies DEF V
  <2>6. V[t] = Copies(V, t)
    BY DEF Copies
  <2>7. TotalTo(t, U) = SumFunctionOnSet(U, L)
    BY DEF TotalTo, L
  <2> QED BY <1>5, <1>6, <2>4, <2>5, <2>6, <2>7
<1>11. SharesAddUp(kb2)
  BY <1>4 DEF Balanced, SharesAddUp
<1>12. Balanced(kb2)
  BY <1>4, <1>7, <1>8, <1>9, <1>10, <1>11 DEF Balanced
<1> QED BY <1>12 DEF kb2

-----------------------------------------------------------------------------
\* The inductive invariant.

LEMMA EmptyBagFacts == Bag(EmptyBag) /\ DOMAIN EmptyBag = {} /\ IsFiniteSet({})
<1>1. EmptyBag = [e \in {} |-> 1]
  BY DEF EmptyBag, SetToBag
<1> QED BY <1>1, FS_EmptySet DEF Bag

LEMMA EmptyBalanced ==
  DOMAIN EmptyKb = {"counts", "sums", "strengths"} /\ Balanced(EmptyKb)
<1>1. /\ EmptyKb.counts = EmptyBag /\ EmptyKb.sums = EmptyBag /\ EmptyKb.strengths = <<>>
      /\ DOMAIN EmptyKb = {"counts", "sums", "strengths"}
  BY DEF EmptyKb
<1>2. SharesAddUp(EmptyKb)
  BY <1>1, EmptySeq DEF SharesAddUp
<1> QED BY <1>1, <1>2, EmptyBagFacts DEF Balanced

\* ComputeLinkStrengths keeps the balance in the fractions, and empties the counts.
LEMMA StrengthsBalanced ==
  ASSUME NEW kb, Balanced(kb)
  PROVE  /\ DOMAIN ComputeLinkStrengths(kb) = {"counts", "sums", "strengths"}
         /\ Balanced(ComputeLinkStrengths(kb))
<1> DEFINE kb2 == ComputeLinkStrengths(kb)
           links == DOMAIN kb.counts
           count == [link \in DOMAIN kb2.strengths |-> kb2.strengths[link][1]]
<1>1. /\ kb2.counts = EmptyBag /\ kb2.sums = EmptyBag
      /\ kb2.strengths = [link \in links |-> <<kb.counts[link], kb.sums[link[1]]>>]
      /\ DOMAIN kb2 = {"counts", "sums", "strengths"}
  BY DEF ComputeLinkStrengths
<1>2. /\ DOMAIN kb2.strengths = links
      /\ \A link \in links : /\ count[link] = kb.counts[link]
                             /\ kb2.strengths[link][2] = kb.sums[link[1]]
  BY <1>1
<1> HIDE DEF kb2, count
<1>3. ASSUME NEW link \in links
      PROVE  /\ count[link] > 0
             /\ kb2.strengths[link][2] = SumFunctionOnSet(count, LinksTo(link[1], links))
  <2> DEFINE L == LinksTo(link[1], links)
  <2>1. kb.counts[link] \in Nat \ {0}
    BY DEF Balanced, Bag
  <2>2. IsFiniteSet(L) /\ \A l \in L : count[l] = kb.counts[l]
    BY <1>2, FS_Subset DEF LinksTo, Balanced
  <2>3. kb.sums[link[1]] = SumFunctionOnSet(kb.counts, L)
    BY DEF Balanced, TotalTo
  <2> HIDE DEF L, links
  <2>4. SumFunctionOnSet(count, L) = SumFunctionOnSet(kb.counts, L)
    BY <2>2, SumSame
  <2> QED BY <1>2, <2>1, <2>3, <2>4 DEF L
<1>4. SharesAddUp(kb2)
  BY <1>2, <1>3 DEF SharesAddUp, count
<1> QED BY <1>1, <1>4, EmptyBagFacts DEF Balanced, kb2

LEMMA InitIInv == Init => IInv
BY EmptyBalanced, EmptySeq, LearnAssumption DEF Init, IInv, TypeOK, AllBalanced, Tokens

\* A window leaves every knowledge base balanced.
LEMMA LinkedBalanced ==
  ASSUME NEW kb, Balanced(kb), DOMAIN kb = {"counts", "sums", "strengths"},
         NEW layout, NEW p
  PROVE  /\ DOMAIN Linked(kb, layout, p) = {"counts", "sums", "strengths"}
         /\ Balanced(Linked(kb, layout, p))
<1> DEFINE source == [k \in Shifts |-> Shifted(layout, k, p[1])]
           target == [k \in Shifts |-> Shifted(layout, k, p[2])]
           S == {k \in Shifts : source[k] # None /\ target[k] # None}
<1>1. IsFiniteSet(Shifts)
  BY FS_Interval, OrganizerAssumption DEF Shifts
<1>2. IsFiniteSet(S)
  BY <1>1, FS_Subset
<1>3. Linked(kb, layout, p) = AddAll(kb, S, source, target)
  BY Zenon DEF Linked
<1> HIDE DEF S, source, target
<1>4. DOMAIN AddAll(kb, S, source, target) = DOMAIN kb
  BY DEF AddAll
<1> QED BY <1>2, <1>3, <1>4, AddAllBalanced

LEMMA RestFacts ==
  ASSUME TypeOK
  PROVE  /\ Rest \in Seq(Tokens)
         /\ Large => /\ Len(Window) = NumWordModules
                     /\ Len(Rest) = Len(buffer) - (NumWordModules - MaxMultiWordSize)
<1>1. Len(buffer) \in Nat /\ buffer \in Seq(Tokens)
  BY LenProperties DEF TypeOK
<1>2. /\ NumWordModules \in Nat /\ MaxMultiWordSize \in Nat
      /\ MaxMultiWordSize >= 1 /\ NumWordModules > MaxMultiWordSize
  BY OrganizerAssumption, LearnAssumption
<1>3. CASE Large
  <2>1. Len(buffer) > NumWordModules
    BY <1>3 DEF Large
  <2>2. /\ SubSeq(buffer, NumWordModules - MaxMultiWordSize + 1, Len(buffer)) \in Seq(Tokens)
        /\ Len(SubSeq(buffer, NumWordModules - MaxMultiWordSize + 1, Len(buffer)))
             = Len(buffer) - (NumWordModules - MaxMultiWordSize)
    BY <1>1, <1>2, <2>1, SubSeqProperties
  <2>3. Len(SubSeq(buffer, 1, NumWordModules)) = NumWordModules
    BY <1>1, <1>2, <2>1, SubSeqProperties
  <2> QED BY <1>3, <2>2, <2>3 DEF Rest, Window
<1>4. CASE ~Large
  BY <1>4, EmptySeq DEF Rest
<1> QED BY <1>3, <1>4

LEMMA NextIInv == IInv /\ [Next]_vars => IInv'
<1> SUFFICES ASSUME IInv, [Next]_vars PROVE IInv'
  OBVIOUS
<1> USE DEF IInv
<1>1. CASE ReadSentence
  <2>1. read + 1 \in 1 .. Len(text) /\ text[read + 1] \in Seq(Tokens)
    BY <1>1, LenProperties, ElementOfSeq DEF ReadSentence, TypeOK
  <2>2. TypeOK'
    BY <1>1, <2>1 DEF ReadSentence, TypeOK
  <2> QED BY <1>1, <2>2 DEF ReadSentence, AllBalanced
<1>2. CASE FinishReading
  BY <1>2 DEF FinishReading, TypeOK, AllBalanced
<1>3. CASE LearnWindow
  <2>1. CASE AllHoles(Window) \/ SizesAgree
    <3>1. buffer' = Rest /\ UNCHANGED <<text, read>>
      BY <1>3, <2>1 DEF LearnWindow
    <3>2. \/ kbs' = kbs
          \/ \E layout : kbs' = [p \in KbPairs |-> Linked(kbs[p], layout, p)]
      BY <1>3, <2>1 DEF LearnWindow
    <3>3. DOMAIN kbs' = KbPairs
      BY <3>2 DEF TypeOK
    <3>4. AllBalanced'
      <4>1. CASE kbs' = kbs
        BY <4>1 DEF AllBalanced
      <4>2. ASSUME NEW layout, kbs' = [p \in KbPairs |-> Linked(kbs[p], layout, p)]
            PROVE  AllBalanced'
        <5>1. ASSUME NEW p \in KbPairs
              PROVE  /\ DOMAIN Linked(kbs[p], layout, p) = {"counts", "sums", "strengths"}
                     /\ Balanced(Linked(kbs[p], layout, p))
          BY LinkedBalanced DEF AllBalanced
        <5> QED BY <4>2, <5>1 DEF AllBalanced
      <4> QED BY <3>2, <4>1, <4>2
    <3> QED BY <3>1, <3>3, <3>4, RestFacts DEF TypeOK
  <2>2. CASE ~(AllHoles(Window) \/ SizesAgree)
    BY <1>3, <2>2 DEF LearnWindow, TypeOK, AllBalanced
  <2> QED BY <2>1, <2>2
<1>4. CASE LinkStrengths
  <2>1. AllBalanced'
    BY <1>4, StrengthsBalanced DEF LinkStrengths, AllBalanced
  <2> QED BY <1>4, <2>1 DEF LinkStrengths, TypeOK
<1>5. CASE UNCHANGED vars
  BY <1>5 DEF vars, TypeOK, AllBalanced
<1> QED BY <1>1, <1>2, <1>3, <1>4, <1>5 DEF Next

THEOREM Invariance == Spec => []IInv
<1> QED BY InitIInv, NextIInv, PTL DEF Spec

\* The sum of every target is the total of its links, so the fractions that
\* ComputeLinkStrength sees are the shares of those links in it, for any texts and
\* any architecture.
THEOREM FractionsAreProbabilities == Spec => []Probabilities
<1>1. IInv => Probabilities
  <2> SUFFICES ASSUME IInv, NEW p \in KbPairs
               PROVE  SumsAreTotals(kbs[p]) /\ SharesAddUp(kbs[p])
    BY DEF Probabilities
  <2>1. Balanced(kbs[p])
    BY DEF IInv, AllBalanced
  <2> QED BY <2>1 DEF Balanced, SumsAreTotals, TotalTo
<1> QED BY <1>1, Invariance, PTL

-----------------------------------------------------------------------------
\* A piece of a piece.
LEMMA PieceOfPiece ==
  ASSUME NEW T, NEW s \in Seq(T),
         NEW l \in 1 .. (Len(s) + 1), NEW r \in 0 .. Len(s), l <= r + 1,
         NEW k \in Nat, NEW n \in Nat, k + n <= r - l + 1
  PROVE  SubSeq(SubSeq(s, l, r), k + 1, k + n) = SubSeq(s, l + k, l + k + n - 1)
<1> DEFINE u == SubSeq(s, l, r)
<1>0. Len(s) \in Nat
  BY LenProperties
<1>1. /\ u \in Seq(T) /\ Len(u) = r - l + 1
      /\ \A i \in 1 .. (r - l + 1) : u[i] = s[l + i - 1]
  BY <1>0, SubSeqProperties
<1> HIDE DEF u
<1>2. /\ SubSeq(u, k + 1, k + n) \in Seq(T) /\ Len(SubSeq(u, k + 1, k + n)) = n
      /\ \A i \in 1 .. n : SubSeq(u, k + 1, k + n)[i] = u[k + 1 + i - 1]
  BY <1>1, SubSeqProperties
<1>3. /\ SubSeq(s, l + k, l + k + n - 1) \in Seq(T)
      /\ Len(SubSeq(s, l + k, l + k + n - 1)) = n
      /\ \A i \in 1 .. n : SubSeq(s, l + k, l + k + n - 1)[i] = s[l + k + i - 1]
  BY <1>0, SubSeqProperties
<1>4. \A i \in 1 .. n : u[k + 1 + i - 1] = s[l + k + i - 1]
  BY <1>1
<1> QED BY <1>2, <1>3, <1>4, SeqEqual DEF u

\* Windows overlap enough: whatever the sizes, a stretch of one word more than
\* the longest phrase is never cut by the end of a window.
THEOREM WindowsOverlap == Spec => NoStretchCut
<1>1. IInv /\ [Next]_vars =>
        [buffer' # buffer /\ pc = "window" =>
           \A n \in 1 .. (MaxMultiWordSize + 1) : \A k \in 0 .. (Len(buffer) - n) :
             InPiece(Window, k, n) \/ InPiece(buffer', k, n)]_vars
  <2> SUFFICES ASSUME IInv, Next, buffer' # buffer, pc = "window",
                      NEW n \in 1 .. (MaxMultiWordSize + 1),
                      NEW k \in 0 .. (Len(buffer) - n)
               PROVE  InPiece(Window, k, n) \/ InPiece(buffer', k, n)
    OBVIOUS
  <2>1. buffer' = Rest
    BY DEF Next, ReadSentence, FinishReading, LearnWindow, LinkStrengths
  <2>2. /\ NumWordModules \in Nat /\ MaxMultiWordSize \in Nat
        /\ NumWordModules > MaxMultiWordSize
    BY OrganizerAssumption, LearnAssumption
  <2>3. buffer \in Seq(Tokens) /\ Len(buffer) \in Nat /\ TypeOK
    BY LenProperties DEF IInv, TypeOK
  <2>4. CASE ~Large
    <3>1. Window = buffer
      BY <2>4 DEF Window
    <3> QED BY <3>1 DEF InPiece
  <2>5. CASE Large /\ k + n <= NumWordModules
    <3>1. Len(buffer) > NumWordModules
      BY <2>5 DEF Large
    <3>2. SubSeq(SubSeq(buffer, 1, NumWordModules), k + 1, k + n)
            = SubSeq(buffer, 1 + k, 1 + k + n - 1)
      BY <2>2, <2>3, <2>5, <3>1, PieceOfPiece
    <3>3. Window = SubSeq(buffer, 1, NumWordModules) /\ Len(Window) = NumWordModules
      BY <2>3, <2>5, RestFacts DEF Window
    <3>4. 1 + k = k + 1 /\ 1 + k + n - 1 = k + n /\ k \in 0 .. (NumWordModules - n)
      BY <2>2, <2>5
    <3> QED BY <3>2, <3>3, <3>4 DEF InPiece
  <2>6. CASE Large /\ ~(k + n <= NumWordModules)
    <3> DEFINE l == NumWordModules - MaxMultiWordSize + 1
               j == k - (NumWordModules - MaxMultiWordSize)
    <3>1. Len(buffer) > NumWordModules
      BY <2>6 DEF Large
    <3>2. /\ l \in 1 .. (Len(buffer) + 1) /\ l <= Len(buffer) + 1
          /\ j \in Nat /\ j + n <= Len(buffer) - l + 1
          /\ l + j = k + 1 /\ l + j + n - 1 = k + n
      BY <2>2, <2>3, <2>6, <3>1
    <3>3. Rest = SubSeq(buffer, l, Len(buffer))
          /\ Len(Rest) = Len(buffer) - (NumWordModules - MaxMultiWordSize)
      BY <2>3, <2>6, RestFacts DEF Rest
    <3>4. j \in 0 .. (Len(Rest) - n)
      BY <2>2, <2>3, <3>2, <3>3
    <3> HIDE DEF l, j
    <3>5. SubSeq(SubSeq(buffer, l, Len(buffer)), j + 1, j + n)
            = SubSeq(buffer, l + j, l + j + n - 1)
      BY <2>3, <3>2, PieceOfPiece
    <3> QED BY <2>1, <3>2, <3>3, <3>4, <3>5 DEF InPiece
  <2> QED BY <2>4, <2>5, <2>6
<1> QED BY <1>1, Invariance, PTL DEF Spec, NoStretchCut
-----------------------------------------------------------------------------
\* Below 64 word modules the assertion of ProduceKnowledgeLinkCombinations holds:
\* the sum that it keeps in an int8_t does not wrap.
THEOREM SizesFit ==
  ASSUME NumWordModules <= 63
  PROVE  Spec => []SizesAsserted
<1>1. SizesAgree
  <2>1. 2 * NumWordModules + 128 \in 0 .. 254
    BY OrganizerAssumption
  <2>2. (2 * NumWordModules + 128) % 256 = 2 * NumWordModules + 128
    BY <2>1
  <2> QED BY <2>2, OrganizerAssumption DEF SizesAgree, Int8
<1>2. Init => SizesAsserted
  BY DEF Init, SizesAsserted
<1>3. SizesAsserted /\ [Next]_vars => SizesAsserted'
  BY <1>1 DEF SizesAsserted, Next, vars, ReadSentence, FinishReading, LearnWindow,
              LinkStrengths
<1> QED BY <1>2, <1>3, PTL DEF Spec
-----------------------------------------------------------------------------
\* Nothing is linked but what the text shows.

\* What is in the buffer while windows are taken from it: the end of the sentence
\* that was read last, which is one of those that are learned.
EndOfSentence ==
  pc = "window" =>
    /\ read \in Learned
    /\ \E l \in 1 .. (Len(text[read]) + 1) :
         buffer = SubSeq(text[read], l, Len(text[read]))

TextInv == IInv /\ EndOfSentence /\ OnlyTheText

\* The links that the combinations of one layout add to the knowledge base of p.
LinksOf(layout, p) ==
  {<<Shifted(layout, k, p[2]), Shifted(layout, k, p[1])>> :
     k \in {k \in Shifts : Shifted(layout, k, p[1]) # None /\ Shifted(layout, k, p[2]) # None}}

LEMMA LinkedDomain ==
  ASSUME NEW kb, Balanced(kb), DOMAIN kb = {"counts", "sums", "strengths"},
         NEW layout, NEW p
  PROVE  DOMAIN Linked(kb, layout, p).counts = DOMAIN kb.counts \cup LinksOf(layout, p)
<1> DEFINE source == [k \in Shifts |-> Shifted(layout, k, p[1])]
           target == [k \in Shifts |-> Shifted(layout, k, p[2])]
           S == {k \in Shifts : source[k] # None /\ target[k] # None}
           links == [k \in S |-> <<target[k], source[k]>>]
<1>1. IsFiniteSet(Shifts)
  BY FS_Interval, OrganizerAssumption DEF Shifts
<1>2. IsFiniteSet(S)
  BY <1>1, FS_Subset
<1>3. Linked(kb, layout, p) = AddAll(kb, S, source, target)
  BY Zenon DEF Linked
<1>4. AddAll(kb, S, source, target).counts = kb.counts (+) BagOf(links, S)
  BY DEF AddAll
<1>5. Bag(BagOf(links, S)) /\ DOMAIN BagOf(links, S) = {links[k] : k \in S}
  <2> HIDE DEF S, links
  <2> QED BY <1>2, BagOfIsBag
<1>6. Bag(kb.counts)
  BY DEF Balanced
<1>7. {links[k] : k \in S} = LinksOf(layout, p)
  BY DEF LinksOf
<1> HIDE DEF S, links, source, target
<1>8. DOMAIN (kb.counts (+) BagOf(links, S)) = DOMAIN kb.counts \cup DOMAIN BagOf(links, S)
  BY <1>5, <1>6, UnionIsBag
<1> QED BY <1>3, <1>4, <1>5, <1>7, <1>8

\* A symbol on a shifted layout occurs in the window, at the module's place less
\* the shift.
LEMMA ShiftedOccurs ==
  ASSUME NEW w \in Seq(Tokens), NEW k \in Shifts, NEW m \in A!Modules,
         Shifted(Organize(w), k, m) # None
  PROVE  /\ Shifted(Organize(w), k, m) \in Seq(Tokens)
         /\ Place(m) \in Nat /\ Place(m) - k \in Positions
         /\ StandsAt(w, Place(m) - k, Shifted(Organize(w), k, m))
<1>1. Holds(WordTrie, Tokens, {<<v>> : v \in Words})
  BY WordTrieHolds DEF Tokens
<1>2. Holds(PhraseTrie, Tokens, Phrases)
  <2>1. \A s \in Seq(Words) : s \in Seq(Tokens)
    BY DEF Tokens
  <2> QED BY <2>1, PhraseTrieHolds, LearnAssumption
<1>3. NumWordModules \in Nat \ {0} /\ m \in 0 .. (2 * NumWordModules - 1)
  BY OrganizerAssumption DEF A!Modules, A!N
<1>4. CASE m < NumWordModules
  <2>1. Place(m) = m
    BY <1>3, <1>4 DEF Place
  <2>2. Shifted(Organize(w), k, m) = ShiftedLevel(Level(WordTrie, w), k, m)
    BY <1>4 DEF Shifted, Organize
  <2>3. m - k \in Positions /\ ShiftedLevel(Level(WordTrie, w), k, m) = Level(WordTrie, w)[m - k]
    BY <2>2 DEF ShiftedLevel
  <2> QED BY <1>1, <1>3, <2>1, <2>2, <2>3, LevelFacts
<1>5. CASE ~(m < NumWordModules)
  <2>1. Place(m) = m - NumWordModules
    BY <1>3, <1>5 DEF Place
  <2>2. Shifted(Organize(w), k, m)
          = ShiftedLevel(Level(PhraseTrie, w), k, m - NumWordModules)
    BY <1>5 DEF Shifted, Organize
  <2>3. /\ m - NumWordModules - k \in Positions
        /\ ShiftedLevel(Level(PhraseTrie, w), k, m - NumWordModules)
             = Level(PhraseTrie, w)[m - NumWordModules - k]
    BY <2>2 DEF ShiftedLevel
  <2> QED BY <1>2, <1>3, <1>5, <2>1, <2>2, <2>3, LevelFacts
<1> QED BY <1>4, <1>5

\* What occurs in the window of the end of a sentence occurs in the sentence.
LEMMA WindowOccurs ==
  ASSUME NEW s \in Seq(Tokens), NEW l \in 1 .. (Len(s) + 1), buffer = SubSeq(s, l, Len(s)),
         NEW k \in Nat, NEW v \in Seq(Tokens), StandsAt(Window, k, v)
  PROVE  OccursAt(v, s, l - 1 + k)
<1> DEFINE n == Len(v)
<1>0. Len(s) \in Nat /\ n \in Nat
  BY LenProperties
<1>1. buffer \in Seq(Tokens) /\ Len(buffer) = Len(s) - l + 1
  BY <1>0, SubSeqProperties
<1>2. NumWordModules \in Nat
  BY OrganizerAssumption
<1>3. \E r \in 0 .. Len(s) : l <= r + 1 /\ Window = SubSeq(s, l, r) /\ Len(Window) = r - l + 1
  <2>1. CASE Large
    <3>1. NumWordModules < Len(buffer)
      BY <2>1 DEF Large
    <3>2. SubSeq(SubSeq(s, l, Len(s)), 0 + 1, 0 + NumWordModules)
            = SubSeq(s, l + 0, l + 0 + NumWordModules - 1)
      BY <1>0, <1>1, <1>2, <3>1, PieceOfPiece
    <3>3. Window = SubSeq(s, l, l + NumWordModules - 1)
      <4>1. 0 + 1 = 1 /\ 0 + NumWordModules = NumWordModules /\ l + 0 = l
        BY <1>2
      <4> QED BY <2>1, <3>2, <4>1 DEF Window
    <3>4. Len(Window) = NumWordModules
      BY <1>0, <1>1, <1>2, <2>1, <3>1, SubSeqProperties DEF Window
    <3>5. l + NumWordModules - 1 \in 0 .. Len(s)
      BY <1>0, <1>1, <1>2, <3>1
    <3> QED BY <1>2, <3>3, <3>4, <3>5
  <2>2. CASE ~Large
    BY <1>0, <1>1, <2>2 DEF Window
  <2> QED BY <2>1, <2>2
<1>4. PICK r \in 0 .. Len(s) : l <= r + 1 /\ Window = SubSeq(s, l, r) /\ Len(Window) = r - l + 1
  BY <1>3
<1>5. k + n <= r - l + 1 /\ SubSeq(Window, k + 1, k + n) = v
  BY <1>4 DEF StandsAt
<1>6. SubSeq(SubSeq(s, l, r), k + 1, k + n) = SubSeq(s, l + k, l + k + n - 1)
  BY <1>0, <1>4, <1>5, PieceOfPiece
<1>7. l - 1 + k \in 0 .. (Len(s) - n)
  BY <1>0, <1>5
<1>8. l - 1 + k + 1 = l + k /\ l - 1 + k + n = l + k + n - 1
  BY <1>0
<1> QED BY <1>4, <1>5, <1>6, <1>7, <1>8 DEF OccursAt

\* So a link of the window is a pair that the sentence shows.
LEMMA LinkShown ==
  ASSUME NEW s \in Seq(Tokens), NEW l \in 1 .. (Len(s) + 1), buffer = SubSeq(s, l, Len(s)),
         Window \in Seq(Tokens), NEW p \in KbPairs, NEW k \in Shifts,
         Shifted(Organize(Window), k, p[1]) # None, Shifted(Organize(Window), k, p[2]) # None
  PROVE  Pairs(s, Shifted(Organize(Window), k, p[1]), Shifted(Organize(Window), k, p[2]),
               Distance(p)) # {}
<1> DEFINE source == Shifted(Organize(Window), k, p[1])
           target == Shifted(Organize(Window), k, p[2])
           at == l - 1 + (Place(p[1]) - k)
<1>1. p[1] \in A!Modules /\ p[2] \in A!Modules
  BY DEF KbPairs, Matrix
<1>2. k \in Int /\ Len(s) \in Nat
  BY OrganizerAssumption, LenProperties DEF Shifts
<1>3. /\ source \in Seq(Tokens) /\ Place(p[1]) \in Nat /\ Place(p[1]) - k \in Nat
      /\ StandsAt(Window, Place(p[1]) - k, source)
  BY <1>1, ShiftedOccurs, PositionFacts
<1>4. /\ target \in Seq(Tokens) /\ Place(p[2]) \in Nat /\ Place(p[2]) - k \in Nat
      /\ StandsAt(Window, Place(p[2]) - k, target)
  BY <1>1, ShiftedOccurs, PositionFacts
<1> HIDE DEF source, target
<1>5. OccursAt(source, s, at)
  BY <1>3, WindowOccurs
<1>6. OccursAt(target, s, l - 1 + (Place(p[2]) - k))
  BY <1>4, WindowOccurs
<1>7. at + Distance(p) = l - 1 + (Place(p[2]) - k)
  <2> DEFINE a == Place(p[1])
             b == Place(p[2])
  <2>1. a \in Nat /\ b \in Nat /\ Distance(p) = b - a
    BY <1>3, <1>4 DEF Distance
  <2>2. at = l - 1 + (a - k)
    OBVIOUS
  <2> HIDE DEF a, b, at
  <2>3. l - 1 + (a - k) + (b - a) = l - 1 + (b - k)
    BY <1>2, <2>1
  <2> QED BY <2>1, <2>2, <2>3 DEF b
<1>8. at \in 0 .. Len(s)
  <2>1. Len(source) \in Nat
    BY <1>3, LenProperties
  <2> QED BY <1>2, <1>5, <2>1 DEF OccursAt
<1>9. at \in Pairs(s, source, target, Distance(p))
  <2> HIDE DEF at
  <2> QED BY <1>5, <1>6, <1>7, <1>8 DEF Pairs
<1> QED BY <1>9 DEF source, target

LEMMA InitTextInv == Init => TextInv
<1> SUFFICES ASSUME Init PROVE TextInv
  OBVIOUS
<1>1. DOMAIN EmptyKb.counts = {}
  BY DEF EmptyKb, EmptyBag, SetToBag
<1>2. OnlyTheText
  BY <1>1 DEF Init, OnlyTheText
<1> QED BY <1>2, InitIInv DEF Init, TextInv, EndOfSentence

\* What was learned stays learned; one more sentence may be.
LEMMA OnlyMoreText ==
  ASSUME OnlyTheText, kbs' = kbs, text' = text, read \in Nat, read' \in {read, read + 1}
  PROVE  OnlyTheText'
<1>1. Learned \subseteq Learned'
  BY DEF Learned
<1>2. \A n, u, v, d : Pairs(text[n], u, v, d)' = Pairs(text[n], u, v, d)
  BY DEF Pairs, OccursAt
<1> SUFFICES ASSUME NEW p \in KbPairs, NEW link \in DOMAIN kbs[p].counts
             PROVE  \E n \in Learned' : Pairs(text[n], link[2], link[1], Distance(p)) # {}
  BY DEF OnlyTheText
<1> QED BY <1>1 DEF OnlyTheText

LEMMA NextTextInv == TextInv /\ [Next]_vars => TextInv'
<1> SUFFICES ASSUME TextInv, [Next]_vars PROVE TextInv'
  OBVIOUS
<1>1. IInv /\ IInv'
  BY NextIInv DEF TextInv
<1>2. text \in Seq(Seq(Tokens)) /\ read \in 0 .. Len(text) /\ Len(text) \in Nat
  BY <1>1, LenProperties DEF IInv, TypeOK
<1>3. CASE ReadSentence
  <2>1. text' = text /\ kbs' = kbs /\ read' = read + 1
    BY <1>3 DEF ReadSentence
  <2>2. EndOfSentence'
    <3>1. CASE Len(text[read + 1]) < 2
      BY <1>3, <3>1 DEF ReadSentence, EndOfSentence
    <3>2. CASE ~(Len(text[read + 1]) < 2)
      <4>1. buffer' = text[read + 1]
        BY <1>3, <3>2 DEF ReadSentence
      <4>2. read + 1 \in 1 .. Len(text) /\ text[read + 1] \in Seq(Tokens)
        BY <1>2, <1>3, ElementOfSeq DEF ReadSentence
      <4>3. Len(text[read + 1]) \in Nat /\ Len(text[read + 1]) >= 2
        BY <3>2, <4>2, LenProperties
      <4>4. read' \in Learned'
        BY <1>2, <2>1, <4>3 DEF Learned
      <4>5. text[read + 1] = SubSeq(text[read + 1], 1, Len(text[read + 1]))
        BY <4>2, <4>3, SubSeqProperties, SeqEqual
      <4> QED BY <2>1, <4>1, <4>3, <4>4, <4>5 DEF EndOfSentence
    <3> QED BY <3>1, <3>2
  <2> QED BY <1>1, <1>2, <2>1, <2>2, OnlyMoreText DEF TextInv
<1>4. CASE FinishReading
  <2>1. OnlyTheText'
    BY <1>2, <1>4, OnlyMoreText DEF FinishReading, TextInv
  <2> QED BY <1>1, <1>4, <2>1 DEF FinishReading, TextInv, EndOfSentence
<1>5. CASE LearnWindow
  <2>1. read \in Learned /\ read \in 1 .. Len(text) /\ text[read] \in Seq(Tokens)
    BY <1>2, <1>5, ElementOfSeq DEF LearnWindow, TextInv, EndOfSentence, Learned
  <2> DEFINE s == text[read]
  <2>2. PICK l \in 1 .. (Len(s) + 1) : buffer = SubSeq(s, l, Len(s))
    BY <1>5 DEF LearnWindow, TextInv, EndOfSentence
  <2>3. Len(s) \in Nat /\ NumWordModules \in Nat /\ MaxMultiWordSize \in Nat
        /\ MaxMultiWordSize >= 1 /\ NumWordModules > MaxMultiWordSize
    BY <2>1, LenProperties, OrganizerAssumption, LearnAssumption
  <2>4. buffer \in Seq(Tokens) /\ Len(buffer) = Len(s) - l + 1
    BY <2>1, <2>3, SubSeqProperties, <2>2
  <2>5. text' = text /\ read' = read
    BY <1>5 DEF LearnWindow
  <2>6. EndOfSentence'
    <3> SUFFICES ASSUME pc' = "window" PROVE EndOfSentence'
      BY DEF EndOfSentence
    <3>1. buffer' = Rest /\ Len(Rest) >= 2
      BY <1>5 DEF LearnWindow
    <3>2. Large
      BY <3>1, EmptySeq DEF Rest
    <3> DEFINE j == NumWordModules - MaxMultiWordSize
    <3>3. Rest = SubSeq(buffer, j + 1, Len(buffer))
      BY <3>2 DEF Rest
    <3>4. Len(buffer) > NumWordModules
      BY <3>2 DEF Large
    <3> DEFINE n == Len(buffer) - j
    <3>5. j \in Nat /\ j < NumWordModules /\ j + n = Len(buffer)
      BY <2>3
    <3>6. n \in Nat /\ l + j \in 1 .. (Len(s) + 1) /\ j + n = Len(s) - l + 1
          /\ l + j + n - 1 = Len(s)
      <4> DEFINE b == Len(buffer)
                 m == Len(s)
      <4>1. b = m - l + 1 /\ m \in Nat /\ b > NumWordModules /\ l \in 1 .. (m + 1)
        BY <2>3, <2>4, <3>4
      <4>2. n = b - j
        OBVIOUS
      <4> HIDE DEF b, m, n, j
      <4>3. n \in Nat /\ l + j \in 1 .. (m + 1) /\ j + n = m - l + 1 /\ l + j + n - 1 = m
        BY <2>3, <3>5, <4>1, <4>2
      <4> QED BY <4>3 DEF m
    <3> HIDE DEF j, n
    <3>7. SubSeq(SubSeq(s, l, Len(s)), j + 1, j + n) = SubSeq(s, l + j, l + j + n - 1)
      <4> HIDE DEF s
      <4>1. s \in Seq(Tokens)
        BY <2>1 DEF s
      <4>2. /\ l \in 1 .. (Len(s) + 1) /\ Len(s) \in 0 .. Len(s) /\ l <= Len(s) + 1
            /\ j + n <= Len(s) - l + 1
        BY <2>3, <3>6
      <4> QED BY <3>5, <3>6, <4>1, <4>2, PieceOfPiece
    <3>8. Rest = SubSeq(s, l + j, Len(s))
      BY <2>2, <3>3, <3>5, <3>6, <3>7
    <3>9. Learned' = Learned
      BY <2>5 DEF Learned
    <3> QED BY <2>1, <2>5, <3>1, <3>6, <3>8, <3>9 DEF EndOfSentence
  <2>7. OnlyTheText'
    <3>1. CASE kbs' = kbs
      BY <1>2, <2>5, <3>1, OnlyMoreText DEF TextInv
    <3>2. CASE kbs' = [p \in KbPairs |-> Linked(kbs[p], Organize(Window), p)]
      <4> DEFINE layout == Organize(Window)
      <4> HIDE DEF layout
      <4>0. Learned' = Learned
        BY <2>5 DEF Learned
      <4>5. \A p \in KbPairs : kbs'[p] = Linked(kbs[p], layout, p)
        BY <3>2 DEF layout
      <4> SUFFICES ASSUME NEW p \in KbPairs, NEW link,
                          link \in DOMAIN Linked(kbs[p], layout, p).counts
                   PROVE  \E n \in Learned : Pairs(text[n], link[2], link[1], Distance(p)) # {}
        BY <2>5, <4>0, <4>5 DEF OnlyTheText
      <4>1. Balanced(kbs[p]) /\ DOMAIN kbs[p] = {"counts", "sums", "strengths"}
        BY <1>1 DEF IInv, AllBalanced
      <4>2. CASE link \in DOMAIN kbs[p].counts
        BY <4>2 DEF TextInv, OnlyTheText
      <4>3. CASE link \notin DOMAIN kbs[p].counts
        <5>1. PICK k \in Shifts :
                /\ Shifted(layout, k, p[1]) # None /\ Shifted(layout, k, p[2]) # None
                /\ link = <<Shifted(layout, k, p[2]), Shifted(layout, k, p[1])>>
          <6>1. link \in LinksOf(layout, p)
            <7>1. DOMAIN Linked(kbs[p], layout, p).counts
                    = DOMAIN kbs[p].counts \cup LinksOf(layout, p)
              BY <4>1, LinkedDomain, Zenon
            <7> QED BY <4>3, <7>1
          <6> QED BY <6>1 DEF LinksOf
        <5>2. Window \in Seq(Tokens)
          <6>1. Large => NumWordModules <= Len(buffer)
            BY <2>3, <2>4 DEF Large
          <6> QED BY <2>3, <2>4, <6>1, SubSeqProperties DEF Window
        <5>3. Pairs(s, link[2], link[1], Distance(p)) # {}
          <6>1. link[2] = Shifted(layout, k, p[1]) /\ link[1] = Shifted(layout, k, p[2])
            BY <5>1
          <6>2. Pairs(s, Shifted(layout, k, p[1]), Shifted(layout, k, p[2]), Distance(p)) # {}
            BY <2>1, <2>2, <5>1, <5>2, LinkShown DEF layout
          <6> QED BY <6>1, <6>2, Zenon
        <5> QED BY <2>1, <5>3
      <4> QED BY <4>2, <4>3
    <3> QED BY <1>5, <3>1, <3>2 DEF LearnWindow
  <2> QED BY <1>1, <2>6, <2>7 DEF TextInv
<1>6. CASE LinkStrengths
  <2>1. DOMAIN EmptyBag = {}
    BY DEF EmptyBag, SetToBag
  <2>2. OnlyTheText'
    BY <1>6, <2>1 DEF LinkStrengths, OnlyTheText, ComputeLinkStrengths
  <2> QED BY <1>1, <1>6, <2>2 DEF LinkStrengths, TextInv, EndOfSentence
<1>7. CASE UNCHANGED vars
  <2>1. OnlyTheText'
    BY <1>2, <1>7, OnlyMoreText DEF vars, TextInv
  <2> QED BY <1>1, <1>7, <2>1 DEF vars, TextInv, EndOfSentence, Learned
<1> QED BY <1>3, <1>4, <1>5, <1>6, <1>7 DEF Next

\* Whatever the knowledge base of two modules links, the text that was read shows,
\* in one sentence at the distance of the two modules: the windows, the layout and
\* its shifts put no two symbols together that do not stand together.
THEOREM LinksAreShown == Spec => []OnlyTheText
<1>1. Spec => []TextInv
  BY InitTextInv, NextTextInv, PTL DEF Spec
<1> QED BY <1>1, PTL DEF TextInv
-----------------------------------------------------------------------------
\* Modules of the same levels at the same distance learn the same.

\* A bag does not depend on how its elements are numbered.
Moved(S, d) == {k + d : k \in S}

LEMMA ShiftedBag ==
  ASSUME NEW S \in SUBSET Int, IsFiniteSet(S), NEW d \in Int,
         NEW f, NEW g, \A k \in S : g[k + d] = f[k]
  PROVE  BagOf(f, S) = BagOf(g, Moved(S, d))
<1> DEFINE R == Moved(S, d)
<1>1. {f[k] : k \in S} = {g[k] : k \in R}
  BY DEF Moved
<1>2. ASSUME NEW e PROVE Cardinality({k \in S : f[k] = e}) = Cardinality({k \in R : g[k] = e})
  <2> DEFINE K == {k \in S : f[k] = e}
             h == [k \in K |-> k + d]
  <2>1. {h[k] : k \in K} = {k \in R : g[k] = e}
    BY DEF Moved
  <2>2. \A k, l \in K : h[k] = h[l] => k = l
    <3>1. \A k \in K : k \in Int /\ h[k] = k + d
      OBVIOUS
    <3>2. ASSUME NEW k \in K, NEW l \in K, h[k] = h[l] PROVE k = l
      <4>1. k \in Int /\ l \in Int /\ k + d = l + d
        BY <3>1, <3>2
      <4> HIDE DEF K, h
      <4> QED BY <4>1
    <3> QED BY <3>2
  <2>3. IsFiniteSet(K)
    BY FS_Subset
  <2> HIDE DEF K, h
  <2>4. Cardinality({h[k] : k \in K}) = Cardinality(K)
    BY <2>2, <2>3, ImageFacts
  <2> QED BY <2>1, <2>4 DEF K
<1> QED BY <1>1, <1>2 DEF BagOf

LEMMA PlaceFacts ==
  ASSUME NEW m \in A!Modules
  PROVE  /\ Place(m) \in Positions
         /\ \A layout, k : Shifted(layout, k, m)
              = IF m < NumWordModules THEN ShiftedLevel(layout.words, k, Place(m))
                ELSE ShiftedLevel(layout.phrases, k, Place(m))
<1>1. NumWordModules \in Nat \ {0} /\ m \in 0 .. (2 * NumWordModules - 1)
  BY OrganizerAssumption DEF A!Modules, A!N
<1>2. Place(m) = IF m < NumWordModules THEN m ELSE m - NumWordModules
  BY <1>1 DEF Place
<1> QED BY <1>1, <1>2 DEF Positions, Shifted

\* The combinations at which p links a layout.
LinkedAt(layout, p) ==
  {k \in Shifts : Shifted(layout, k, p[1]) # None /\ Shifted(layout, k, p[2]) # None}

\* Inside the architecture no combination is out of reach: those of one module pair
\* are those of another one, shifted by the distance between the two.
LEMMA InsideReaches ==
  ASSUME NEW layout, NEW p \in KbPairs, NEW q \in KbPairs, Alike(p, q), Inner(q)
  PROVE  \A k \in LinkedAt(layout, p) :
           LET d == Place(q[1]) - Place(p[1])
           IN  /\ k + d \in LinkedAt(layout, q)
               /\ Shifted(layout, k + d, q[1]) = Shifted(layout, k, p[1])
               /\ Shifted(layout, k + d, q[2]) = Shifted(layout, k, p[2])
<1> SUFFICES ASSUME NEW k \in LinkedAt(layout, p)
             PROVE  LET d == Place(q[1]) - Place(p[1])
                    IN  /\ k + d \in LinkedAt(layout, q)
                        /\ Shifted(layout, k + d, q[1]) = Shifted(layout, k, p[1])
                        /\ Shifted(layout, k + d, q[2]) = Shifted(layout, k, p[2])
  OBVIOUS
<1> DEFINE d == Place(q[1]) - Place(p[1])
<1>1. p[1] \in A!Modules /\ p[2] \in A!Modules /\ q[1] \in A!Modules /\ q[2] \in A!Modules
  BY DEF KbPairs, Matrix
<1>2. /\ Place(p[1]) \in Positions /\ Place(p[2]) \in Positions
      /\ Place(q[1]) \in Positions /\ Place(q[2]) \in Positions
  BY <1>1, PlaceFacts
<1>3. /\ k \in Shifts /\ Shifted(layout, k, p[1]) # None /\ Shifted(layout, k, p[2]) # None
  BY DEF LinkedAt
<1>4. Place(p[1]) - k \in Positions /\ Place(p[2]) - k \in Positions
  BY <1>1, <1>3, PlaceFacts DEF ShiftedLevel
<1>5. NumWordModules \in Nat \ {0}
  BY OrganizerAssumption
<1>6. /\ Place(q[1]) - (k + d) = Place(p[1]) - k /\ Place(q[2]) - (k + d) = Place(p[2]) - k
      /\ k + d \in Shifts
  <2> DEFINE a == Place(p[1])
             b == Place(p[2])
             x == Place(q[1])
             y == Place(q[2])
  <2>1. b - a = y - x /\ (x >= 2 \/ y >= 2)
        /\ (x <= NumWordModules - 2 \/ y <= NumWordModules - 2)
    BY DEF Alike, Inner, Distance
  <2>2. d = x - a
    OBVIOUS
  <2> HIDE DEF a, b, x, y, d
  <2>3. x - (k + d) = a - k /\ y - (k + d) = b - k /\ k + d \in Shifts
    BY <1>2, <1>3, <1>4, <1>5, <2>1, <2>2 DEF Positions, Shifts, a, b, x, y
  <2> QED BY <2>3 DEF a, b, x, y
<1>7. (p[1] < NumWordModules <=> q[1] < NumWordModules)
      /\ (p[2] < NumWordModules <=> q[2] < NumWordModules)
  <2>1. 1 \in 1 .. 2 /\ 2 \in 1 .. 2
    OBVIOUS
  <2> QED BY <2>1 DEF Alike
<1>8. Shifted(layout, k + d, q[1]) = Shifted(layout, k, p[1])
  <2> HIDE DEF d
  <2>1. \A level : ShiftedLevel(level, k + d, Place(q[1])) = ShiftedLevel(level, k, Place(p[1]))
    BY <1>6 DEF ShiftedLevel
  <2> QED BY <1>1, <1>7, <2>1, PlaceFacts
<1>9. Shifted(layout, k + d, q[2]) = Shifted(layout, k, p[2])
  <2> HIDE DEF d
  <2>1. \A level : ShiftedLevel(level, k + d, Place(q[2])) = ShiftedLevel(level, k, Place(p[2]))
    BY <1>6 DEF ShiftedLevel
  <2> QED BY <1>1, <1>7, <2>1, PlaceFacts
<1> HIDE DEF d
<1>10. k + d \in LinkedAt(layout, q)
  BY <1>3, <1>6, <1>8, <1>9 DEF LinkedAt
<1> QED BY <1>8, <1>9, <1>10 DEF d

LEMMA LinkedAlike ==
  ASSUME NEW kb, NEW layout, NEW p \in KbPairs, NEW q \in KbPairs,
         Alike(p, q), Inner(p), Inner(q)
  PROVE  Linked(kb, layout, p) = Linked(kb, layout, q)
<1> DEFINE source(r) == [k \in Shifts |-> Shifted(layout, k, r[1])]
           target(r) == [k \in Shifts |-> Shifted(layout, k, r[2])]
           S(r) == {k \in Shifts : source(r)[k] # None /\ target(r)[k] # None}
           links(r) == [k \in S(r) |-> <<target(r)[k], source(r)[k]>>]
           d == Place(q[1]) - Place(p[1])
<1>0. S(p) = LinkedAt(layout, p) /\ S(q) = LinkedAt(layout, q)
  BY DEF LinkedAt
<1>1. /\ Place(p[1]) \in Int /\ Place(q[1]) \in Int
      /\ Shifts \in SUBSET Int /\ IsFiniteSet(Shifts)
  <2>1. p[1] \in A!Modules /\ q[1] \in A!Modules
    BY DEF KbPairs, Matrix
  <2>2. Shifts \in SUBSET Int /\ IsFiniteSet(Shifts)
    BY OrganizerAssumption, FS_Interval DEF Shifts
  <2>3. Place(p[1]) \in Positions /\ Place(q[1]) \in Positions
    BY <2>1, PlaceFacts
  <2>4. \A k \in Positions : k \in Int
    BY OrganizerAssumption DEF Positions
  <2> QED BY <2>2, <2>3, <2>4
<1>2. \A k \in LinkedAt(layout, p) :
        /\ k + d \in LinkedAt(layout, q)
        /\ Shifted(layout, k + d, q[1]) = Shifted(layout, k, p[1])
        /\ Shifted(layout, k + d, q[2]) = Shifted(layout, k, p[2])
  BY InsideReaches
<1>3. \A k \in LinkedAt(layout, q) : k + (Place(p[1]) - Place(q[1])) \in LinkedAt(layout, p)
  <2>1. Alike(q, p)
    BY DEF Alike
  <2> QED BY <2>1, InsideReaches
<1>4. d \in Int /\ S(p) \in SUBSET Int /\ IsFiniteSet(S(p))
  <2>1. S(p) \subseteq Shifts
    BY <1>0 DEF LinkedAt
  <2> HIDE DEF S
  <2>2. IsFiniteSet(S(p)) /\ S(p) \in SUBSET Int
    BY <1>1, <2>1, FS_Subset
  <2> QED BY <1>1, <2>2
<1>5. S(q) = {k + d : k \in S(p)}
  <2>1. \A k \in S(q) : k \in Int /\ k + (Place(p[1]) - Place(q[1])) + d = k
    BY <1>1
  <2> HIDE DEF S
  <2>2. \A k \in S(q) : k \in {l + d : l \in S(p)}
    <3> SUFFICES ASSUME NEW k \in S(q) PROVE \E l \in S(p) : k = l + d
      OBVIOUS
    <3> HIDE DEF d
    <3>1. k + (Place(p[1]) - Place(q[1])) \in S(p)
      BY <1>0, <1>3
    <3> QED BY <2>1, <3>1
  <2>3. \A k \in S(p) : k + d \in S(q)
    BY <1>0, <1>2
  <2> QED BY <2>2, <2>3
<1>6. \A k \in S(p) : /\ target(q)[k + d] = target(p)[k]
                      /\ links(q)[k + d] = links(p)[k]
  <2>1. \A k \in S(p) : k \in Shifts /\ k + d \in S(q) /\ k + d \in Shifts
    <3> HIDE DEF d
    <3> QED BY <1>0, <1>2
  <2> HIDE DEF d
  <2> QED BY <1>0, <1>2, <2>1
<1> DEFINE sp == S(p)
           sq == S(q)
           lp == links(p)
           lq == links(q)
           tp == target(p)
           tq == target(q)
<1>7. /\ Linked(kb, layout, p)
           = [kb EXCEPT !.counts = @ (+) BagOf(lp, sp), !.sums = @ (+) BagOf(tp, sp)]
      /\ Linked(kb, layout, q)
           = [kb EXCEPT !.counts = @ (+) BagOf(lq, sq), !.sums = @ (+) BagOf(tq, sq)]
  BY Zenon DEF Linked, AddAll
<1> HIDE DEF lp, lq, tp, tq, sp, sq, d
<1>8. BagOf(lp, sp) = BagOf(lq, sq) /\ BagOf(tp, sp) = BagOf(tq, sq)
  <2>1. sp \in SUBSET Int /\ IsFiniteSet(sp) /\ d \in Int /\ sq = Moved(sp, d)
    BY <1>4, <1>5 DEF sp, sq, Moved
  <2>2. \A k \in sp : tq[k + d] = tp[k] /\ lq[k + d] = lp[k]
    BY <1>6 DEF sp, lp, lq, tp, tq
  <2>3. BagOf(tp, sp) = BagOf(tq, sq)
    BY <2>1, <2>2, ShiftedBag
  <2>4. BagOf(lp, sp) = BagOf(lq, sq)
    BY <2>1, <2>2, ShiftedBag
  <2> QED BY <2>3, <2>4
<1> QED BY <1>7, <1>8

\* Modules of the same levels at the same distance learn the same from every text,
\* but for those that no shift reaches, at the two ends of the architecture.
THEOREM LearningIsPositionNeutral == Spec => []PositionNeutralInside
<1>1. Init => PositionNeutralInside
  BY DEF Init, PositionNeutralInside
<1>2. PositionNeutralInside /\ [Next]_vars => PositionNeutralInside'
  <2> SUFFICES ASSUME PositionNeutralInside, [Next]_vars,
                      NEW p \in KbPairs, NEW q \in KbPairs, Alike(p, q), Inner(p), Inner(q)
               PROVE  kbs'[p] = kbs'[q]
    BY DEF PositionNeutralInside
  <2>1. kbs[p] = kbs[q]
    BY DEF PositionNeutralInside
  <2>2. CASE kbs' = kbs
    BY <2>1, <2>2
  <2>3. ASSUME NEW layout, kbs' = [r \in KbPairs |-> Linked(kbs[r], layout, r)]
        PROVE  kbs'[p] = kbs'[q]
    <3>1. kbs'[p] = Linked(kbs[p], layout, p) /\ kbs'[q] = Linked(kbs[q], layout, q)
      BY <2>3
    <3> QED BY <2>1, <3>1, LinkedAlike
  <2>4. CASE LinkStrengths
    BY <2>1, <2>4 DEF LinkStrengths
  <2>5. \/ kbs' = kbs
        \/ \E layout : kbs' = [r \in KbPairs |-> Linked(kbs[r], layout, r)]
        \/ LinkStrengths
    BY DEF Next, vars, ReadSentence, FinishReading, LearnWindow
  <2> QED BY <2>2, <2>3, <2>4, <2>5
<1> QED BY <1>1, <1>2, PTL DEF Spec
-----------------------------------------------------------------------------
\* Every pair of words is learned.

WordPairs(s, u, v, d) == Pairs(s, <<u>>, <<v>>, d)

\* Where a pair of words is in a sequence.
LEMMA WordPairsFacts ==
  ASSUME NEW s \in Seq(Tokens), NEW u, NEW v, NEW d \in Int
  PROVE  /\ \A k : k \in WordPairs(s, u, v, d) <=>
              /\ k \in 0 .. (Len(s) - 1) /\ s[k + 1] = u
              /\ k + d \in 0 .. (Len(s) - 1) /\ s[k + d + 1] = v
         /\ IsFiniteSet(WordPairs(s, u, v, d))
         /\ Cardinality(WordPairs(s, u, v, d)) \in Nat
<1>1. Len(s) \in Nat
  BY LenProperties
<1>2. ASSUME NEW w, NEW k \in Int
      PROVE  OccursAt(<<w>>, s, k) <=> k \in 0 .. (Len(s) - 1) /\ s[k + 1] = w
  <2>1. Len(<<w>>) = 1 /\ <<w>>[1] = w
    OBVIOUS
  <2>2. CASE k \in 0 .. (Len(s) - 1)
    <3>1. Len(SubSeq(s, k + 1, k + 1)) = 1 /\ SubSeq(s, k + 1, k + 1)[1] = s[k + 1]
          /\ SubSeq(s, k + 1, k + 1) \in Seq(Tokens)
      BY <1>1, <2>2, SubSeqProperties
    <3>2. SubSeq(s, k + 1, k + 1) = <<s[k + 1]>>
      <4>1. s[k + 1] \in Tokens
        BY <1>1, <2>2, ElementOfSeq
      <4> DEFINE x == s[k + 1]
                 q == SubSeq(s, k + 1, k + 1)
      <4>2. x \in Tokens /\ q \in Seq(Tokens) /\ Len(q) = 1 /\ q[1] = x
        BY <3>1, <4>1
      <4> HIDE DEF x, q
      <4>3. <<x>> \in Seq(Tokens) /\ Len(<<x>>) = 1 /\ <<x>>[1] = x
        BY <4>2
      <4>4. q = <<x>>
        BY <4>2, <4>3, SeqEqual
      <4> QED BY <4>4 DEF q, x
    <3> QED BY <2>1, <2>2, <3>2 DEF OccursAt
  <2>3. CASE k \notin 0 .. (Len(s) - 1)
    BY <2>1, <2>3 DEF OccursAt
  <2> QED BY <2>2, <2>3
<1>3. \A k : k \in WordPairs(s, u, v, d) <=>
              /\ k \in 0 .. (Len(s) - 1) /\ s[k + 1] = u
              /\ k + d \in 0 .. (Len(s) - 1) /\ s[k + d + 1] = v
  <2>1. ASSUME NEW k \in 0 .. Len(s)
        PROVE  OccursAt(<<u>>, s, k) /\ OccursAt(<<v>>, s, k + d) <=>
                 /\ k \in 0 .. (Len(s) - 1) /\ s[k + 1] = u
                 /\ k + d \in 0 .. (Len(s) - 1) /\ s[k + d + 1] = v
    <3>1. k \in Int /\ k + d \in Int
      BY <1>1
    <3> QED BY <1>2, <3>1
  <2>2. \A k : k \in WordPairs(s, u, v, d) <=>
          k \in 0 .. Len(s) /\ OccursAt(<<u>>, s, k) /\ OccursAt(<<v>>, s, k + d)
    BY DEF WordPairs, Pairs
  <2>3. \A k : k \in 0 .. (Len(s) - 1) => k \in 0 .. Len(s)
    BY <1>1
  <2> QED BY <2>1, <2>2, <2>3
<1>4. WordPairs(s, u, v, d) \subseteq 0 .. Len(s)
  BY DEF WordPairs, Pairs
<1>5. IsFiniteSet(WordPairs(s, u, v, d))
  <2>1. IsFiniteSet(0 .. Len(s))
    BY <1>1, FS_Interval
  <2> QED BY <1>4, <2>1, FS_Subset
<1> QED BY <1>3, <1>5, FS_CardinalityType

\* Words no further apart than the longest phrase are together in the window of a
\* long sequence, or in what stays in the buffer.
LEMMA CutPairs ==
  ASSUME NEW s \in Seq(Tokens), Len(s) > NumWordModules,
         NEW u, NEW v, NEW d \in (-MaxMultiWordSize) .. MaxMultiWordSize
  PROVE  LET window == SubSeq(s, 1, NumWordModules)
             rest   == SubSeq(s, NumWordModules - MaxMultiWordSize + 1, Len(s))
         IN  Cardinality(WordPairs(s, u, v, d))
               <= Cardinality(WordPairs(window, u, v, d)) + Cardinality(WordPairs(rest, u, v, d))
<1> DEFINE window == SubSeq(s, 1, NumWordModules)
           j == NumWordModules - MaxMultiWordSize
           rest == SubSeq(s, j + 1, Len(s))
           W == WordPairs(window, u, v, d)
           R == WordPairs(rest, u, v, d)
           f == [k \in R |-> k + j]
<1>1. /\ NumWordModules \in Nat /\ MaxMultiWordSize \in Nat /\ d \in Int
      /\ NumWordModules > MaxMultiWordSize /\ j \in Nat /\ j < Len(s) /\ Len(s) \in Nat
  BY OrganizerAssumption, LearnAssumption, LenProperties
<1>2. /\ window \in Seq(Tokens) /\ Len(window) = NumWordModules
      /\ \A k \in 1 .. NumWordModules : window[k] = s[k]
  BY <1>1, SubSeqProperties
<1>3. /\ rest \in Seq(Tokens) /\ Len(rest) = Len(s) - j
      /\ \A k \in 1 .. (Len(s) - j) : rest[k] = s[j + k]
  <2> HIDE DEF j
  <2>1. /\ rest \in Seq(Tokens) /\ Len(rest) = Len(s) - (j + 1) + 1
        /\ \A k \in 1 .. (Len(s) - (j + 1) + 1) : rest[k] = s[j + 1 + k - 1]
    BY <1>1, SubSeqProperties
  <2> QED BY <1>1, <2>1
<1> HIDE DEF window, rest
<1>4. /\ \A k \in WordPairs(s, u, v, d) :
              /\ k \in 0 .. (Len(s) - 1) /\ s[k + 1] = u
              /\ k + d \in 0 .. (Len(s) - 1) /\ s[k + d + 1] = v
      /\ IsFiniteSet(W) /\ Cardinality(W) \in Nat
      /\ IsFiniteSet(R) /\ Cardinality(R) \in Nat
  BY <1>1, <1>2, <1>3, WordPairsFacts
<1>5. ASSUME NEW k \in WordPairs(s, u, v, d), k < NumWordModules, k + d < NumWordModules
      PROVE  k \in W
  <2>1. k \in 0 .. (NumWordModules - 1) /\ k + d \in 0 .. (NumWordModules - 1)
    BY <1>1, <1>4, <1>5
  <2>2. window[k + 1] = u /\ window[k + d + 1] = v
    <3>1. /\ k + 1 \in 1 .. NumWordModules /\ k + d + 1 \in 1 .. NumWordModules
      BY <1>1, <2>1
    <3>2. s[k + 1] = u /\ s[k + d + 1] = v
      BY <1>4, <1>5
    <3> QED BY <1>2, <3>1, <3>2
  <2>3. k \in WordPairs(window, u, v, d) <=>
           /\ k \in 0 .. (Len(window) - 1) /\ window[k + 1] = u
           /\ k + d \in 0 .. (Len(window) - 1) /\ window[k + d + 1] = v
    <3>1. window \in Seq(Tokens) /\ d \in Int
      BY <1>1, <1>2
    <3> QED BY <3>1, WordPairsFacts
  <2> QED BY <1>1, <1>2, <2>1, <2>2, <2>3
<1>6. ASSUME NEW k \in WordPairs(s, u, v, d), ~(k < NumWordModules /\ k + d < NumWordModules)
      PROVE  k - j \in R
  <2>0. j = NumWordModules - MaxMultiWordSize /\ j \in Nat
        /\ k \in 0 .. (Len(s) - 1) /\ k + d \in 0 .. (Len(s) - 1)
    BY <1>1, <1>4
  <2> HIDE DEF j
  <2>4. k >= j /\ k + d >= j
    BY <1>1, <1>6, <2>0
  <2>1. k - j \in 0 .. (Len(s) - j - 1) /\ k - j + d \in 0 .. (Len(s) - j - 1)
    BY <1>1, <2>0, <2>4
  <2>2. k - j + 1 \in 1 .. (Len(s) - j) /\ k - j + d + 1 \in 1 .. (Len(s) - j)
        /\ j + (k - j + 1) = k + 1 /\ j + (k - j + d + 1) = k + d + 1
    BY <1>1, <2>0, <2>1
  <2>3. rest[k - j + 1] = u /\ rest[k - j + d + 1] = v
    BY <1>3, <1>4, <2>2
  <2> DEFINE l == k - j
  <2>5. l \in 0 .. (Len(rest) - 1) /\ l + d \in 0 .. (Len(rest) - 1)
        /\ rest[l + 1] = u /\ rest[l + d + 1] = v
    BY <1>3, <2>1, <2>3
  <2> HIDE DEF l
  <2>6. l \in WordPairs(rest, u, v, d)
    BY <1>1, <1>3, <2>5, WordPairsFacts
  <2> QED BY <2>6 DEF l
<1> HIDE DEF W, j
<1>7. \A k \in R : k \in Int
  BY <1>1, <1>3, WordPairsFacts
<1>8. \A k \in WordPairs(s, u, v, d) : k \in W \cup {f[l] : l \in R}
  <2> SUFFICES ASSUME NEW k \in WordPairs(s, u, v, d), k \notin W
               PROVE  \E l \in R : k = l + j
    OBVIOUS
  <2>1. k - j \in R
    BY <1>5, <1>6
  <2>2. k = k - j + j
    BY <1>1, <1>4
  <2> QED BY <2>1, <2>2
<1>9. \A k, l \in R : f[k] = f[l] => k = l
  <2> SUFFICES ASSUME NEW k \in R, NEW l \in R, k + j = l + j PROVE k = l
    OBVIOUS
  <2> QED BY <1>1, <1>7
<1> HIDE DEF R, f
<1>10. IsFiniteSet({f[l] : l \in R}) /\ Cardinality({f[l] : l \in R}) = Cardinality(R)
  BY <1>4, <1>9, ImageFacts
<1>11. /\ IsFiniteSet(W \cup {f[l] : l \in R})
       /\ Cardinality(W \cup {f[l] : l \in R}) <= Cardinality(W) + Cardinality({f[l] : l \in R})
  <2> DEFINE F == {f[l] : l \in R}
  <2> HIDE DEF F
  <2>1. /\ IsFiniteSet(W \cup F) /\ IsFiniteSet(W \cap F)
        /\ Cardinality(W \cup F) = Cardinality(W) + Cardinality(F) - Cardinality(W \cap F)
    BY <1>4, <1>10, FS_Union, FS_Intersection DEF F
  <2>2. Cardinality(W \cap F) \in Nat /\ Cardinality(F) \in Nat
    BY <1>4, <1>10, <2>1, FS_CardinalityType DEF F
  <2> QED BY <1>4, <2>1, <2>2 DEF F
<1>12. Cardinality(WordPairs(s, u, v, d)) <= Cardinality(W \cup {f[l] : l \in R})
  BY <1>8, <1>11, FS_Subset
<1>13. /\ Cardinality(WordPairs(s, u, v, d)) \in Nat
       /\ Cardinality(W \cup {f[l] : l \in R}) \in Nat
  BY <1>1, <1>11, WordPairsFacts, FS_CardinalityType
<1>14. Cardinality(WordPairs(s, u, v, d)) <= Cardinality(W) + Cardinality(R)
  <2> DEFINE c == Cardinality(W \cup {f[l] : l \in R})
             e == Cardinality(WordPairs(s, u, v, d))
  <2> HIDE DEF c, e
  <2>1. e <= c /\ c <= Cardinality(W) + Cardinality(R) /\ e \in Nat /\ c \in Nat
    BY <1>10, <1>11, <1>12, <1>13 DEF c, e
  <2>2. e <= Cardinality(W) + Cardinality(R)
    BY <1>4, <2>1
  <2> QED BY <2>2 DEF e
<1> QED BY <1>14 DEF W, R, window, rest, j

\* The combinations of a layout that make up one link, and how often they count it.
LinkedBy(layout, p, link) ==
  {k \in LinkedAt(layout, p) : <<Shifted(layout, k, p[2]), Shifted(layout, k, p[1])>> = link}

LEMMA CountLinked ==
  ASSUME NEW kb, Balanced(kb), DOMAIN kb = {"counts", "sums", "strengths"},
         NEW layout, NEW p, NEW link
  PROVE  /\ Copies(Linked(kb, layout, p).counts, link)
              = Copies(kb.counts, link) + Cardinality(LinkedBy(layout, p, link))
         /\ Copies(kb.counts, link) \in Nat
<1> DEFINE source == [k \in Shifts |-> Shifted(layout, k, p[1])]
           target == [k \in Shifts |-> Shifted(layout, k, p[2])]
           S == {k \in Shifts : source[k] # None /\ target[k] # None}
           links == [k \in S |-> <<target[k], source[k]>>]
           K == LinkedBy(layout, p, link)
           B == kb.counts
           C == BagOf(links, S)
<1>1. IsFiniteSet(Shifts)
  BY FS_Interval, OrganizerAssumption DEF Shifts
<1>2. IsFiniteSet(S)
  BY <1>1, FS_Subset
<1>3. Linked(kb, layout, p) = AddAll(kb, S, source, target)
  BY Zenon DEF Linked
<1>4. AddAll(kb, S, source, target).counts = B (+) C
  BY DEF AddAll
<1>5. K = {k \in S : links[k] = link}
  BY DEF LinkedAt, LinkedBy
<1>6. Bag(C) /\ DOMAIN C = {links[k] : k \in S}
  <2> HIDE DEF S, links
  <2> QED BY <1>2, BagOfIsBag
<1>7. Bag(B)
  BY DEF Balanced
<1>8. (IF link \in DOMAIN C THEN C[link] ELSE 0) = Cardinality(K)
  <2> HIDE DEF S, links
  <2>1. CASE link \in DOMAIN C
    BY <1>5, <2>1 DEF BagOf
  <2>2. CASE link \notin DOMAIN C
    <3>1. {k \in S : links[k] = link} = {}
      BY <1>6, <2>2
    <3> QED BY <1>5, <2>2, <3>1, FS_EmptySet
  <2> QED BY <2>1, <2>2
<1> HIDE DEF S, links, source, target, B, C, K
<1>9. Cardinality(K) \in Nat
  BY <1>6, <1>8 DEF Bag
<1>10. Copies(B, link) \in Nat /\ Copies(B, link) = IF link \in DOMAIN B THEN B[link] ELSE 0
  BY <1>7 DEF Copies, Bag
<1>11. Copies(B (+) C, link) = Copies(B, link) + Cardinality(K)
  <2>1. DOMAIN (B (+) C) = DOMAIN B \cup DOMAIN C
    BY <1>6, <1>7, UnionIsBag
  <2>2. CASE link \in DOMAIN B \cup DOMAIN C
    <3>1. (B (+) C)[link] = (IF link \in DOMAIN B THEN B[link] ELSE 0)
                              + (IF link \in DOMAIN C THEN C[link] ELSE 0)
      BY <1>6, <1>7, <2>2, UnionIsBag
    <3> QED BY <1>8, <1>10, <2>1, <2>2, <3>1 DEF Copies
  <2>3. CASE link \notin DOMAIN B \cup DOMAIN C
    BY <1>8, <1>10, <2>1, <2>3 DEF Copies
  <2> QED BY <2>2, <2>3
<1> QED BY <1>3, <1>4, <1>10, <1>11 DEF B, K

\* The link of two words is counted once for each place of the window that shows
\* them, if the two modules are not both at one end of the architecture.
LEMMA WindowPairs ==
  ASSUME NEW w \in Seq(Tokens), Len(w) <= NumWordModules,
         NEW p \in KbPairs, p[1] < NumWordModules, p[2] < NumWordModules, Inner(p),
         NEW u \in Words, NEW v \in Words
  PROVE  Cardinality(LinkedBy(Organize(w), p, <<<<v>>, <<u>>>>))
           = Cardinality(WordPairs(w, u, v, Distance(p)))
<1> DEFINE layout == Organize(w)
           d == Distance(p)
           x == Place(p[1])
           y == Place(p[2])
           P == WordPairs(w, u, v, d)
           f == [k \in P |-> x - k]
           K == LinkedBy(layout, p, <<<<v>>, <<u>>>>)
<1>1. p[1] \in A!Modules /\ p[2] \in A!Modules
  BY DEF KbPairs, Matrix
<1>2. NumWordModules \in Nat /\ Len(w) \in Nat /\ x \in Positions /\ y \in Positions
      /\ \A k \in Positions : k \in 0 .. (NumWordModules - 1)
  BY <1>1, PlaceFacts, OrganizerAssumption, LenProperties DEF Positions
<1>3. d = y - x /\ d \in Int
  <2>1. d = y - x
    BY DEF Distance
  <2> HIDE DEF d, x, y
  <2> QED BY <1>2, <2>1
<1>4. ASSUME NEW k \in Positions
      PROVE  layout.words[k] = IF k < Len(w) /\ w[k + 1] \in Words THEN <<w[k + 1]>> ELSE None
  <2>1. Holds(WordTrie, Tokens, {<<t>> : t \in Words}) /\ Words \in SUBSET Tokens
    BY WordTrieHolds DEF Tokens
  <2>2. layout.words = Level(WordTrie, w)
    BY DEF Organize
  <2>3. Level(WordTrie, w)[k] = IF k < Len(w) /\ w[k + 1] \in Words THEN <<w[k + 1]>> ELSE None
    BY <2>1, SingleWordLevel
  <2> QED BY <2>2, <2>3
<1>5. \A k : /\ Shifted(layout, k, p[1]) = ShiftedLevel(layout.words, k, x)
             /\ Shifted(layout, k, p[2]) = ShiftedLevel(layout.words, k, y)
  BY <1>1, PlaceFacts
<1> HIDE DEF layout
<1>6. ASSUME NEW k \in Int, NEW z \in Positions, NEW t
      PROVE  ShiftedLevel(layout.words, k, z) = <<t>>
               <=> z - k \in 0 .. (Len(w) - 1) /\ w[z - k + 1] = t /\ t \in Words
  <2>1. CASE z - k \in Positions
    <3>1. ShiftedLevel(layout.words, k, z)
            = IF z - k < Len(w) /\ w[z - k + 1] \in Words THEN <<w[z - k + 1]>> ELSE None
      BY <1>4, <2>1 DEF ShiftedLevel
    <3>2. z - k \in 0 .. (NumWordModules - 1)
      BY <1>2, <2>1
    <3>3. None # <<t>> /\ \A r : <<r>> = <<t>> <=> r = t
      BY DEF None
    <3> DEFINE b == ShiftedLevel(layout.words, k, z)
               in == z - k < Len(w)
               r == w[z - k + 1]
               inside == z - k \in 0 .. (Len(w) - 1)
    <3>4. inside <=> in
      BY <1>2, <3>2
    <3>5. b = IF in /\ r \in Words THEN <<r>> ELSE None
      BY <3>1
    <3> HIDE DEF b, in, r, inside
    <3>6. b = <<t>> <=> inside /\ r = t /\ t \in Words
      BY <3>3, <3>4, <3>5
    <3> QED BY <3>6 DEF b, inside, r
  <2>2. CASE z - k \notin Positions
    <3>1. ShiftedLevel(layout.words, k, z) = None
      BY <2>2 DEF ShiftedLevel
    <3>2. z - k \notin 0 .. (Len(w) - 1)
      BY <1>2, <2>2 DEF Positions
    <3>3. None # <<t>>
      BY DEF None
    <3> QED BY <3>1, <3>2, <3>3
  <2> QED BY <2>1, <2>2
<1>7. \A k : k \in P <=> /\ k \in 0 .. (Len(w) - 1) /\ w[k + 1] = u
                         /\ k + d \in 0 .. (Len(w) - 1) /\ w[k + d + 1] = v
  <2> HIDE DEF d
  <2> QED BY <1>3, WordPairsFacts
<1>8. Shifts \in SUBSET Int
  BY <1>2 DEF Shifts
<1>9. ASSUME NEW k \in Shifts
      PROVE  k \in K <=> x - k \in P
  <2>1. k \in K <=> /\ Shifted(layout, k, p[1]) = <<u>>
                    /\ Shifted(layout, k, p[2]) = <<v>>
    <3>1. <<u>> # None /\ <<v>> # None
      BY DEF None
    <3> QED BY <3>1 DEF LinkedAt, LinkedBy
  <2>2. k \in K <=> /\ x - k \in 0 .. (Len(w) - 1) /\ w[x - k + 1] = u
                    /\ y - k \in 0 .. (Len(w) - 1) /\ w[y - k + 1] = v
    <3>1. k \in Int /\ x \in Positions /\ y \in Positions
      BY <1>2, <1>8
    <3> HIDE DEF K, x, y
    <3>2. ShiftedLevel(layout.words, k, x) = <<u>>
            <=> x - k \in 0 .. (Len(w) - 1) /\ w[x - k + 1] = u
      BY <1>6, <3>1
    <3>3. ShiftedLevel(layout.words, k, y) = <<v>>
            <=> y - k \in 0 .. (Len(w) - 1) /\ w[y - k + 1] = v
      BY <1>6, <3>1
    <3> QED BY <1>5, <2>1, <3>2, <3>3
  <2>3. x - k + d = y - k /\ x - k + d + 1 = y - k + 1
    <3> HIDE DEF x, y, d
    <3> QED BY <1>2, <1>3, <1>8
  <2> HIDE DEF K, P, x, y, d
  <2> QED BY <1>7, <2>2, <2>3
<1>10. ASSUME NEW k \in P PROVE x - k \in Shifts
  <2>1. k \in 0 .. (NumWordModules - 1) /\ k + d \in 0 .. (NumWordModules - 1)
    <3> HIDE DEF P, d
    <3> QED BY <1>2, <1>7
  <2>2. x >= 2 \/ y >= 2
    BY DEF Inner
  <2>3. x <= NumWordModules - 2 \/ y <= NumWordModules - 2
    BY DEF Inner
  <2>4. x \in 0 .. (NumWordModules - 1) /\ y \in 0 .. (NumWordModules - 1)
    BY <1>2
  <2> HIDE DEF x, y, d
  <2> QED BY <1>2, <1>3, <2>1, <2>2, <2>3, <2>4 DEF Shifts
<1>11. K \subseteq Shifts
  BY DEF LinkedAt, LinkedBy
<1>12. P \in SUBSET Int
  BY <1>7 DEF WordPairs, Pairs
<1>13. x \in Int
  BY <1>2
<1> HIDE DEF K, P, x
<1>14. {f[k] : k \in P} = K
  <2>1. \A k \in P : x - k \in K
    <3> SUFFICES ASSUME NEW k \in P PROVE x - k \in K
      OBVIOUS
    <3>1. x - (x - k) = k
      BY <1>12, <1>13
    <3> QED BY <1>9, <1>10, <3>1
  <2>2. \A k \in K : x - k \in P /\ x - (x - k) = k
    BY <1>8, <1>9, <1>11, <1>13
  <2> QED BY <2>1, <2>2
<1>15. \A k, l \in P : f[k] = f[l] => k = l
  <2> SUFFICES ASSUME NEW k \in P, NEW l \in P, x - k = x - l PROVE k = l
    OBVIOUS
  <2> QED BY <1>12, <1>13
<1>16. IsFiniteSet(P)
  <2> HIDE DEF d
  <2> QED BY <1>3, WordPairsFacts DEF P
<1> HIDE DEF f
<1>17. Cardinality(K) = Cardinality(P)
  BY <1>14, <1>15, <1>16, ImageFacts
<1> QED BY <1>17 DEF K, P, layout

\* The knowledge bases between words that EveryPairLearned is about.
WordKbs == {p \in KbPairs : p[1] < NumWordModules /\ p[2] < NumWordModules /\ Inner(p)}

Counted(p, u, v) == Copies(kbs[p].counts, <<<<v>>, <<u>>>>)

\* The places of the sentence that are still in the buffer.
Waiting(p, u, v) ==
  IF pc = "window" THEN Cardinality(WordPairs(buffer, u, v, Distance(p))) ELSE 0

OneWindow == \A n \in Learned : Len(text[n]) <= NumWordModules

\* What the text shows was counted or waits in the buffer.
EveryPairCounted ==
  pc \in {"sentence", "window", "strengths"} =>
    \A p \in WordKbs : \A u, v \in Words :
      /\ Distance(p) \in (-MaxMultiWordSize) .. MaxMultiWordSize =>
           Counted(p, u, v) + Waiting(p, u, v) >= Shown(<<u>>, <<v>>, Distance(p))
      /\ OneWindow => Counted(p, u, v) + Waiting(p, u, v) = Shown(<<u>>, <<v>>, Distance(p))

PairsInv == TextInv /\ EveryPairCounted

\* What the text shows is a number, and grows by what one more sentence shows.
LEMMA ShownFacts ==
  ASSUME TypeOK, NEW u, NEW v, NEW d \in Int
  PROVE  /\ Shown(<<u>>, <<v>>, d) \in Nat
         /\ read = 0 => Shown(<<u>>, <<v>>, d) = 0
         /\ (text' = text /\ read' = read) => Shown(<<u>>, <<v>>, d)' = Shown(<<u>>, <<v>>, d)
         /\ (text' = text /\ read' = read + 1 /\ read < Len(text)) =>
              Shown(<<u>>, <<v>>, d)'
                = Shown(<<u>>, <<v>>, d)
                  + IF Len(text[read + 1]) < 2 THEN 0
                    ELSE Cardinality(WordPairs(text[read + 1], u, v, d))
<1> DEFINE f == [n \in DOMAIN text |-> Cardinality(Pairs(text[n], <<u>>, <<v>>, d))]
           Upto(r) == {n \in 1 .. r : Len(text[n]) >= 2}
<1>1. /\ text \in Seq(Seq(Tokens)) /\ read \in 0 .. Len(text) /\ Len(text) \in Nat
      /\ DOMAIN text = 1 .. Len(text)
      /\ \A n \in 1 .. Len(text) : text[n] \in Seq(Tokens)
  BY LenProperties, ElementOfSeq DEF TypeOK
<1>2. \A n \in 1 .. Len(text) : f[n] \in Nat /\ f[n] = Cardinality(WordPairs(text[n], u, v, d))
  BY <1>1, WordPairsFacts DEF WordPairs
<1>3. Shown(<<u>>, <<v>>, d) = SumFunctionOnSet(f, Upto(read))
  BY DEF Shown, Learned
<1>4. (text' = text) => Shown(<<u>>, <<v>>, d)' = SumFunctionOnSet(f, Upto(read'))
  BY DEF Shown, Learned, Pairs, OccursAt
<1>5. \A r \in 0 .. Len(text) : IsFiniteSet(Upto(r)) /\ \A n \in Upto(r) : f[n] \in Nat
  <2> SUFFICES ASSUME NEW r \in 0 .. Len(text)
               PROVE  IsFiniteSet(Upto(r)) /\ \A n \in Upto(r) : n \in 1 .. Len(text)
    BY <1>2
  <2>1. IsFiniteSet(1 .. r)
    BY <1>1, FS_Interval
  <2> QED BY <1>1, <2>1, FS_Subset
<1>6. read = 0 => Upto(read) = {}
  BY <1>1
<1>7. read < Len(text) =>
        /\ read + 1 \in 1 .. Len(text) /\ Len(text[read + 1]) \in Nat
        /\ Len(text[read + 1]) < 2 => Upto(read + 1) = Upto(read)
        /\ ~(Len(text[read + 1]) < 2) => /\ read + 1 \in Upto(read + 1)
                                         /\ Upto(read + 1) \ {read + 1} = Upto(read)
  <2> SUFFICES ASSUME read < Len(text)
               PROVE  /\ read + 1 \in 1 .. Len(text) /\ Len(text[read + 1]) \in Nat
                      /\ Len(text[read + 1]) < 2 => Upto(read + 1) = Upto(read)
                      /\ ~(Len(text[read + 1]) < 2) => /\ read + 1 \in Upto(read + 1)
                                                       /\ Upto(read + 1) \ {read + 1} = Upto(read)
    OBVIOUS
  <2>1. read + 1 \in 1 .. Len(text) /\ Len(text[read + 1]) \in Nat
    BY <1>1, LenProperties
  <2>2. \A n : n \in 1 .. (read + 1) <=> n \in 1 .. read \/ n = read + 1
    BY <1>1
  <2>3. read + 1 \notin 1 .. read
    BY <1>1
  <2> QED BY <2>1, <2>2, <2>3
<1> HIDE DEF f, Upto
<1>8. Shown(<<u>>, <<v>>, d) \in Nat
  BY <1>1, <1>3, <1>5, SumFacts
<1>9. read = 0 => Shown(<<u>>, <<v>>, d) = 0
  <2> SUFFICES ASSUME read = 0 PROVE SumFunctionOnSet(f, {}) = 0
    BY <1>3, <1>6
  <2>1. IsFiniteSet(Upto(read)) /\ \A n \in Upto(read) : f[n] \in Nat
    BY <1>1, <1>5
  <2> QED BY <2>1, SumFacts
<1>10. ASSUME read < Len(text), ~(Len(text[read + 1]) < 2)
       PROVE  SumFunctionOnSet(f, Upto(read + 1))
                = SumFunctionOnSet(f, Upto(read))
                  + Cardinality(WordPairs(text[read + 1], u, v, d))
  <2>1. /\ read + 1 \in Upto(read + 1) /\ Upto(read + 1) \ {read + 1} = Upto(read)
        /\ read + 1 \in 1 .. Len(text)
    BY <1>7, <1>10
  <2>2. IsFiniteSet(Upto(read + 1)) /\ \A n \in Upto(read + 1) : f[n] \in Nat
    <3>1. read + 1 \in 0 .. Len(text)
      BY <2>1, <1>1
    <3> QED BY <1>5, <3>1
  <2>3. SumFunctionOnSet(f, Upto(read + 1))
          = f[read + 1] + SumFunctionOnSet(f, Upto(read + 1) \ {read + 1})
    BY <2>1, <2>2, SumFacts
  <2>4. SumFunctionOnSet(f, Upto(read)) \in Nat /\ f[read + 1] \in Nat
        /\ f[read + 1] = Cardinality(WordPairs(text[read + 1], u, v, d))
    BY <1>2, <1>3, <1>8, <2>1
  <2> DEFINE a == SumFunctionOnSet(f, Upto(read))
             b == f[read + 1]
  <2>5. SumFunctionOnSet(f, Upto(read + 1)) = b + a
    BY <2>1, <2>3
  <2> HIDE DEF a, b
  <2>6. b + a = a + b
    BY <2>4 DEF a, b
  <2> QED BY <2>4, <2>5, <2>6 DEF a, b
<1>11. (text' = text /\ read' = read) => Shown(<<u>>, <<v>>, d)' = Shown(<<u>>, <<v>>, d)
  BY <1>3, <1>4
<1>12. ASSUME text' = text, read' = read + 1, read < Len(text)
       PROVE  Shown(<<u>>, <<v>>, d)'
                = Shown(<<u>>, <<v>>, d)
                  + IF Len(text[read + 1]) < 2 THEN 0
                    ELSE Cardinality(WordPairs(text[read + 1], u, v, d))
  <2>1. Shown(<<u>>, <<v>>, d)' = SumFunctionOnSet(f, Upto(read + 1))
    BY <1>4, <1>12
  <2>2. CASE Len(text[read + 1]) < 2
    <3>1. Shown(<<u>>, <<v>>, d)' = Shown(<<u>>, <<v>>, d)
      BY <1>3, <1>7, <1>12, <2>1, <2>2
    <3> QED BY <1>8, <2>2, <3>1
  <2>3. CASE ~(Len(text[read + 1]) < 2)
    <3>1. SumFunctionOnSet(f, Upto(read + 1))
            = SumFunctionOnSet(f, Upto(read)) + Cardinality(WordPairs(text[read + 1], u, v, d))
      BY <1>10, <1>12, <2>3
    <3> QED BY <1>3, <2>1, <2>3, <3>1
  <2> QED BY <2>2, <2>3
<1> QED BY <1>8, <1>9, <1>11, <1>12

\* What a window takes from the buffer is counted.
LEMMA WindowCounted ==
  ASSUME IInv, LearnWindow, pc' # "aborted",
         NEW p \in WordKbs, NEW u \in Words, NEW v \in Words
  PROVE  /\ Counted(p, u, v)' = Counted(p, u, v)
                                + Cardinality(WordPairs(Window, u, v, Distance(p)))
         /\ Counted(p, u, v) \in Nat
<1>1. /\ p \in KbPairs /\ p[1] < NumWordModules /\ p[2] < NumWordModules /\ Inner(p)
  BY DEF WordKbs
<1>2. /\ DOMAIN kbs = KbPairs
      /\ Balanced(kbs[p]) /\ DOMAIN kbs[p] = {"counts", "sums", "strengths"}
  BY <1>1 DEF IInv, TypeOK, AllBalanced
<1>3. buffer \in Seq(Tokens) /\ Len(buffer) \in Nat /\ NumWordModules \in Nat
  BY LenProperties, OrganizerAssumption DEF IInv, TypeOK
<1>4. Window \in Seq(Tokens) /\ Len(Window) <= NumWordModules
  <2>1. CASE Large
    <3>1. Len(buffer) > NumWordModules
      BY <2>1 DEF Large
    <3> QED BY <1>3, <2>1, <3>1, SubSeqProperties DEF Window
  <2>2. CASE ~Large
    BY <1>3, <2>2 DEF Window, Large
  <2> QED BY <2>1, <2>2
<1> DEFINE link == <<<<v>>, <<u>>>>
           layout == Organize(Window)
           K == LinkedBy(layout, p, link)
<1>5. Cardinality(K) = Cardinality(WordPairs(Window, u, v, Distance(p)))
  BY <1>1, <1>4, WindowPairs
<1>6. /\ Copies(Linked(kbs[p], layout, p).counts, link)
           = Copies(kbs[p].counts, link) + Cardinality(K)
      /\ Copies(kbs[p].counts, link) \in Nat
  <2> DEFINE kb == kbs[p]
  <2>1. Balanced(kb) /\ DOMAIN kb = {"counts", "sums", "strengths"}
    BY <1>2
  <2> HIDE DEF kb, layout, link
  <2>2. /\ Copies(Linked(kb, layout, p).counts, link)
             = Copies(kb.counts, link) + Cardinality(LinkedBy(layout, p, link))
        /\ Copies(kb.counts, link) \in Nat
    BY <2>1, CountLinked
  <2> QED BY <2>2 DEF kb
<1> HIDE DEF K, link
<1>7. CASE AllHoles(Window)
  <2>1. kbs' = kbs
    BY <1>7 DEF LearnWindow
  <2>2. WordPairs(Window, u, v, Distance(p)) = {}
    <3>1. Distance(p) \in Int
      <4>1. Place(p[1]) \in Positions /\ Place(p[2]) \in Positions
        BY <1>1, PlaceFacts DEF KbPairs, Matrix
      <4>2. \A k \in Positions : k \in Int
        BY OrganizerAssumption DEF Positions
      <4> QED BY <4>1, <4>2 DEF Distance
    <3>2. ASSUME NEW k \in WordPairs(Window, u, v, Distance(p)) PROVE FALSE
      <4>1. k \in 0 .. (Len(Window) - 1) /\ Window[k + 1] = u
        BY <1>4, <3>1, WordPairsFacts
      <4>2. k + 1 \in DOMAIN Window
        BY <1>4, <4>1, LenProperties
      <4> QED BY <1>7, <4>1, <4>2, OrganizerAssumption DEF AllHoles
    <3> QED BY <3>2
  <2>3. Cardinality(WordPairs(Window, u, v, Distance(p))) = 0
    BY <2>2, FS_EmptySet
  <2> QED BY <1>6, <2>1, <2>3 DEF Counted, link
<1>8. CASE ~AllHoles(Window)
  <2>1. kbs' = [q \in KbPairs |-> Linked(kbs[q], layout, q)]
    BY <1>8 DEF LearnWindow
  <2>2. kbs'[p] = Linked(kbs[p], layout, p)
    BY <1>1, <2>1
  <2> QED BY <1>5, <1>6, <2>2 DEF Counted, link
<1> QED BY <1>7, <1>8

LEMMA DistanceType == \A p \in KbPairs : Distance(p) \in Int
<1> SUFFICES ASSUME NEW p \in KbPairs PROVE Distance(p) \in Int
  OBVIOUS
<1>1. Place(p[1]) \in Positions /\ Place(p[2]) \in Positions
  BY PlaceFacts DEF KbPairs, Matrix
<1>2. \A k \in Positions : k \in Int
  BY OrganizerAssumption DEF Positions
<1> QED BY <1>1, <1>2 DEF Distance

LEMMA InitPairsInv == Init => PairsInv
<1> SUFFICES ASSUME Init, NEW p \in WordKbs, NEW u \in Words, NEW v \in Words
             PROVE  Counted(p, u, v) + Waiting(p, u, v) = Shown(<<u>>, <<v>>, Distance(p))
                    /\ Shown(<<u>>, <<v>>, Distance(p)) = 0
  BY InitTextInv DEF PairsInv, EveryPairCounted
<1>1. TypeOK /\ p \in KbPairs /\ Distance(p) \in Int
  BY InitIInv, DistanceType DEF IInv, WordKbs
<1>2. Shown(<<u>>, <<v>>, Distance(p)) = 0
  BY <1>1, ShownFacts DEF Init
<1>3. Counted(p, u, v) = 0
  BY <1>1 DEF Init, EmptyKb, EmptyBag, SetToBag, Counted, Copies
<1> QED BY <1>2, <1>3 DEF Init, Waiting

\* The balance of one link over a step that takes a window.
LEMMA WindowBalance ==
  ASSUME PairsInv, LearnWindow, pc' # "aborted",
         NEW p \in WordKbs, NEW u \in Words, NEW v \in Words
  PROVE  /\ Distance(p) \in (-MaxMultiWordSize) .. MaxMultiWordSize =>
              Counted(p, u, v) + Waiting(p, u, v) <= Counted(p, u, v)' + Waiting(p, u, v)'
         /\ OneWindow =>
              Counted(p, u, v) + Waiting(p, u, v) = Counted(p, u, v)' + Waiting(p, u, v)'
<1> DEFINE d == Distance(p)
           P(s) == Cardinality(WordPairs(s, u, v, d))
<1>1. IInv /\ pc = "window"
  BY DEF PairsInv, TextInv, LearnWindow
<1>2. Counted(p, u, v)' = Counted(p, u, v) + P(Window) /\ Counted(p, u, v) \in Nat
  BY <1>1, WindowCounted
<1>3. Waiting(p, u, v) = P(buffer)
  BY <1>1 DEF Waiting
<1>4. buffer' = Rest /\ pc' = IF Len(Rest) >= 2 THEN "window" ELSE "sentence"
  BY DEF LearnWindow
<1>5. d \in Int
  BY DistanceType DEF WordKbs
<1>6. /\ buffer \in Seq(Tokens) /\ Rest \in Seq(Tokens) /\ Len(buffer) \in Nat
      /\ NumWordModules \in Nat /\ MaxMultiWordSize \in Nat /\ MaxMultiWordSize >= 1
      /\ NumWordModules > MaxMultiWordSize
  BY <1>1, RestFacts, LenProperties, OrganizerAssumption, LearnAssumption DEF IInv, TypeOK
<1>7. Waiting(p, u, v)' = IF pc' = "window" THEN P(Rest) ELSE 0
  BY <1>4 DEF Waiting
<1>8. CASE Large
  <2>1. Len(buffer) > NumWordModules
    BY <1>8 DEF Large
  <2>2. Len(Rest) = Len(buffer) - (NumWordModules - MaxMultiWordSize)
    BY <1>1, <1>8, RestFacts DEF IInv
  <2>3. Waiting(p, u, v)' = P(Rest)
    BY <1>4, <1>6, <1>7, <2>1, <2>2
  <2>4. Window \in Seq(Tokens)
    BY <1>6, <1>8, <2>1, SubSeqProperties DEF Window
  <2>5. P(buffer) \in Nat /\ P(Window) \in Nat /\ P(Rest) \in Nat
    BY <1>5, <1>6, <2>4, WordPairsFacts
  <2>6. d \in (-MaxMultiWordSize) .. MaxMultiWordSize => P(buffer) <= P(Window) + P(Rest)
    <3> HIDE DEF d
    <3> QED BY <1>6, <1>8, <2>1, CutPairs DEF Window, Rest
  <2>7. ~OneWindow
    <3>1. PICK l \in 1 .. (Len(text[read]) + 1) :
            read \in Learned /\ buffer = SubSeq(text[read], l, Len(text[read]))
      BY <1>1 DEF PairsInv, TextInv, EndOfSentence
    <3>2. text[read] \in Seq(Tokens) /\ Len(text[read]) \in Nat
      BY <1>1, <3>1, ElementOfSeq, LenProperties DEF Learned, IInv, TypeOK
    <3>3. Len(buffer) = Len(text[read]) - l + 1
      BY <3>1, <3>2, SubSeqProperties
    <3>4. Len(text[read]) > NumWordModules
      BY <1>6, <2>1, <3>2, <3>3
    <3> QED BY <1>6, <3>1, <3>2, <3>4 DEF OneWindow
  <2> HIDE DEF P, d
  <2>8. d \in (-MaxMultiWordSize) .. MaxMultiWordSize =>
          Counted(p, u, v) + P(buffer) <= Counted(p, u, v) + P(Window) + P(Rest)
    BY <1>2, <2>5, <2>6
  <2> QED BY <1>2, <1>3, <2>3, <2>7, <2>8 DEF d
<1>9. CASE ~Large
  <2>1. Window = buffer /\ Rest = <<>>
    BY <1>9 DEF Window, Rest
  <2>2. pc' = "sentence" /\ Waiting(p, u, v)' = 0
    BY <1>4, <1>7, <2>1, EmptySeq
  <2>3. P(buffer) \in Nat
    BY <1>5, <1>6, WordPairsFacts
  <2> HIDE DEF P, d
  <2>4. Counted(p, u, v) + P(buffer) = Counted(p, u, v)' + 0
        /\ Counted(p, u, v) + P(buffer) <= Counted(p, u, v)' + 0
    BY <1>2, <2>1, <2>3
  <2> QED BY <1>3, <2>2, <2>4
<1> QED BY <1>8, <1>9

LEMMA NextPairsInv == PairsInv /\ [Next]_vars => PairsInv'
<1> SUFFICES ASSUME PairsInv, [Next]_vars PROVE PairsInv'
  OBVIOUS
<1>1. TextInv /\ IInv /\ TextInv' /\ TypeOK /\ AllBalanced
  BY NextTextInv DEF PairsInv, TextInv, IInv
<1>2. /\ \A p \in WordKbs : p \in KbPairs /\ Distance(p) \in Int
      /\ text \in Seq(Seq(Tokens)) /\ Len(text) \in Nat /\ read \in 0 .. Len(text)
  BY <1>1, DistanceType, LenProperties DEF WordKbs, TypeOK
<1>3. ASSUME NEW p \in WordKbs, NEW u, NEW v
      PROVE  Counted(p, u, v) \in Nat /\ Shown(<<u>>, <<v>>, Distance(p)) \in Nat
  <2>1. Bag(kbs[p].counts)
    BY <1>1, <1>2 DEF AllBalanced, Balanced
  <2> QED BY <1>1, <1>2, <2>1, ShownFacts DEF Counted, Copies, Bag
<1>4. ASSUME ReadSentence, NEW p \in WordKbs, NEW u \in Words, NEW v \in Words
      PROVE  /\ Counted(p, u, v)' = Counted(p, u, v) /\ Waiting(p, u, v) = 0
             /\ Shown(<<u>>, <<v>>, Distance(p))'
                  = Shown(<<u>>, <<v>>, Distance(p)) + Waiting(p, u, v)'
             /\ Waiting(p, u, v)' \in Nat
             /\ OneWindow' => OneWindow
  <2>1. /\ text' = text /\ kbs' = kbs /\ read' = read + 1 /\ read < Len(text)
        /\ pc = "sentence"
        /\ Len(text[read + 1]) < 2 => pc' = "sentence"
        /\ ~(Len(text[read + 1]) < 2) => pc' = "window" /\ buffer' = text[read + 1]
    BY <1>4 DEF ReadSentence
  <2> DEFINE d == Distance(p)
  <2>2. Shown(<<u>>, <<v>>, d)'
          = Shown(<<u>>, <<v>>, d)
            + IF Len(text[read + 1]) < 2 THEN 0
              ELSE Cardinality(WordPairs(text[read + 1], u, v, d))
    <3> HIDE DEF d
    <3>1. d \in Int
      BY <1>2 DEF d
    <3> QED BY <1>1, <2>1, <3>1, ShownFacts
  <2>3. text[read + 1] \in Seq(Tokens)
    BY <1>2, <2>1, ElementOfSeq
  <2>4. Cardinality(WordPairs(text[read + 1], u, v, d)) \in Nat
    BY <1>2, <2>3, WordPairsFacts
  <2>5. Waiting(p, u, v)' = IF Len(text[read + 1]) < 2 THEN 0
                            ELSE Cardinality(WordPairs(text[read + 1], u, v, d))
    BY <2>1 DEF Waiting
  <2>6. Counted(p, u, v)' = Counted(p, u, v) /\ Waiting(p, u, v) = 0
    BY <2>1 DEF Counted, Waiting
  <2>7. OneWindow' => OneWindow
    <3>1. Learned \subseteq Learned'
      BY <1>2, <2>1 DEF Learned
    <3> QED BY <2>1, <3>1 DEF OneWindow
  <2> QED BY <2>2, <2>4, <2>5, <2>6, <2>7
<1>5. ASSUME UNCHANGED <<text, read>>, NEW p \in WordKbs, NEW u \in Words, NEW v \in Words
      PROVE  /\ Shown(<<u>>, <<v>>, Distance(p))' = Shown(<<u>>, <<v>>, Distance(p))
             /\ OneWindow' <=> OneWindow
  <2>1. OneWindow' <=> OneWindow
    BY <1>5 DEF OneWindow, Learned
  <2> DEFINE d == Distance(p)
  <2>2. d \in Int
    BY <1>2
  <2> HIDE DEF d
  <2>3. Shown(<<u>>, <<v>>, d)' = Shown(<<u>>, <<v>>, d)
    BY <1>1, <1>5, <2>2, ShownFacts
  <2> QED BY <2>1, <2>3 DEF d
<1>6. ASSUME UNCHANGED <<text, read, kbs>>, pc # "window", pc' # "window",
             pc' \in {"sentence", "strengths"} => pc \in {"sentence", "strengths"}
      PROVE  EveryPairCounted'
  <2> SUFFICES ASSUME pc' \in {"sentence", "window", "strengths"},
                      NEW p \in WordKbs, NEW u \in Words, NEW v \in Words
               PROVE  /\ Distance(p) \in (-MaxMultiWordSize) .. MaxMultiWordSize =>
                           (Counted(p, u, v) + Waiting(p, u, v)
                              >= Shown(<<u>>, <<v>>, Distance(p)))'
                      /\ OneWindow' => (Counted(p, u, v) + Waiting(p, u, v)
                                          = Shown(<<u>>, <<v>>, Distance(p)))'
    BY DEF EveryPairCounted
  <2> DEFINE near == Distance(p) \in (-MaxMultiWordSize) .. MaxMultiWordSize
             c == Counted(p, u, v)
             x == Waiting(p, u, v)
             y == Shown(<<u>>, <<v>>, Distance(p))
             c2 == Counted(p, u, v)'
             x2 == Waiting(p, u, v)'
             y2 == Shown(<<u>>, <<v>>, Distance(p))'
  <2>1. (near => c + x >= y) /\ (OneWindow => c + x = y)
    BY <1>6 DEF PairsInv, EveryPairCounted
  <2>2. c2 = c /\ x2 = x
    BY <1>6 DEF Counted, Waiting
  <2>3. y2 = y /\ (OneWindow' <=> OneWindow)
    BY <1>5, <1>6
  <2> HIDE DEF c, x, y, c2, x2, y2, near
  <2>4. (near => c2 + x2 >= y2) /\ (OneWindow' => c2 + x2 = y2)
    BY <2>1, <2>2, <2>3
  <2> QED BY <2>4 DEF c2, x2, y2, near
<1>7. CASE ReadSentence
  <2> SUFFICES ASSUME NEW p \in WordKbs, NEW u \in Words, NEW v \in Words
               PROVE  /\ Distance(p) \in (-MaxMultiWordSize) .. MaxMultiWordSize =>
                           (Counted(p, u, v) + Waiting(p, u, v)
                              >= Shown(<<u>>, <<v>>, Distance(p)))'
                      /\ OneWindow' => (Counted(p, u, v) + Waiting(p, u, v)
                                          = Shown(<<u>>, <<v>>, Distance(p)))'
    BY <1>1 DEF PairsInv, EveryPairCounted
  <2> DEFINE c == Counted(p, u, v)
             x == Waiting(p, u, v)
             y == Shown(<<u>>, <<v>>, Distance(p))
             c2 == Counted(p, u, v)'
             x2 == Waiting(p, u, v)'
             y2 == Shown(<<u>>, <<v>>, Distance(p))'
             near == Distance(p) \in (-MaxMultiWordSize) .. MaxMultiWordSize
  <2>1. (near => c + x >= y) /\ (OneWindow => c + x = y)
    BY <1>7 DEF PairsInv, EveryPairCounted, ReadSentence
  <2>2. c2 = c /\ x = 0 /\ y2 = y + x2 /\ x2 \in Nat /\ (OneWindow' => OneWindow)
    BY <1>4, <1>7
  <2>3. c \in Nat /\ y \in Nat
    BY <1>3
  <2> HIDE DEF c, x, y, c2, x2, y2, near
  <2>4. (near => c2 + x2 >= y2) /\ (OneWindow' => c2 + x2 = y2)
    BY <2>1, <2>2, <2>3
  <2> QED BY <2>4 DEF c2, x2, y2, near
<1>8. CASE FinishReading
  <2>1. EveryPairCounted'
    BY <1>6, <1>8 DEF FinishReading
  <2> QED BY <1>1, <2>1 DEF PairsInv
<1>9. CASE LearnWindow
  <2>1. CASE pc' = "aborted"
    BY <1>1, <2>1 DEF PairsInv, EveryPairCounted
  <2>2. CASE pc' # "aborted"
    <3> SUFFICES ASSUME NEW p \in WordKbs, NEW u \in Words, NEW v \in Words
                 PROVE  /\ Distance(p) \in (-MaxMultiWordSize) .. MaxMultiWordSize =>
                             (Counted(p, u, v) + Waiting(p, u, v)
                                >= Shown(<<u>>, <<v>>, Distance(p)))'
                        /\ OneWindow' => (Counted(p, u, v) + Waiting(p, u, v)
                                            = Shown(<<u>>, <<v>>, Distance(p)))'
      BY <1>1 DEF PairsInv, EveryPairCounted
    <3> DEFINE c == Counted(p, u, v)
               x == Waiting(p, u, v)
               y == Shown(<<u>>, <<v>>, Distance(p))
               c2 == Counted(p, u, v)'
               x2 == Waiting(p, u, v)'
               y2 == Shown(<<u>>, <<v>>, Distance(p))'
               near == Distance(p) \in (-MaxMultiWordSize) .. MaxMultiWordSize
    <3>1. (near => c + x >= y) /\ (OneWindow => c + x = y)
      BY <1>9 DEF PairsInv, EveryPairCounted, LearnWindow
    <3>2. (near => c + x <= c2 + x2) /\ (OneWindow => c + x = c2 + x2)
      BY <1>9, <2>2, WindowBalance
    <3>3. y2 = y /\ (OneWindow' <=> OneWindow)
      BY <1>5, <1>9 DEF LearnWindow
    <3>4. c \in Nat /\ y \in Nat /\ c2 \in Nat
      <4>1. c2 = c + Cardinality(WordPairs(Window, u, v, Distance(p)))
        BY <1>1, <1>9, <2>2, WindowCounted
      <4>2. Bag((kbs[p].counts)')
        <5>1. AllBalanced'
          BY <1>1 DEF TextInv, IInv
        <5> QED BY <1>2, <5>1 DEF AllBalanced, Balanced
      <4> QED BY <1>3, <4>2 DEF Counted, Copies, Bag
    <3>5. x \in Nat /\ x2 \in Nat
      <4>1. buffer \in Seq(Tokens) /\ buffer' \in Seq(Tokens) /\ Distance(p) \in Int
        BY <1>1, <1>2 DEF TextInv, IInv, TypeOK
      <4> QED BY <4>1, WordPairsFacts DEF Waiting
    <3> HIDE DEF c, x, y, c2, x2, y2, near
    <3>6. (near => c2 + x2 >= y2) /\ (OneWindow' => c2 + x2 = y2)
      BY <3>1, <3>2, <3>3, <3>4, <3>5
    <3> QED BY <3>6 DEF c2, x2, y2, near
  <2> QED BY <2>1, <2>2
<1>10. CASE LinkStrengths
  BY <1>1, <1>10 DEF PairsInv, EveryPairCounted, LinkStrengths
<1>11. CASE UNCHANGED vars
  <2>1. EveryPairCounted'
    <3> SUFFICES ASSUME pc' \in {"sentence", "window", "strengths"},
                        NEW p \in WordKbs, NEW u \in Words, NEW v \in Words
                 PROVE  /\ Distance(p) \in (-MaxMultiWordSize) .. MaxMultiWordSize =>
                             (Counted(p, u, v) + Waiting(p, u, v)
                                >= Shown(<<u>>, <<v>>, Distance(p)))'
                        /\ OneWindow' => (Counted(p, u, v) + Waiting(p, u, v)
                                            = Shown(<<u>>, <<v>>, Distance(p)))'
      BY DEF EveryPairCounted
    <3> DEFINE near == Distance(p) \in (-MaxMultiWordSize) .. MaxMultiWordSize
               c == Counted(p, u, v)
               x == Waiting(p, u, v)
               y == Shown(<<u>>, <<v>>, Distance(p))
               c2 == Counted(p, u, v)'
               x2 == Waiting(p, u, v)'
               y2 == Shown(<<u>>, <<v>>, Distance(p))'
    <3>1. (near => c + x >= y) /\ (OneWindow => c + x = y)
      BY <1>11 DEF vars, PairsInv, EveryPairCounted
    <3>2. c2 = c /\ x2 = x
      BY <1>11 DEF vars, Counted, Waiting
    <3>3. y2 = y /\ (OneWindow' <=> OneWindow)
      BY <1>5, <1>11 DEF vars
    <3> HIDE DEF c, x, y, c2, x2, y2, near
    <3>4. (near => c2 + x2 >= y2) /\ (OneWindow' => c2 + x2 = y2)
      BY <3>1, <3>2, <3>3
    <3> QED BY <3>4 DEF c2, x2, y2, near
  <2> QED BY <1>1, <2>1 DEF PairsInv
<1> QED BY <1>7, <1>8, <1>9, <1>10, <1>11 DEF Next

\* Between two sentences every two words that were read no further apart than the
\* longest phrase are linked, as often as the text shows them at least, and exactly
\* so often while no sentence took a second window.
THEOREM PairsAreLearned == Spec => []EveryPairLearned
<1>1. Spec => []PairsInv
  BY InitPairsInv, NextPairsInv, PTL DEF Spec
<1>2. PairsInv => EveryPairLearned
  <2> SUFFICES ASSUME PairsInv, Between, NEW p \in KbPairs, NEW u \in Words, NEW v \in Words,
                      p[1] < NumWordModules, p[2] < NumWordModules, Inner(p)
               PROVE  LET count == Counted(p, u, v)
                          shown == Shown(<<u>>, <<v>>, Distance(p))
                      IN  /\ Distance(p) \in (-MaxMultiWordSize) .. MaxMultiWordSize =>
                               count >= shown
                          /\ OneWindow => count = shown
    BY DEF EveryPairLearned, Counted, OneWindow
  <2>1. p \in WordKbs /\ pc \in {"sentence", "strengths"}
    BY DEF WordKbs, Between
  <2>2. Waiting(p, u, v) = 0
    BY <2>1 DEF Waiting
  <2>3. Bag(kbs[p].counts)
    BY DEF PairsInv, TextInv, IInv, AllBalanced, Balanced
  <2>4. Counted(p, u, v) \in Nat /\ Counted(p, u, v) + 0 = Counted(p, u, v)
    BY <2>3 DEF Counted, Copies, Bag
  <2> QED BY <2>1, <2>2, <2>4 DEF PairsInv, EveryPairCounted
<1> QED BY <1>1, <1>2, PTL
=============================================================================
