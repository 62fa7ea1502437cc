---------------------------- MODULE SymbolsProofs ---------------------------
(***************************************************************************)
(* Proofs about ProduceSymbolMappings, for any texts and limits: the       *)
(* indices that AddSymbol gives out, and what the cleanup of NGramHandler  *)
(* leaves of the n-grams; then both ends of it.  The sentences that the    *)
(* reader returns are those of the texts, which are defined by the         *)
(* positions of the characters.  The symbols of the two mappings are taken *)
(* from the maps of NGramHandler in the order of the keys, strung together *)
(* word by word, and taken apart again by the organizer.                   *)
(***************************************************************************)
EXTENDS Symbols, Induction

\* A mapping whose maps are each the inverse of the other.
Indexed(m) ==
  /\ DOMAIN m = {"symbols", "toIndex", "toSymbol"}
  /\ IsFiniteSet(m.symbols)
  /\ m.toIndex \in [m.symbols -> 0 .. (Cardinality(m.symbols) - 1)]
  /\ m.toSymbol \in [0 .. (Cardinality(m.symbols) - 1) -> m.symbols]
  /\ \A s \in m.symbols : m.toSymbol[m.toIndex[s]] = s
  /\ \A i \in 0 .. (Cardinality(m.symbols) - 1) : m.toIndex[m.toSymbol[i]] = i

IInv ==
  /\ \E S : result \in Seq(S)
  /\ \A level \in 1 .. Len(result) : Indexed(result[level])
  /\ toAdd # <<>> => Len(result) > 0

-----------------------------------------------------------------------------
\* A new mapping has no symbols and no indices.
LEMMA EmptyIndexed == Indexed(EmptyMapping)
<1>1. IsFiniteSet({}) /\ Cardinality({}) = 0
  BY FS_EmptySet
<1>2. 0 .. (0 - 1) = {}
  OBVIOUS
<1>3. /\ <<>> \in [{} -> {}]
      /\ \A f : DOMAIN f = {} => f = <<>> \/ TRUE
  OBVIOUS
<1> QED BY <1>1, <1>2, <1>3 DEF Indexed, EmptyMapping

\* Adding a symbol keeps the maps inverse: the next index is the number of symbols,
\* which is free.
LEMMA AddSymbolIndexed ==
  ASSUME NEW m, Indexed(m), NEW s
  PROVE  Indexed(AddSymbol(m, s))
<1>1. CASE HasSymbol(m, s)
  BY <1>1 DEF AddSymbol
<1>2. CASE ~HasSymbol(m, s)
  <2> DEFINE n == Cardinality(m.symbols)
             a == AddSymbol(m, s)
  <2>1. n \in Nat /\ s \notin m.symbols
    BY <1>2, FS_CardinalityType DEF Indexed, HasSymbol
  <2>2. a = [symbols  |-> m.symbols \cup {s},
             toIndex  |-> Inserted(m.toIndex, s, n),
             toSymbol |-> Inserted(m.toSymbol, n, s)]
    BY <1>2 DEF AddSymbol, NextIndex
  <2>3. IsFiniteSet(m.symbols \cup {s}) /\ Cardinality(m.symbols \cup {s}) = n + 1
    <3>1. IsFiniteSet(m.symbols)
      BY DEF Indexed
    <3> QED BY <2>1, <3>1, FS_AddElement
  <2>4. /\ a.toIndex = [x \in m.symbols \cup {s} |-> IF x = s THEN n ELSE m.toIndex[x]]
        /\ a.toSymbol = [i \in 0 .. n |-> IF i = n THEN s ELSE m.toSymbol[i]]
    <3>1. DOMAIN m.toIndex = m.symbols /\ DOMAIN m.toSymbol = 0 .. (n - 1)
      BY DEF Indexed
    <3>2. (0 .. (n - 1)) \cup {n} = 0 .. n
      BY <2>1
    <3> QED BY <2>2, <3>1, <3>2 DEF Inserted
  <2> HIDE DEF a
  <2>5. /\ m.toIndex \in [m.symbols -> 0 .. (n - 1)]
        /\ m.toSymbol \in [0 .. (n - 1) -> m.symbols]
    BY DEF Indexed
  <2>6. a.symbols = m.symbols \cup {s}
    BY <2>2
  <2>7. a.toIndex \in [a.symbols -> 0 .. n] /\ a.toSymbol \in [0 .. n -> a.symbols]
    BY <2>1, <2>4, <2>5, <2>6
  <2>8. ASSUME NEW x \in a.symbols PROVE a.toSymbol[a.toIndex[x]] = x
    <3>1. CASE x = s
      BY <2>1, <2>2, <2>4, <3>1
    <3>2. CASE x # s
      <4>1. x \in m.symbols /\ a.toIndex[x] = m.toIndex[x] /\ m.toIndex[x] \in 0 .. (n - 1)
        BY <2>8, <2>4, <2>5, <2>6, <3>2
      <4> QED BY <2>1, <2>4, <4>1 DEF Indexed
    <3> QED BY <3>1, <3>2
  <2>9. ASSUME NEW i \in 0 .. n PROVE a.toIndex[a.toSymbol[i]] = i
    <3>1. CASE i = n
      BY <2>1, <2>4, <3>1
    <3>2. CASE i # n
      <4>1. i \in 0 .. (n - 1)
        BY <2>1, <2>9, <3>2
      <4>2. a.toSymbol[i] = m.toSymbol[i] /\ m.toSymbol[i] \in m.symbols
        BY <2>4, <2>9, <2>5, <3>2, <4>1
      <4> QED BY <2>1, <2>4, <4>1 DEF Indexed
    <3> QED BY <3>1, <3>2
  <2>10. DOMAIN a = {"symbols", "toIndex", "toSymbol"} /\ (n + 1) - 1 = n
    BY <2>1, <2>2
  <2>11. Indexed(a)
    BY <2>3, <2>6, <2>7, <2>8, <2>9, <2>10 DEF Indexed
  <2> QED BY <2>11 DEF a
<1> QED BY <1>1, <1>2

-----------------------------------------------------------------------------
LEMMA InitIInv == Init => IInv
BY DEF Init, IInv

\* Only two steps touch the mappings: one starts a mapping, the other adds the next
\* symbol to the last.
LEMMA NextIInv == IInv /\ [Next]_vars => IInv'
<1> SUFFICES ASSUME IInv, [Next]_vars PROVE IInv'
  OBVIOUS
<1>1. ASSUME UNCHANGED resultVars PROVE IInv'
  BY <1>1 DEF IInv, resultVars, Indexed
<1>2. CASE ReadSentence \/ StoreSentence \/ Cleanup \/ UNCHANGED vars
  BY <1>1, <1>2 DEF ReadSentence, StoreSentence, Cleanup, vars
<1>3. ASSUME NEW symbols, NEW n, ProduceMapping(symbols, n) PROVE IInv'
  <2>1. result' = Append(result, EmptyMapping)
    BY <1>3 DEF ProduceMapping
  <2>2. PICK S : result \in Seq(S)
    BY DEF IInv
  <2>3. /\ result \in Seq(S \cup {EmptyMapping})
        /\ result' \in Seq(S \cup {EmptyMapping}) /\ Len(result') = Len(result) + 1
        /\ Len(result) \in Nat
        /\ \A level \in 1 .. Len(result') :
             result'[level] = IF level <= Len(result) THEN result[level] ELSE EmptyMapping
    BY <2>1, <2>2
  <2> QED BY <2>3, EmptyIndexed DEF IInv
<1>4. CASE AddToMapping
  <2>1. result' = [result EXCEPT ![Len(result)] = AddSymbol(@, Head(toAdd))]
    BY <1>4 DEF AddToMapping
  <2>2. PICK S : result \in Seq(S)
    BY DEF IInv
  <2>3. /\ Len(result) \in Nat /\ Len(result) > 0
        /\ Len(result) \in 1 .. Len(result) /\ DOMAIN result = 1 .. Len(result)
    BY <1>4, <2>2 DEF AddToMapping, IInv
  <2>4. Indexed(AddSymbol(result[Len(result)], Head(toAdd)))
    BY <2>3, AddSymbolIndexed DEF IInv
  <2> DEFINE m == AddSymbol(result[Len(result)], Head(toAdd))
  <2> HIDE DEF m
  <2>5. /\ result' \in Seq(S \cup {m}) /\ Len(result') = Len(result)
        /\ \A level \in 1 .. Len(result) :
             result'[level] = IF level = Len(result) THEN m ELSE result[level]
    BY <2>1, <2>2, <2>3 DEF m
  <2>6. \E T : result' \in Seq(T)
    BY <2>5
  <2>7. Indexed(m)
    BY <2>4 DEF m
  <2>8. \A level \in 1 .. Len(result') : Indexed(result'[level])
    BY <2>5, <2>7 DEF IInv
  <2>9. Len(result') > 0
    BY <2>3, <2>5
  <2> QED BY <2>6, <2>8, <2>9 DEF IInv
<1>5. CASE ProduceMapping(N!GetSingleWordSymbols, 0) \/ ProduceMapping(N!GetMultiWordSymbols, 1)
  BY <1>3, <1>5
<1> QED BY <1>2, <1>4, <1>5 DEF Next

\* Whatever the texts and limits, the indices of every level run from zero without
\* a gap, no two symbols share one, and looking a symbol up by its index gives it
\* back, also while the mapping is filled (SymbolMapping::AddSymbol).
THEOREM Indices == Spec => []IndicesOfSymbols
<1>1. IInv => IndicesOfSymbols
  <2> SUFFICES ASSUME IInv, NEW level \in DOMAIN result
               PROVE  IndicesOfSymbols!(level)
    BY DEF IndicesOfSymbols
  <2>1. Indexed(result[level])
    <3>1. PICK S : result \in Seq(S)
      BY DEF IInv
    <3> QED BY <3>1 DEF IInv
  <2> QED BY <2>1 DEF Indexed, GetAllSymbols, IndexOf, GetSymbol
<1> QED BY <1>1, InitIInv, NextIInv, PTL DEF Spec

-----------------------------------------------------------------------------
(***************************************************************************)
(* The n-grams of the handler. The operators that NGrams extends come with *)
(* the instance once more: they are the ones of this module.               *)
(***************************************************************************)
LEMMA InstanceMin == \A S : N!Min(S) = Min(S)
BY DEF N!Min, Min

LEMMA InstanceFlattenSeq == \A ss : N!FlattenSeq(ss) = FlattenSeq(ss)
BY DEF N!FlattenSeq, FlattenSeq

LEMMA InstanceCardinality == \A S : N!Cardinality(S) = Cardinality(S)
BY DEF N!Cardinality, Cardinality

LEMMA InstanceSum == \A f, S : N!SumFunctionOnSet(f, S) = SumFunctionOnSet(f, S)
BY DEF N!SumFunctionOnSet, SumFunctionOnSet, N!FoldFunctionOnSet, FoldFunctionOnSet,
       N!MapThenFoldSet, MapThenFoldSet

IsGram(g, n) == g = [i \in 1 .. n |-> g[i]]

\* An entry of the map of size n holds a gram of that size; words have their own.
Entries(map, n) ==
  \A key \in DOMAIN map :
    /\ DOMAIN map[key] = {"gram", "count"}
    /\ IsGram(map[key].gram, n) /\ (n = 1 => map[key].gram = <<key>>)

WordsIn(map, n, words) ==
  \A key \in DOMAIN map : \A i \in 1 .. n : map[key].gram[i] \in words

\* From stage V on the phrases consist of words that are still there.
GramsInv ==
  /\ stage \in 0 .. 8
  /\ maps = [n \in N!Sizes |-> maps[n]]
  /\ \A n \in N!Sizes : Entries(maps[n], n)
  /\ stage >= 5 => \A n \in 2 .. MaxMultiWords : WordsIn(maps[n], n, DOMAIN maps[1])

LEMMA SizesFacts ==
  /\ MaxMultiWords \in Nat /\ MaxMultiWords >= 2
  /\ N!Sizes = 1 .. MaxMultiWords /\ 1 \in N!Sizes
  /\ \A n \in 2 .. MaxMultiWords : n \in N!Sizes /\ n # 1
  /\ \A n \in N!Sizes : n \in Nat /\ n >= 1 /\ (n # 1 => n \in 2 .. MaxMultiWords)
BY SymbolsAssumption DEF N!Sizes

\* What SubSeq cuts out of any text is a gram, and so is the beginning of one.
LEMMA GramFacts ==
  ASSUME NEW s, NEW n \in Nat \ {0}, NEW i \in Int
  PROVE  /\ IsGram(SubSeq(s, i, i + n - 1), n)
         /\ \A k \in 1 .. n : SubSeq(s, i, i + n - 1)[k] = s[i + k - 1]
<1> DEFINE j == i + n - 1
           S == {s[k] : k \in i .. j}
           g == SubSeq(s, i, j)
<1>1. j \in Int /\ i <= j /\ j - i + 1 = n
  OBVIOUS
<1>2. \A k \in i .. j : s[k] \in S
  OBVIOUS
<1> HIDE DEF S
<1>3. /\ g \in Seq(S) /\ Len(g) = IF i <= j THEN j - i + 1 ELSE 0
      /\ \A k \in 1 .. j - i + 1 : g[k] = s[i + k - 1]
  BY <1>1, <1>2, SubSeqProperties
<1>4. Len(g) = n /\ \A k \in 1 .. n : g[k] = s[i + k - 1]
  BY <1>1, <1>3
<1>5. g \in [1 .. n -> S]
  BY <1>3, <1>4, LenProperties
<1> HIDE DEF g
<1>6. IsGram(g, n)
  BY <1>5 DEF IsGram
<1> QED BY <1>4, <1>6 DEF g

LEMMA GramOfOne ==
  ASSUME NEW g, IsGram(g, 1)
  PROVE  g = <<g[1]>> /\ N!Key(g) = g[1]
<1> DEFINE x == g[1]
<1>1. g = <<x>>
  BY DEF IsGram
<1>2. FlattenSeq(<<x>>) = x
  BY FlattenSingle
<1> HIDE DEF x
<1>3. N!Key(g) = x
  BY <1>1, <1>2, InstanceFlattenSeq DEF N!Key
<1> QED BY <1>1, <1>3 DEF x

LEMMA OnlyFacts ==
  /\ \A map, keys, n : Entries(map, n) => Entries(N!Only(map, keys), n)
  /\ \A map, keys, n, words : WordsIn(map, n, words) => WordsIn(N!Only(map, keys), n, words)
BY DEF N!Only, Entries, WordsIn

\* What the n-grams of one more sentence make of a map.
LEMMA CountedFacts ==
  ASSUME NEW map, NEW s, NEW n \in Nat \ {0}, Entries(map, n)
  PROVE  Entries(N!Counted(map, s, n), n)
<1> DEFINE c == N!Counted(map, s, n)
           At(key) == {i \in N!Starts(s, n) : N!Key(N!Gram(s, n, i)) = key}
           new == {N!Key(N!Gram(s, n, i)) : i \in N!Starts(s, n)}
<1>1. /\ DOMAIN c = DOMAIN map \cup new
      /\ \A key \in DOMAIN c : /\ DOMAIN c[key] = {"gram", "count"}
                              /\ c[key].gram = IF key \in DOMAIN map THEN map[key].gram
                                               ELSE N!Gram(s, n, N!Min(At(key)))
  <2> DEFINE Old(key) == key \in DOMAIN map
             Count(key) == (IF Old(key) THEN map[key].count ELSE 0) + N!Cardinality(At(key))
             First(key) == IF Old(key) THEN map[key].gram ELSE N!Gram(s, n, N!Min(At(key)))
  <2>1. c = [key \in DOMAIN map \cup new |-> [gram |-> First(key), count |-> Count(key)]]
    BY DEF N!Counted
  <2> HIDE DEF c, At, new, Count
  <2> QED BY <2>1
<1>2. ASSUME NEW i \in N!Starts(s, n)
      PROVE  /\ i \in Nat /\ IsGram(N!Gram(s, n, i), n)
             /\ n = 1 => N!Gram(s, n, i) = <<N!Key(N!Gram(s, n, i))>>
  <2>1. i \in Nat
    BY DEF N!Starts
  <2>2. IsGram(N!Gram(s, n, i), n)
    BY <2>1, GramFacts DEF N!Gram
  <2> QED BY <2>1, <2>2, GramOfOne
<1>3. ASSUME NEW key \in new
      PROVE  N!Min(At(key)) \in At(key)
  <2>1. At(key) # {} /\ At(key) \in SUBSET Nat
    BY <1>2
  <2> HIDE DEF At
  <2>2. PICK i \in At(key) : \A j \in At(key) : i <= j
    BY <2>1, LeastNatural
  <2> QED BY <2>2, InstanceMin DEF Min
<1>4. ASSUME NEW key \in DOMAIN c
      PROVE  IsGram(c[key].gram, n) /\ (n = 1 => c[key].gram = <<key>>)
  <2>1. CASE key \in DOMAIN map
    BY <1>1, <2>1 DEF Entries
  <2>2. CASE key \notin DOMAIN map
    <3> DEFINE i == N!Min(At(key))
    <3>1. i \in At(key)
      BY <1>1, <1>3, <2>2
    <3>2. i \in N!Starts(s, n) /\ N!Key(N!Gram(s, n, i)) = key
      BY <3>1
    <3>3. c[key].gram = N!Gram(s, n, i)
      BY <1>1, <2>2
    <3> HIDE DEF i, c
    <3> QED BY <1>2, <3>2, <3>3
  <2> QED BY <2>1, <2>2
<1> QED BY <1>1, <1>4 DEF Entries, c

\* Stage V keeps the words: a word has no beginning that could be missing.
LEMMA PrefixedFacts ==
  /\ DOMAIN N!Prefixed = N!Sizes
  /\ \A n \in N!Sizes : \E keys : N!Prefixed[n] = N!Only(maps[n], keys)
  /\ N!Prefixed[1] = N!Only(maps[1], DOMAIN maps[1])
  /\ \E kept :
       /\ kept[1] = DOMAIN maps[1]
       /\ \A n \in 2 .. MaxMultiWords :
            /\ N!Prefixed[n] = N!Only(maps[n], kept[n])
            /\ \A key \in DOMAIN maps[n] :
                 key \in kept[n] <=> N!Key(N!Beginning(maps[n][key].gram, n - 1)) \in
                                     kept[n - 1] \cap N!Frequent(maps[n - 1], MinMulti)
<1> DEFINE Has(keys, n, key) ==
             N!Key(N!Beginning(maps[n][key].gram, n - 1)) \in
               keys \cap N!Frequent(maps[n - 1], MinMulti)
           Body(f, n) == IF n = 1 THEN DOMAIN maps[1]
                         ELSE {key \in DOMAIN maps[n] : Has(f[n - 1], n, key)}
           Kept == CHOOSE f : f = [n \in N!Sizes |-> Body(f, n)]
           Reach == {m \in Nat : \E f : f = [n \in 1 .. m |-> Body(f, n)]}
<1>1. N!Prefixed = [n \in N!Sizes |-> N!Only(maps[n], Kept[n])]
  BY DEF N!Prefixed
<1> HIDE DEF Has
<1>2. 0 \in Reach
  <2> DEFINE f == [n \in 1 .. 0 |-> TRUE]
  <2>1. f = [n \in 1 .. 0 |-> Body(f, n)]
    <3>1. 1 .. 0 = {}
      OBVIOUS
    <3> QED BY <3>1
  <2> HIDE DEF f, Body
  <2> QED BY <2>1
<1>3. ASSUME NEW m \in Nat, m \in Reach PROVE m + 1 \in Reach
  <2>1. PICK f : f = [n \in 1 .. m |-> Body(f, n)]
    BY <1>3
  <2> DEFINE h == [n \in 1 .. (m + 1) |-> Body(f, n)]
  <2>2. ASSUME NEW n \in 1 .. (m + 1) PROVE Body(h, n) = Body(f, n)
    <3>1. CASE n = 1
      BY <3>1
    <3>2. CASE n # 1
      <4>1. n - 1 \in 1 .. m /\ n - 1 \in 1 .. (m + 1)
        BY <2>2, <3>2
      <4> HIDE DEF Body
      <4>2. h[n - 1] = f[n - 1]
        BY <2>1, <4>1
      <4> HIDE DEF h
      <4> QED BY <3>2, <4>2 DEF Body
    <3> QED BY <3>1, <3>2
  <2> HIDE DEF Body
  <2>3. h = [n \in 1 .. (m + 1) |-> Body(h, n)]
    BY <2>2
  <2> HIDE DEF h
  <2> QED BY <2>3
<1>4. \A m \in Nat : m \in Reach
  <2> HIDE DEF Reach
  <2> QED BY <1>2, <1>3, SimpleInduction
<1>5. Kept = [n \in N!Sizes |-> Body(Kept, n)]
  <2>1. \E f : f = [n \in N!Sizes |-> Body(f, n)]
    BY <1>4, SizesFacts
  <2> HIDE DEF Body
  <2> QED BY <2>1
<1> HIDE DEF Kept
<1>6. Kept[1] = DOMAIN maps[1]
  BY <1>5, SizesFacts
<1>7. ASSUME NEW n \in 2 .. MaxMultiWords, NEW key \in DOMAIN maps[n]
      PROVE  key \in Kept[n] <=> Has(Kept[n - 1], n, key)
  <2>1. Kept[n] = Body(Kept, n) /\ n # 1
    BY <1>5, SizesFacts
  <2> QED BY <2>1
<1> HIDE DEF Body, Reach
<1>8. \A n \in 2 .. MaxMultiWords : N!Prefixed[n] = N!Only(maps[n], Kept[n])
  BY <1>1, SizesFacts
<1>9. \E kept :
        /\ kept[1] = DOMAIN maps[1]
        /\ \A n \in 2 .. MaxMultiWords :
             /\ N!Prefixed[n] = N!Only(maps[n], kept[n])
             /\ \A key \in DOMAIN maps[n] : key \in kept[n] <=> Has(kept[n - 1], n, key)
  BY <1>6, <1>7, <1>8
<1> QED BY <1>1, <1>6, <1>9, SizesFacts DEF Has

\* Stage VI: a beginning that gets an entry consists of words of a longer phrase.
LEMMA ReducedFacts ==
  ASSUME NEW m \in 2 .. MaxMultiWords, NEW words,
         \A n \in 2 .. MaxMultiWords : Entries(maps[n], n) /\ WordsIn(maps[n], n, words)
  PROVE  /\ Entries(N!Reduced(m), m) /\ WordsIn(N!Reduced(m), m, words)
         /\ \A key \in DOMAIN maps[m] : N!Reduced(m)[key].gram = maps[m][key].gram
         /\ DOMAIN N!Reduced(m) =
              DOMAIN maps[m] \cup {N!Key(N!Beginning(maps[nk[1]][nk[2]].gram, m)) : nk \in N!Longer(m)}
<1> DEFINE First(key) == CHOOSE nk \in N!TakersOf(m, key) :
                           \A other \in N!TakersOf(m, key) : nk[1] <= other[1]
           made == {N!Key(N!Beginning(maps[nk[1]][nk[2]].gram, m)) : nk \in N!Longer(m)}
           r == N!Reduced(m)
<1>0. m \in Nat \ {0} /\ m # 1
  BY SizesFacts
<1>1. ASSUME NEW key \in made
      PROVE  First(key) \in N!TakersOf(m, key)
  <2> DEFINE Takers == N!TakersOf(m, key)
             lengths == {nk[1] : nk \in Takers}
  <2>1. Takers \subseteq N!Longer(m)
    BY DEF N!TakersOf
  <2>2. PICK nk \in Takers : TRUE
    BY DEF N!TakersOf
  <2>3. ASSUME NEW e \in N!Longer(m) PROVE e[1] \in Nat
    <3>1. PICK n \in (m + 1) .. MaxMultiWords : e \in {n} \X DOMAIN maps[n]
      BY DEF N!Longer
    <3> QED BY <1>0, <3>1
  <2>4. lengths \in SUBSET Nat /\ lengths # {}
    <3>1. \A e \in Takers : e[1] \in Nat
      BY <2>1, <2>3
    <3> QED BY <2>2, <3>1
  <2> HIDE DEF Takers
  <2>5. PICK l \in lengths : \A k \in lengths : l <= k
    <3> HIDE DEF lengths
    <3> QED BY <2>4, LeastNatural
  <2>6. PICK e \in Takers : e[1] = l
    BY <2>5
  <2>7. \A other \in Takers : e[1] <= other[1]
    BY <2>5, <2>6
  <2>8. \E first \in Takers : \A other \in Takers : first[1] <= other[1]
    BY <2>6, <2>7
  <2> QED BY <2>8 DEF Takers
<1>2. /\ DOMAIN r = DOMAIN maps[m] \cup made
      /\ \A key \in DOMAIN maps[m] :
           r[key] = [maps[m][key] EXCEPT !.count = (@ - N!Taken(m, key)) % SizeT]
      /\ \A key \in made : key \notin DOMAIN maps[m] =>
           r[key] = [gram  |-> N!Beginning(maps[First(key)[1]][First(key)[2]].gram, m),
                     count |-> (0 - N!Taken(m, key)) % SizeT]
  BY DEF N!Reduced
<1>3. ASSUME NEW nk \in N!Longer(m)
      PROVE  /\ IsGram(N!Beginning(maps[nk[1]][nk[2]].gram, m), m)
             /\ \A i \in 1 .. m : N!Beginning(maps[nk[1]][nk[2]].gram, m)[i] \in words
  <2>1. PICK n \in (m + 1) .. MaxMultiWords : nk \in {n} \X DOMAIN maps[n]
    BY DEF N!Longer
  <2> DEFINE g == maps[n][nk[2]].gram
  <2>2. n \in 2 .. MaxMultiWords /\ n \in Nat /\ m <= n
    BY <1>0, <2>1, SizesFacts
  <2>3. nk[1] = n /\ nk[2] \in DOMAIN maps[n]
    BY <2>1
  <2>4. \A i \in 1 .. n : g[i] \in words
    BY <2>2, <2>3 DEF WordsIn
  <2> HIDE DEF g
  <2>5. 1 + m - 1 = m /\ \A k \in 1 .. m : 1 + k - 1 = k /\ k \in 1 .. n
    BY <1>0, <2>2
  <2>6. /\ IsGram(SubSeq(g, 1, m), m)
        /\ \A k \in 1 .. m : SubSeq(g, 1, m)[k] = g[k]
    <3> 1 \in Int
      OBVIOUS
    <3>1. /\ IsGram(SubSeq(g, 1, 1 + m - 1), m)
          /\ \A k \in 1 .. m : SubSeq(g, 1, 1 + m - 1)[k] = g[1 + k - 1]
      BY <1>0, GramFacts
    <3> QED BY <2>5, <3>1
  <2> QED BY <2>3, <2>4, <2>5, <2>6 DEF N!Beginning, g
<1> HIDE DEF First, made, r
<1>4. ASSUME NEW key \in DOMAIN r
      PROVE  /\ DOMAIN r[key] = {"gram", "count"} /\ IsGram(r[key].gram, m)
             /\ \A i \in 1 .. m : r[key].gram[i] \in words
             /\ key \in DOMAIN maps[m] => r[key].gram = maps[m][key].gram
  <2>1. CASE key \in DOMAIN maps[m]
    <3> DEFINE v == (maps[m][key].count - N!Taken(m, key)) % SizeT
    <3>1. r[key] = [maps[m][key] EXCEPT !.count = v]
      BY <1>2, <2>1
    <3> HIDE DEF v
    <3>2. DOMAIN maps[m][key] = {"gram", "count"}
      BY <2>1 DEF Entries
    <3>3. r[key].gram = maps[m][key].gram /\ DOMAIN r[key] = {"gram", "count"}
      BY <3>1, <3>2
    <3> QED BY <2>1, <3>3 DEF Entries, WordsIn
  <2>2. CASE key \notin DOMAIN maps[m]
    <3>1. key \in made /\ First(key) \in N!Longer(m)
      BY <1>1, <1>2, <2>2 DEF N!TakersOf
    <3> DEFINE b == N!Beginning(maps[First(key)[1]][First(key)[2]].gram, m)
    <3>2. r[key].gram = b /\ DOMAIN r[key] = {"gram", "count"}
      BY <1>2, <2>2, <3>1
    <3> HIDE DEF b
    <3>3. IsGram(b, m) /\ \A i \in 1 .. m : b[i] \in words
      BY <1>3, <3>1 DEF b
    <3> QED BY <2>2, <3>2, <3>3
  <2> QED BY <2>1, <2>2
<1>5. Entries(r, m) /\ WordsIn(r, m, words)
  BY <1>0, <1>4 DEF Entries, WordsIn
<1>6. \A key \in DOMAIN maps[m] : r[key].gram = maps[m][key].gram
  BY <1>2, <1>4
<1> QED BY <1>2, <1>5, <1>6 DEF r, made

LEMMA InitGramsInv == Init => GramsInv
<1> SUFFICES ASSUME Init PROVE GramsInv
  OBVIOUS
<1>1. stage = 0 /\ maps = [n \in N!Sizes |-> <<>>] /\ DOMAIN <<>> = {}
  BY DEF Init, N!Init
<1> QED BY <1>1 DEF GramsInv, Entries

\* Every step of the cleanup but stage VI only removes entries, and no stage but the
\* first two removes a word.
LEMMA NextGramsInv == GramsInv /\ [Next]_vars => GramsInv'
<1> SUFFICES ASSUME GramsInv, [Next]_vars PROVE GramsInv'
  OBVIOUS
<1> USE SizesFacts
<1>0. /\ stage \in 0 .. 8 /\ maps = [n \in N!Sizes |-> maps[n]]
      /\ \A n \in N!Sizes : Entries(maps[n], n)
      /\ stage >= 5 => \A n \in 2 .. MaxMultiWords : WordsIn(maps[n], n, DOMAIN maps[1])
  BY DEF GramsInv
<1>1. ASSUME stage' \in 0 .. 8, maps' = [n \in N!Sizes |-> maps'[n]],
             \A n \in N!Sizes : Entries(maps'[n], n),
             stage' >= 5 => \A n \in 2 .. MaxMultiWords : WordsIn(maps'[n], n, DOMAIN maps'[1])
      PROVE  GramsInv'
  BY <1>1 DEF GramsInv, N!Sizes
<1>2. ASSUME UNCHANGED handlerVars PROVE GramsInv'
  BY <1>2 DEF GramsInv, handlerVars, N!Sizes
<1>3. ASSUME stage' \in 0 .. 8, stage' >= 5 => stage >= 4,
             maps' = [n \in N!Sizes |-> maps'[n]],
             \A n \in N!Sizes : \/ maps'[n] = maps[n]
                               \/ \E keys : maps'[n] = N!Only(maps[n], keys),
             stage' >= 5 => DOMAIN maps'[1] = DOMAIN maps[1],
             stage = 4 => \A n \in 2 .. MaxMultiWords : WordsIn(maps'[n], n, DOMAIN maps[1])
      PROVE  GramsInv'
  <2>1. ASSUME NEW n \in N!Sizes PROVE Entries(maps'[n], n)
    <3>1. ASSUME NEW keys, maps'[n] = N!Only(maps[n], keys) PROVE Entries(maps'[n], n)
      <4>1. Entries(N!Only(maps[n], keys), n)
        BY <1>0, OnlyFacts
      <4> QED BY <3>1, <4>1
    <3> QED BY <1>0, <1>3, <3>1
  <2>2. ASSUME stage' >= 5, stage # 4, NEW n \in 2 .. MaxMultiWords
        PROVE  WordsIn(maps'[n], n, DOMAIN maps'[1])
    <3>1. stage >= 5
      BY <1>0, <1>3, <2>2
    <3>2. WordsIn(maps[n], n, DOMAIN maps[1])
      BY <1>0, <3>1
    <3>3. ASSUME NEW keys, maps'[n] = N!Only(maps[n], keys)
          PROVE  WordsIn(maps'[n], n, DOMAIN maps[1])
      <4>1. WordsIn(N!Only(maps[n], keys), n, DOMAIN maps[1])
        BY <3>2, OnlyFacts
      <4> QED BY <3>3, <4>1
    <3>4. n \in N!Sizes
      OBVIOUS
    <3>5. WordsIn(maps'[n], n, DOMAIN maps[1])
      BY <1>3, <3>2, <3>3, <3>4
    <3> QED BY <1>3, <2>2, <3>5
  <2> QED BY <1>1, <1>3, <2>1, <2>2
<1>4. CASE ReadSentence \/ AddToMapping \/ UNCHANGED vars
  BY <1>2, <1>4 DEF ReadSentence, AddToMapping, vars
<1>5. ASSUME NEW symbols, NEW n, ProduceMapping(symbols, n) PROVE GramsInv'
  BY <1>2, <1>5 DEF ProduceMapping
<1>6. CASE StoreSentence
  <2>1. /\ stage = 0 /\ stage' = 0
        /\ maps' = [n \in N!Sizes |-> N!Counted(maps[n], returned[read + 1], n)]
    BY <1>6 DEF StoreSentence, N!ExtractAndStoreNGrams
  <2>2. \A n \in N!Sizes : Entries(maps'[n], n)
    BY <1>0, <2>1, CountedFacts
  <2> QED BY <1>1, <2>1, <2>2
<1>7. CASE N!FinishReading
  <2>1. stage = 0 /\ stage' = 1 /\ maps' = maps
    BY <1>7 DEF N!FinishReading
  <2> QED BY <1>0, <1>1, <2>1
<1>8. CASE N!RareWords \/ N!LimitWords
  <2>1. PICK keys : /\ stage \in {1, 2} /\ stage' = stage + 1
                    /\ maps' = [maps EXCEPT ![1] = N!Only(@, keys)]
    BY <1>8 DEF N!RareWords, N!LimitWords, N!Step
  <2>2. \A n \in N!Sizes : maps'[n] = IF n = 1 THEN N!Only(maps[1], keys) ELSE maps[n]
    BY <1>0, <2>1
  <2>3. Entries(N!Only(maps[1], keys), 1)
    BY <1>0, OnlyFacts
  <2>4. \A n \in N!Sizes : Entries(maps'[n], n)
    BY <1>0, <2>2, <2>3
  <2>5. maps' = [n \in N!Sizes |-> maps'[n]]
    BY <1>0, <2>1
  <2> QED BY <1>1, <2>1, <2>4, <2>5
<1>9. CASE N!RarePhrases
  <2>1. /\ stage = 3 /\ stage' = 4
        /\ maps' = [n \in N!Sizes |-> IF n = 1 THEN maps[1]
                                     ELSE N!Only(maps[n], N!Frequent(maps[n], MinMulti))]
    BY <1>9 DEF N!RarePhrases, N!Step
  <2>2. \A n \in N!Sizes : maps'[n] = maps[n] \/ \E keys : maps'[n] = N!Only(maps[n], keys)
    BY <2>1
  <2> QED BY <1>3, <2>1, <2>2
<1>10. CASE N!PhrasesOfRareWords
  <2> DEFINE frequent(n) == {key \in DOMAIN maps[n] : N!WordsFrequent(maps[n][key].gram)}
  <2>1. /\ stage = 4 /\ stage' = 5
        /\ maps' = [n \in N!Sizes |-> IF n = 1 THEN maps[1] ELSE N!Only(maps[n], frequent(n))]
    BY <1>10 DEF N!PhrasesOfRareWords, N!Step
  <2>2. ASSUME NEW n \in 2 .. MaxMultiWords, NEW key \in frequent(n), NEW i \in 1 .. n
        PROVE  maps[n][key].gram[i] \in DOMAIN maps[1]
    <3> DEFINE g == maps[n][key].gram
    <3>1. IsGram(g, n)
      BY <1>0 DEF Entries
    <3>2. N!WordsFrequent(g)
      OBVIOUS
    <3> HIDE DEF g
    <3>3. i \in DOMAIN g
      BY <3>1 DEF IsGram
    <3>4. N!Key(<<g[i]>>) \in DOMAIN maps[1]
      BY <3>2, <3>3 DEF N!WordsFrequent, N!Frequent
    <3>5. N!Key(<<g[i]>>) = g[i]
      BY FlattenSingle, InstanceFlattenSeq DEF N!Key
    <3> QED BY <3>4, <3>5 DEF g
  <2> HIDE DEF frequent
  <2>3. ASSUME NEW n \in 2 .. MaxMultiWords PROVE WordsIn(maps'[n], n, DOMAIN maps[1])
    <3>1. maps'[n] = N!Only(maps[n], frequent(n))
      BY <2>1
    <3> QED BY <2>2, <3>1 DEF WordsIn, N!Only
  <2>4. \A n \in N!Sizes : maps'[n] = maps[n] \/ \E keys : maps'[n] = N!Only(maps[n], keys)
    BY <2>1
  <2>5. maps' = [n \in N!Sizes |-> maps'[n]] /\ DOMAIN maps'[1] = DOMAIN maps[1]
    BY <2>1
  <2> QED BY <1>3, <2>1, <2>3, <2>4, <2>5
<1>11. CASE N!PhrasesOfRarePrefixes
  <2>1. stage = 5 /\ stage' = 6 /\ maps' = N!Prefixed
    BY <1>11 DEF N!PhrasesOfRarePrefixes, N!Step
  <2>2. N!Prefixed = [n \in N!Sizes |-> N!Prefixed[n]]
    BY DEF N!Prefixed
  <2>3. DOMAIN N!Prefixed[1] = DOMAIN maps[1]
    BY PrefixedFacts DEF N!Only
  <2> QED BY <1>3, <2>1, <2>2, <2>3, PrefixedFacts
<1>12. CASE N!FavorLargerPhrases
  <2>1. /\ stage = 6 /\ stage' = 7
        /\ maps' = [n \in N!Sizes |-> IF n = 1 THEN maps[1] ELSE N!Reduced(n)]
    BY <1>12 DEF N!FavorLargerPhrases, N!Step
  <2> DEFINE words == DOMAIN maps[1]
  <2>2. ASSUME NEW n \in 2 .. MaxMultiWords
        PROVE  Entries(maps[n], n) /\ WordsIn(maps[n], n, words)
    <3>1. n \in N!Sizes /\ stage >= 5
      BY <2>1
    <3> QED BY <1>0, <3>1
  <2> HIDE DEF words
  <2>3. ASSUME NEW n \in 2 .. MaxMultiWords
        PROVE  Entries(N!Reduced(n), n) /\ WordsIn(N!Reduced(n), n, words)
    BY <2>2, ReducedFacts
  <2>4. /\ maps' = [n \in N!Sizes |-> maps'[n]]
        /\ DOMAIN maps'[1] = words /\ maps'[1] = maps[1]
        /\ \A n \in 2 .. MaxMultiWords : maps'[n] = N!Reduced(n)
    BY <2>1 DEF words
  <2> QED BY <1>0, <1>1, <2>1, <2>3, <2>4
<1>13. CASE N!LimitPhrases
  <2> DEFINE counts == [nk \in UNION {{n} \X DOMAIN maps[n] : n \in 2 .. MaxMultiWords} |->
                          maps[nk[1]][nk[2]].count]
             Left(K) == [n \in N!Sizes |->
                           IF n = 1 THEN maps[1]
                           ELSE N!Only(maps[n], {nk[2] : nk \in {e \in K : e[1] = n}})]
  <2>0. /\ stage = 7 /\ stage' = 8
        /\ \E K \in N!Limited(counts, MaxMultiSymbols) : maps' = Left(K)
    <3>1. stage = 7 /\ stage' = 8
      BY <1>13 DEF N!LimitPhrases, N!Step
    <3>2. \E K \in N!Limited(counts, MaxMultiSymbols) : maps' = Left(K)
      BY <1>13, Zenon DEF N!LimitPhrases
    <3> QED BY <3>1, <3>2
  <2>1. PICK K : /\ stage = 7 /\ stage' = 8
                 /\ maps' = [n \in N!Sizes |->
                              IF n = 1 THEN maps[1]
                              ELSE N!Only(maps[n], {nk[2] : nk \in {e \in K : e[1] = n}})]
    <3> HIDE DEF counts
    <3> QED BY <2>0
  <2>2. \A n \in N!Sizes : maps'[n] = maps[n] \/ \E keys : maps'[n] = N!Only(maps[n], keys)
    BY <2>1
  <2>3. DOMAIN maps'[1] = DOMAIN maps[1] /\ maps' = [n \in N!Sizes |-> maps'[n]]
    BY <2>1
  <2>4. stage = 7 /\ stage' = 8
    BY <2>0
  <2> HIDE DEF counts, Left
  <2> QED BY <1>3, <2>2, <2>3, <2>4
<1>14. CASE Cleanup
  BY <1>7, <1>8, <1>9, <1>10, <1>11, <1>12, <1>13, <1>14 DEF Cleanup, N!CleanupNGrams
<1>15. CASE ProduceMapping(N!GetSingleWordSymbols, 0) \/ ProduceMapping(N!GetMultiWordSymbols, 1)
  BY <1>5, <1>15
<1> QED BY <1>4, <1>6, <1>14, <1>15 DEF Next

\* Whatever the texts and limits and whatever n-grams share an entry, every word of
\* a phrase symbol is itself a word symbol: the phrases that stage IV leaves consist
\* of words that are there, no later stage removes a word, and the beginnings that
\* stage VI makes entries for are parts of such phrases (CleanupNGrams).
THEOREM WordsOfPhrases == Spec => []PhrasesOfWords
<1>1. GramsInv => PhrasesOfWords
  <2> SUFFICES ASSUME GramsInv, stage = 8, NEW n \in 2 .. MaxMultiWords,
                      NEW key \in DOMAIN maps[n], NEW i \in DOMAIN maps[n][key].gram
               PROVE  <<maps[n][key].gram[i]>> \in N!WordSymbols
    BY DEF PhrasesOfWords, N!PhrasesOfWords, N!Cleaned, N!PhraseSymbols, N!Left
  <2> USE SizesFacts
  <2> DEFINE word == maps[n][key].gram[i]
  <2>0. Entries(maps[n], n) /\ WordsIn(maps[n], n, DOMAIN maps[1]) /\ Entries(maps[1], 1)
    <3>1. n \in N!Sizes /\ 1 \in N!Sizes /\ stage >= 5
      OBVIOUS
    <3> QED BY <3>1 DEF GramsInv
  <2>1. i \in 1 .. n
    BY <2>0 DEF Entries, IsGram
  <2>2. word \in DOMAIN maps[1]
    BY <2>0, <2>1 DEF WordsIn
  <2>3. maps[1][word].gram = <<word>>
    BY <2>0, <2>2 DEF Entries
  <2> QED BY <2>2, <2>3 DEF N!WordSymbols, N!Left
<1> QED BY <1>1, InitGramsInv, NextGramsInv, PTL DEF Spec

-----------------------------------------------------------------------------
(***************************************************************************)
(* What the reader returns are sequences of words, so that the handler     *)
(* finds finitely many n-grams in each.                                    *)
(***************************************************************************)
Undot == Characters \ {Abbr}
Line  == Seq(Undot)
Words == {CleanToken(token) : token \in Seq(Undot \ TokenDelimiters)}

\* A cleaned token consists of letters.
LEMMA WordsType == Words \subseteq Seq(Letters)
<1> SUFFICES ASSUME NEW token \in Seq(Undot \ TokenDelimiters)
             PROVE  CleanToken(token) \in Seq(Letters)
  BY DEF Words
<1> DEFINE At(i) == IF token[i] \in Marks THEN <<>> ELSE <<token[i]>>
           parts == [i \in DOMAIN token |-> At(i)]
<1>1. DOMAIN token = 1 .. Len(token) /\ Len(token) \in Nat
  BY LenProperties
<1>2. ASSUME NEW i \in DOMAIN token PROVE At(i) \in Seq(Letters)
  <2>1. token[i] \in Undot \ TokenDelimiters
    BY <1>1, ElementOfSeq
  <2>2. token[i] \notin Marks => token[i] \in Letters
    BY <2>1 DEF Letters, Undot
  <2> QED BY <2>2
<1>3. parts \in Seq(Seq(Letters))
  <2> HIDE DEF At
  <2> QED BY <1>1, <1>2
<1>4. CleanToken(token) = FlattenSeq(parts)
  BY DEF CleanToken, ConvertSymbolToAlphanumeric
<1> HIDE DEF parts
<1> QED BY <1>3, <1>4, FlattenType

\* A search stops at the first character of its kind, or there is none.
LEMMA FindFirstFound ==
  ASSUME NEW s \in Line, NEW from \in 0 .. Len(s), NEW delimiter \in BOOLEAN,
         FindFirst(s, from, delimiter) # 0
  PROVE  /\ from # 0 /\ FindFirst(s, from, delimiter) \in from .. Len(s)
         /\ Is(s, FindFirst(s, from, delimiter), delimiter)
         /\ \A q \in from .. (FindFirst(s, from, delimiter) - 1) : ~Is(s, q, delimiter)
<1> DEFINE F == {p \in from .. Len(s) : Is(s, p, delimiter)}
<1>1. from # 0 /\ F # {}
  BY DEF FindFirst, NPos
<1>2. F \in SUBSET Nat
  OBVIOUS
<1>3. PICK p \in F : \A q \in F : p <= q
  <2> HIDE DEF F
  <2> QED BY <1>1, <1>2, LeastNatural
<1>4. \A q \in from .. (p - 1) : ~Is(s, q, delimiter)
  BY <1>3
<1>5. \E p1 \in from .. Len(s) : Is(s, p1, delimiter) /\ \A q \in from .. (p1 - 1) : ~Is(s, q, delimiter)
  BY <1>3, <1>4
<1> QED BY <1>1, <1>5 DEF FindFirst, NPos

LEMMA FindFirstNone ==
  ASSUME NEW s \in Line, NEW from \in 1 .. Len(s), NEW delimiter \in BOOLEAN,
         FindFirst(s, from, delimiter) = 0
  PROVE  \A q \in from .. Len(s) : ~Is(s, q, delimiter)
<1> SUFFICES ASSUME NEW q \in from .. Len(s), Is(s, q, delimiter) PROVE FALSE
  OBVIOUS
<1> DEFINE F == {p \in from .. Len(s) : Is(s, p, delimiter)}
<1>1. F # {} /\ F \in SUBSET Nat
  OBVIOUS
<1>2. PICK p \in F : \A r \in F : p <= r
  <2> HIDE DEF F
  <2> QED BY <1>1, LeastNatural
<1>3. \A r \in from .. (p - 1) : ~Is(s, r, delimiter)
  BY <1>2
<1> DEFINE found == CHOOSE p1 \in from .. Len(s) :
                      Is(s, p1, delimiter) /\ \A r \in from .. (p1 - 1) : ~Is(s, r, delimiter)
<1>4. found \in from .. Len(s)
  BY <1>2, <1>3
<1>5. FindFirst(s, from, delimiter) = found
  BY <1>2 DEF FindFirst, NPos
<1>6. from \in Nat \ {0} /\ found # 0
  <2> HIDE DEF found
  <2> QED BY <1>4
<1> QED BY <1>5, <1>6

\* No call finds anything where there are only delimiters.
LEMMA TokenizeNone ==
  ASSUME NEW s \in Line, NEW index \in 1 .. Len(s), ~Tokenize(s, index).more
  PROVE  \A q \in index .. Len(s) : s[q] \in TokenDelimiters
<1> DEFINE begin == FindFirst(s, index, FALSE)
<1>1. begin = 0
  <2> HIDE DEF begin
  <2> QED BY DEF Tokenize, NPos, begin
<1>2. \A q \in index .. Len(s) : ~Is(s, q, FALSE)
  BY <1>1, FindFirstNone
<1> QED BY <1>2 DEF Is

\* The token of a call begins behind the delimiters from index on, and ends before
\* the next one, or where s ends.
Finds(s, index, call, begin) ==
  /\ begin \in index .. Len(s)
  /\ \A q \in index .. (begin - 1) : s[q] \in TokenDelimiters
  /\ IF call.index = 0
     THEN /\ \A q \in begin .. Len(s) : s[q] \notin TokenDelimiters
          /\ call.token = SubSeq(s, begin, Len(s))
     ELSE /\ call.index \in (begin + 1) .. Len(s) /\ s[call.index] \in TokenDelimiters
          /\ \A q \in begin .. (call.index - 1) : s[q] \notin TokenDelimiters
          /\ call.token = SubSeq(s, begin, call.index - 1)

\* A call of Tokenize finds a text inside s, and goes on behind it or stops.
LEMMA TokenizeFacts ==
  ASSUME NEW s \in Line, NEW index \in 0 .. Len(s), Tokenize(s, index).more
  PROVE  /\ index # 0 /\ CleanToken(Tokenize(s, index).token) \in Words
         /\ Tokenize(s, index).index \in {0} \cup (index + 1) .. Len(s)
         /\ \E begin \in 1 .. Len(s) : Finds(s, index, Tokenize(s, index), begin)
<1> DEFINE begin == FindFirst(s, index, FALSE)
           end == FindFirst(s, begin, TRUE)
           call == Tokenize(s, index)
<1>1. begin # 0
  BY DEF Tokenize, NPos
<1>2. call = [more |-> TRUE, token |-> SubSeq(s, begin, IF end = 0 THEN Len(s) ELSE end - 1), index |-> end]
  BY <1>1 DEF Tokenize, NPos
<1>3. ASSUME NEW from \in 0 .. Len(s), NEW delimiter \in BOOLEAN, FindFirst(s, from, delimiter) # 0
      PROVE  /\ from # 0 /\ FindFirst(s, from, delimiter) \in from .. Len(s)
             /\ Is(s, FindFirst(s, from, delimiter), delimiter)
             /\ \A q \in from .. (FindFirst(s, from, delimiter) - 1) : ~Is(s, q, delimiter)
  BY <1>3, FindFirstFound
<1>10. ASSUME NEW from \in 1 .. Len(s), NEW delimiter \in BOOLEAN, FindFirst(s, from, delimiter) = 0
       PROVE  \A q \in from .. Len(s) : ~Is(s, q, delimiter)
  BY <1>10, FindFirstNone
<1>4. Len(s) \in Nat /\ index \in Nat /\ index <= Len(s)
  <2>1. Len(s) \in Nat
    BY LenProperties DEF Line
  <2> QED BY <2>1
<1>5. index # 0 /\ begin \in index .. Len(s) /\ Is(s, begin, FALSE)
  BY <1>1, <1>3
<1>6. /\ end # 0 => /\ end \in begin .. Len(s) /\ Is(s, end, TRUE)
                   /\ \A q \in begin .. (end - 1) : ~Is(s, q, TRUE)
      /\ end = 0 => \A q \in begin .. Len(s) : ~Is(s, q, TRUE)
  <2>1. begin \in 0 .. Len(s) /\ begin \in 1 .. Len(s)
    <3> HIDE DEF begin
    <3> QED BY <1>4, <1>5
  <2> QED BY <1>3, <1>10, <2>1
<1>7. end # 0 => end # begin
  BY <1>5, <1>6 DEF Is
<1> HIDE DEF begin, end
<1>8. CleanToken(call.token) \in Words
  <2> DEFINE to == IF end = 0 THEN Len(s) ELSE end - 1
  <2>1. to \in Int /\ to <= Len(s) /\ begin \in Int /\ 1 <= begin
    <3>1. begin \in Int /\ 1 <= begin
      BY <1>4, <1>5
    <3>2. end # 0 => end \in Int /\ end <= Len(s)
      BY <1>4, <1>6, <3>1
    <3> QED BY <1>4, <3>1, <3>2
  <2>4. \A k \in begin .. to : ~Is(s, k, TRUE)
    BY <1>6
  <2> HIDE DEF to
  <2>2. \A k \in begin .. to : s[k] \in Undot \ TokenDelimiters
    <3>1. \A k \in begin .. to : s[k] \in Undot
      BY <1>4, <2>1, ElementOfSeq DEF Line
    <3>2. \A k : ~Is(s, k, TRUE) => s[k] \notin TokenDelimiters
      BY Zenon DEF Is
    <3> QED BY <2>4, <3>1, <3>2
  <2>3. SubSeq(s, begin, to) \in Seq(Undot \ TokenDelimiters)
    BY <2>1, <2>2, SubSeqProperties
  <2> HIDE DEF call
  <2>5. call.token = SubSeq(s, begin, to)
    BY <1>2 DEF to
  <2> QED BY <2>3, <2>5 DEF Words
<1>9. end \in {0} \cup (index + 1) .. Len(s)
  <2>1. begin \in Int /\ index <= begin
    BY <1>4, <1>5
  <2>2. end # 0 => end \in Int /\ begin <= end /\ end <= Len(s)
    BY <1>4, <1>6, <2>1
  <2> QED BY <1>4, <1>7, <2>1, <2>2
<1>11. begin \in 1 .. Len(s) /\ Finds(s, index, call, begin)
  <2>1. begin \in 1 .. Len(s) /\ begin \in index .. Len(s)
    BY <1>4, <1>5
  <2>2. \A q \in index .. (begin - 1) : s[q] \in TokenDelimiters
    <3>1. \A q \in index .. (begin - 1) : ~Is(s, q, FALSE)
      BY <1>1, <1>3 DEF begin
    <3> QED BY <3>1 DEF Is
  <2>3. \A q : ~Is(s, q, TRUE) => s[q] \notin TokenDelimiters
    BY DEF Is
  <2>4. call.index = end /\ call.token = SubSeq(s, begin, IF end = 0 THEN Len(s) ELSE end - 1)
    <3> HIDE DEF call
    <3> QED BY <1>2
  <2>5. end # 0 => end \in (begin + 1) .. Len(s)
    BY <1>4, <1>6, <1>7, <2>1
  <2>6. end # 0 => s[end] \in TokenDelimiters
    BY <1>6 DEF Is
  <2> HIDE DEF call
  <2> QED BY <1>6, <2>1, <2>2, <2>3, <2>4, <2>5, <2>6 DEF Finds
<1> QED BY <1>2, <1>5, <1>8, <1>9, <1>11

\* The function of the loop.
Extracts(f, s) ==
  f = [i \in 0 .. Len(s) |->
         IF Tokenize(s, i).more
         THEN <<CleanToken(Tokenize(s, i).token)>> \o f[Tokenize(s, i).index] ELSE <<>>]

\* There is such a function, for every call goes on behind the last one.
LEMMA ExtractTokensFacts ==
  ASSUME NEW s \in Line
  PROVE  \E f : Extracts(f, s) /\ ExtractTokens(s) = IF s = <<>> THEN <<>> ELSE f[1]
<1> DEFINE Body(f, i) == IF Tokenize(s, i).more
                         THEN <<CleanToken(Tokenize(s, i).token)>> \o f[Tokenize(s, i).index]
                         ELSE <<>>
           l == Len(s)
           From == CHOOSE f : f = [i \in 0 .. l |-> Body(f, i)]
           Behind(m) == {0} \cup {i \in 0 .. l : i > l - m}
           Reach == {m \in Nat : \E f : f = [i \in Behind(m) |-> Body(f, i)]}
<1>0. l \in Nat
  BY LenProperties DEF Line
<1>1. ExtractTokens(s) = IF s = <<>> THEN <<>> ELSE From[1]
  BY DEF ExtractTokens
<1>2. ASSUME NEW i \in 0 .. l, Tokenize(s, i).more
      PROVE  i # 0 /\ Tokenize(s, i).index \in {0} \cup (i + 1) .. l
  BY <1>2, TokenizeFacts
<1>3. ~Tokenize(s, 0).more
  BY <1>0, <1>2
<1>4. ASSUME NEW m \in Nat, NEW i \in Behind(m + 1), Tokenize(s, i).more
      PROVE  Tokenize(s, i).index \in Behind(m) /\ Tokenize(s, i).index \in Behind(m + 1)
  <2>1. i \in 0 .. l /\ i # 0 /\ i > l - (m + 1)
    BY <1>0, <1>3, <1>4
  <2>2. Tokenize(s, i).index \in {0} \cup (i + 1) .. l
    BY <1>2, <1>4, <2>1
  <2> QED BY <1>0, <2>1, <2>2
<1>5. 0 \in Reach
  <2> DEFINE f == [i \in Behind(0) |-> <<>>]
  <2>1. Behind(0) = {0}
    BY <1>0
  <2>2. f = [i \in Behind(0) |-> Body(f, i)]
    BY <1>3, <2>1
  <2> HIDE DEF f, Body, Behind
  <2> QED BY <2>2
<1>6. ASSUME NEW m \in Nat, m \in Reach PROVE m + 1 \in Reach
  <2>1. PICK f : f = [i \in Behind(m) |-> Body(f, i)]
    BY <1>6
  <2> DEFINE h == [i \in Behind(m + 1) |-> Body(f, i)]
  <2>2. ASSUME NEW i \in Behind(m + 1) PROVE Body(h, i) = Body(f, i)
    <3>1. CASE ~Tokenize(s, i).more
      BY <3>1
    <3>2. CASE Tokenize(s, i).more
      <4> DEFINE j == Tokenize(s, i).index
      <4>1. j \in Behind(m) /\ j \in Behind(m + 1)
        BY <1>4, <2>2, <3>2
      <4> HIDE DEF Body, Behind, j
      <4>2. h[j] = f[j]
        BY <2>1, <4>1
      <4> HIDE DEF h
      <4> QED BY <3>2, <4>2 DEF Body, j
    <3> QED BY <3>1, <3>2
  <2> HIDE DEF Body, Behind
  <2>3. h = [i \in Behind(m + 1) |-> Body(h, i)]
    BY <2>2
  <2> HIDE DEF h
  <2> QED BY <2>3
<1>7. \A m \in Nat : m \in Reach
  <2> HIDE DEF Reach
  <2> QED BY <1>5, <1>6, SimpleInduction
<1>8. Behind(l) = 0 .. l
  BY <1>0
<1>9. From = [i \in 0 .. l |-> Body(From, i)]
  <2>1. \E f : f = [i \in 0 .. l |-> Body(f, i)]
    <3> HIDE DEF Body, Behind
    <3> QED BY <1>0, <1>7, <1>8
  <2> HIDE DEF Body
  <2> QED BY <2>1
<1>10. Extracts(From, s)
  <2> HIDE DEF From
  <2> QED BY <1>9 DEF Extracts
<1> HIDE DEF From
<1> QED BY <1>1, <1>10

LEMMA ExtractTokensType ==
  ASSUME NEW s \in Line
  PROVE  ExtractTokens(s) \in Seq(Words)
<1> DEFINE l == Len(s)
           Behind(m) == {0} \cup {i \in 0 .. l : i > l - m}
<1>1. PICK From : Extracts(From, s) /\ ExtractTokens(s) = IF s = <<>> THEN <<>> ELSE From[1]
  BY ExtractTokensFacts
<1> DEFINE Typed == {m \in Nat : \A i \in Behind(m) : From[i] \in Seq(Words)}
<1>0. l \in Nat
  BY LenProperties DEF Line
<1>2. ASSUME NEW i \in 0 .. l, Tokenize(s, i).more
      PROVE  /\ i # 0 /\ Tokenize(s, i).index \in {0} \cup (i + 1) .. l
             /\ CleanToken(Tokenize(s, i).token) \in Words
  BY <1>2, TokenizeFacts
<1>3. ~Tokenize(s, 0).more
  BY <1>0, <1>2
<1>4. ASSUME NEW m \in Nat, NEW i \in Behind(m + 1), Tokenize(s, i).more
      PROVE  /\ Tokenize(s, i).index \in Behind(m)
             /\ CleanToken(Tokenize(s, i).token) \in Words
  <2>1. i \in 0 .. l /\ i # 0 /\ i > l - (m + 1)
    BY <1>0, <1>3, <1>4
  <2>2. /\ Tokenize(s, i).index \in {0} \cup (i + 1) .. l
        /\ CleanToken(Tokenize(s, i).token) \in Words
    BY <1>2, <1>4, <2>1
  <2> QED BY <1>0, <2>1, <2>2
<1>8. Behind(l) = 0 .. l
  BY <1>0
<1>9. \A i \in 0 .. l : From[i] = IF Tokenize(s, i).more
                                  THEN <<CleanToken(Tokenize(s, i).token)>> \o From[Tokenize(s, i).index]
                                  ELSE <<>>
  BY <1>1 DEF Extracts
<1>10. <<>> \in Seq(Words)
  OBVIOUS
<1>11. 0 \in Typed
  <2>1. Behind(0) = {0} /\ 0 \in 0 .. l
    BY <1>0
  <2>2. From[0] = <<>>
    BY <1>3, <1>9, <2>1
  <2> QED BY <1>10, <2>1, <2>2
<1>12. ASSUME NEW m \in Nat, m \in Typed PROVE m + 1 \in Typed
  <2> SUFFICES ASSUME NEW i \in Behind(m + 1) PROVE From[i] \in Seq(Words)
    OBVIOUS
  <2>1. i \in 0 .. l
    BY <1>0
  <2>3. CASE ~Tokenize(s, i).more
    BY <1>9, <1>10, <2>1, <2>3
  <2>4. CASE Tokenize(s, i).more
    <3> DEFINE j == Tokenize(s, i).index
               w == CleanToken(Tokenize(s, i).token)
    <3>1. j \in Behind(m) /\ w \in Words
      BY <1>4, <2>4
    <3>2. From[j] \in Seq(Words)
      BY <1>12, <3>1
    <3>3. From[i] = <<w>> \o From[j]
      BY <1>9, <2>1, <2>4
    <3> HIDE DEF j, w
    <3>4. <<w>> \in Seq(Words)
      BY <3>1
    <3> QED BY <3>2, <3>3, <3>4, ConcatProperties
  <2> QED BY <2>3, <2>4
<1>13. \A m \in Nat : m \in Typed
  <2> HIDE DEF Typed
  <2> QED BY <1>11, <1>12, SimpleInduction
<1>14. \A i \in 0 .. l : From[i] \in Seq(Words)
  BY <1>0, <1>8, <1>13
<1>15. s # <<>> => 1 \in 0 .. l
  BY <1>0, EmptySeq DEF Line
<1> HIDE DEF Typed, Behind
<1> QED BY <1>1, <1>10, <1>14, <1>15

LEMMA UndottedType ==
  ASSUME NEW line \in Seq(Characters)
  PROVE  <<Space>> \o Undotted(line) \in Line
<1> DEFINE abbrs == {p \in DOMAIN line : line[p] = Abbr}
           Text(p) == IF p \notin abbrs THEN <<line[p]>>
                      ELSE IF p = Min(abbrs) THEN AbbrLetters ELSE Append(AbbrLetters, Stop)
           texts == [p \in DOMAIN line |-> Text(p)]
<1>1. {Stop, Space} \subseteq Undot /\ AbbrLetters \in Seq(Undot)
  <2>1. {Stop, Space} \subseteq Undot /\ Letters \subseteq Undot /\ AbbrLetters \in Seq(Letters)
    BY TextReaderAssumption DEF Undot, Letters
  <2> QED BY <2>1
<1>2. ASSUME NEW p \in DOMAIN line PROVE Text(p) \in Seq(Undot)
  <2>1. p \notin abbrs => line[p] \in Undot
    BY ElementOfSeq, LenProperties DEF Undot
  <2>2. /\ p \notin abbrs => <<line[p]>> \in Seq(Undot)
        /\ Append(AbbrLetters, Stop) \in Seq(Undot)
    BY <1>1, <2>1, AppendProperties
  <2> QED BY <1>1, <2>2
<1>3. texts \in Seq(Seq(Undot))
  <2>1. DOMAIN line = 1 .. Len(line) /\ Len(line) \in Nat
    BY LenProperties
  <2> HIDE DEF Text
  <2> QED BY <1>2, <2>1
<1>4. FlattenSeq(texts) \in Seq(Undot)
  <2> HIDE DEF texts
  <2> QED BY <1>3, FlattenType
<1>5. Undotted(line) = FlattenSeq(texts)
  BY DEF Undotted
<1>6. <<Space>> \in Seq(Undot)
  BY <1>1
<1> HIDE DEF texts
<1> QED BY <1>4, <1>5, <1>6, ConcatProperties DEF Line

\* What every call starts from and returns.
ReaderType ==
  /\ files \in Texts /\ it \in Nat \ {0}
  /\ leftOver # Null => leftOver \in Line
  /\ stream # Null => stream.lines \in Seq(Seq(Characters))
  /\ returned \in Seq(Seq(Words))

LEMMA ReadType ==
  ASSUME ReaderType, stream # Null, NEW n \in 0 .. Len(stream.lines)
  PROVE  LeftOver \in Line /\ Read(n) \in Line
<1> DEFINE texts == [k \in 1 .. n |-> <<Space>> \o Undotted(stream.lines[k])]
<1>1. LeftOver \in Seq(Undot)
  <2>1. <<>> \in Seq(Undot)
    OBVIOUS
  <2> QED BY <2>1 DEF LeftOver, ReaderType, Line
<1>2. n \in Nat /\ \A k \in 1 .. n : stream.lines[k] \in Seq(Characters)
  <2>1. stream.lines \in Seq(Seq(Characters))
    BY DEF ReaderType
  <2>2. Len(stream.lines) \in Nat
    BY <2>1, LenProperties
  <2> QED BY <2>1, <2>2, ElementOfSeq
<1>3. \A k \in 1 .. n : <<Space>> \o Undotted(stream.lines[k]) \in Seq(Undot)
  BY <1>2, UndottedType DEF Line
<1>4. texts \in Seq(Seq(Undot))
  BY <1>2, <1>3
<1>5. FlattenSeq(texts) \in Seq(Undot)
  <2> HIDE DEF texts
  <2> QED BY <1>4, FlattenType
<1>6. Read(n) = LeftOver \o FlattenSeq(texts)
  BY DEF Read
<1> HIDE DEF texts
<1> QED BY <1>1, <1>5, <1>6, ConcatProperties DEF Line

\* A cut returns the words before its end and leaves the characters behind.
LEMMA CutType ==
  ASSUME ReaderType, NEW s \in Line, Stops(s) # {}, Cut(s)
  PROVE  /\ leftOver' \in Line /\ returned' \in Seq(Seq(Words))
         /\ \E t \in Seq(Words) : returned' = Append(returned, t)
<1> DEFINE first == Min(Stops(s))
           behind == {p \in DOMAIN s : p > first /\ s[p] # Stop}
           end == EndOfPhase(s)
<1>0. Len(s) \in Nat /\ DOMAIN s = 1 .. Len(s)
  BY LenProperties DEF Line
<1>1. ASSUME NEW T \in SUBSET (1 .. Len(s)), T # {} PROVE Min(T) \in 1 .. Len(s)
  <2>1. T \in SUBSET Nat
    BY <1>0
  <2>2. PICK m \in T : \A n \in T : m <= n
    BY <1>1, <2>1, LeastNatural
  <2> QED BY <2>2 DEF Min
<1>2. first \in 1 .. Len(s)
  BY <1>0, <1>1 DEF Stops
<1>3. end = IF behind = {} THEN first ELSE Min(behind) - 1
  BY DEF EndOfPhase
<1>4. end \in 0 .. Len(s)
  <2>1. behind # {} => Min(behind) \in 1 .. Len(s)
    BY <1>0, <1>1
  <2> HIDE DEF behind, first, end
  <2> QED BY <1>0, <1>2, <1>3, <2>1
<1> HIDE DEF end
<1>5. /\ returned' = Append(returned, ExtractTokens(SubSeq(s, 1, end)))
      /\ leftOver' = SubSeq(s, end + 1, Len(s))
  BY DEF Cut, end
<1>6. SubSeq(s, 1, end) \in Line /\ SubSeq(s, end + 1, Len(s)) \in Line
  <2>1. \A k \in 1 .. Len(s) : s[k] \in Undot
    BY ElementOfSeq DEF Line
  <2>2. \A k \in 1 .. end : s[k] \in Undot
    BY <1>0, <1>4, <2>1
  <2>3. \A k \in (end + 1) .. Len(s) : s[k] \in Undot
    BY <1>0, <1>4, <2>1
  <2>4. end \in Int /\ end + 1 \in Int /\ Len(s) \in Int
    BY <1>0, <1>4
  <2>5. SubSeq(s, 1, end) \in Seq(Undot)
    BY <2>2, <2>4, SubSeqProperties
  <2>6. SubSeq(s, end + 1, Len(s)) \in Seq(Undot)
    BY <2>3, <2>4, SubSeqProperties
  <2> QED BY <2>5, <2>6 DEF Line
<1>7. ExtractTokens(SubSeq(s, 1, end)) \in Seq(Words)
  BY <1>6, ExtractTokensType
<1> QED BY <1>5, <1>6, <1>7, AppendProperties DEF ReaderType

LEMMA InitReaderType == Init => ReaderType
<1> SUFFICES ASSUME Init PROVE ReaderType
  OBVIOUS
<1>1. <<>> \in Seq(Seq(Words)) /\ 1 \in Nat \ {0}
  OBVIOUS
<1> QED BY <1>1 DEF Init, ReaderInit, HandleMasterFile, ReaderType

\* A step of the reader adds at most one sentence to those returned.
LEMMA CallReaderType ==
  ASSUME ReaderType, GetNextSentenceTokens
  PROVE  ReaderType' /\ ~finished /\ \/ returned' = returned
                                     \/ \E s \in Seq(Words) : returned' = Append(returned, s)
<1>0. /\ files \in Texts /\ it \in Nat \ {0} /\ returned \in Seq(Seq(Words))
      /\ stream # Null => stream.lines \in Seq(Seq(Characters))
      /\ <<>> \in Seq(Words)
  BY DEF ReaderType
<1>1. ASSUME NEW s \in Line, Stops(s) # {}, Cut(s)
      PROVE  /\ leftOver' \in Line /\ returned' \in Seq(Seq(Words))
             /\ \E t \in Seq(Words) : returned' = Append(returned, t)
  BY <1>1, CutType
<1>2. CASE FromLeftOver
  <2>1. Stops(LeftOver) # {} /\ Cut(leftOver) /\ UNCHANGED <<files, it, stream, finished>> /\ ~finished
    BY <1>2 DEF FromLeftOver
  <2>2. leftOver # Null
    <3>1. Stops(<<>>) = {}
      BY DEF Stops
    <3> QED BY <2>1, <3>1 DEF LeftOver
  <2>3. leftOver \in Line /\ Stops(leftOver) # {}
    BY <2>1, <2>2 DEF LeftOver, ReaderType
  <2> QED BY <1>0, <1>1, <2>1, <2>3 DEF ReaderType
<1>3. CASE ReadOn
  <2>0. ~finished /\ UNCHANGED <<files, it, finished>> /\ stream # Null
    BY <1>3 DEF ReadOn
  <2>1. stream.lines \in Seq(Seq(Characters)) /\ Len(stream.lines) \in Nat /\ DOMAIN stream.lines = 1 .. Len(stream.lines)
    BY <1>0, <2>0, LenProperties
  <2>2. CASE /\ stream' = [lines |-> <<>>, good |-> FALSE]
             /\ leftOver' = Read(Len(stream.lines))
             /\ returned' = Append(returned, <<>>)
    <3>1. leftOver' \in Line
      BY <2>0, <2>1, <2>2, ReadType
    <3>2. returned' \in Seq(Seq(Words))
      BY <1>0, <2>2, AppendProperties
    <3>3. stream'.lines \in Seq(Seq(Characters))
      BY <2>2
    <3> QED BY <1>0, <2>0, <2>2, <3>1, <3>2, <3>3 DEF ReaderType
  <2>3. ASSUME NEW n \in Enough,
               stream' = [lines |-> SubSeq(stream.lines, n + 1, Len(stream.lines)),
                          good  |-> n < Len(stream.lines) \/ files[it].newline],
               Cut(Read(n))
        PROVE  ReaderType' /\ \E s \in Seq(Words) : returned' = Append(returned, s)
    <3>1. n \in 1 .. Len(stream.lines) /\ n \in 0 .. Len(stream.lines) /\ Stops(Read(n)) # {}
      BY <2>1 DEF Enough
    <3>2. Read(n) \in Line
      BY <2>0, <3>1, ReadType
    <3>3. SubSeq(stream.lines, n + 1, Len(stream.lines)) \in Seq(Seq(Characters))
      <4>1. \A k \in (n + 1) .. Len(stream.lines) : stream.lines[k] \in Seq(Characters)
        BY <2>1, <3>1, ElementOfSeq
      <4>2. n + 1 \in Int /\ Len(stream.lines) \in Int
        BY <2>1, <3>1
      <4> QED BY <4>1, <4>2, SubSeqProperties
    <3>4. stream'.lines \in Seq(Seq(Characters))
      BY <2>3, <3>3
    <3> QED BY <1>0, <1>1, <2>0, <2>3, <3>1, <3>2, <3>4 DEF ReaderType
  <2> QED BY <1>3, <2>0, <2>2, <2>3 DEF ReadOn
<1>4. CASE CloseFile
  BY <1>0, <1>4 DEF CloseFile, ReaderType
<1>5. CASE OpenFile
  <2>1. /\ ~finished /\ UNCHANGED <<files, it, leftOver, returned, finished>>
        /\ it <= Len(files)
        /\ stream' = [lines |-> files[it].lines, good |-> files[it].exists]
    BY <1>5 DEF OpenFile
  <2>2. files \in Seq([exists : BOOLEAN, lines : Seq(Seq(Characters)), newline : BOOLEAN])
    BY <1>0, TextReaderAssumption
  <2>3. it \in 1 .. Len(files)
    BY <1>0, <2>1, <2>2, LenProperties
  <2>4. files[it] \in [exists : BOOLEAN, lines : Seq(Seq(Characters)), newline : BOOLEAN]
    BY <2>2, <2>3, ElementOfSeq
  <2>5. stream'.lines \in Seq(Seq(Characters))
    BY <2>1, <2>4
  <2> QED BY <1>0, <2>1, <2>5 DEF ReaderType
<1>6. CASE Finish
  <2>1. /\ ~finished /\ UNCHANGED <<files, it, stream, leftOver>>
        /\ returned' = Append(returned, <<>>)
    BY <1>6 DEF Finish
  <2>2. returned' \in Seq(Seq(Words))
    BY <1>0, <2>1, AppendProperties
  <2> QED BY <1>0, <2>1, <2>2 DEF ReaderType
<1> QED BY <1>2, <1>3, <1>4, <1>5, <1>6 DEF GetNextSentenceTokens

-----------------------------------------------------------------------------
(***************************************************************************)
(* The n-grams are counted as they occur.                                  *)
(***************************************************************************)
\* Where a sentence shows an n-gram.
PlacesOf(s, n, g) == {i \in N!Starts(s, n) : N!Gram(s, n, i) = g}

Places(s, word) == PlacesOf(s, 1, <<word>>)

Shows(s, n, g) == \E i \in N!Starts(s, n) : g = N!Gram(s, n, i)

LEMMA GramLength ==
  ASSUME NEW n \in Nat, NEW g, IsGram(g, n)
  PROVE  Len(g) = n
<1> DEFINE S == {g[i] : i \in 1 .. n}
<1>1. g \in [1 .. n -> S]
  BY DEF IsGram
<1> HIDE DEF S
<1>2. g \in Seq(S) /\ DOMAIN g = 1 .. n
  BY <1>1
<1> QED BY <1>2, LenProperties

LEMMA StartsFacts ==
  ASSUME NEW s \in Seq(Words), NEW n \in Nat \ {0}
  PROVE  /\ IsFiniteSet(N!Starts(s, n))
         /\ \A i \in N!Starts(s, n) : /\ i \in 1 .. (Len(s) - n + 1)
                                      /\ IsGram(N!Gram(s, n, i), n)
                                      /\ \A k \in 1 .. n : N!Gram(s, n, i)[k] = s[i + k - 1]
         /\ \A g : IsFiniteSet(PlacesOf(s, n, g)) /\ Cardinality(PlacesOf(s, n, g)) \in Nat
<1>1. Len(s) \in Nat
  BY LenProperties
<1>2. N!Starts(s, n) \subseteq 1 .. (Len(s) - n + 1)
  BY DEF N!Starts
<1>3. IsFiniteSet(N!Starts(s, n))
  <2>1. IsFiniteSet(1 .. (Len(s) - n + 1))
    BY <1>1, FS_Interval
  <2> QED BY <1>2, <2>1, FS_Subset
<1>4. ASSUME NEW i \in N!Starts(s, n)
      PROVE  /\ IsGram(N!Gram(s, n, i), n)
             /\ \A k \in 1 .. n : N!Gram(s, n, i)[k] = s[i + k - 1]
  <2>1. i \in Int
    BY <1>2
  <2> QED BY <2>1, GramFacts DEF N!Gram
<1>5. \A g : IsFiniteSet(PlacesOf(s, n, g)) /\ Cardinality(PlacesOf(s, n, g)) \in Nat
  BY <1>3, FS_Subset, FS_CardinalityType DEF PlacesOf
<1> QED BY <1>2, <1>3, <1>4, <1>5

LEMMA PlacesFacts ==
  ASSUME NEW s \in Seq(Words), NEW word
  PROVE  /\ Places(s, word) = {i \in N!Starts(s, 1) : N!Key(N!Gram(s, 1, i)) = word}
         /\ \A i \in N!Starts(s, 1) : N!Gram(s, 1, i) = <<N!Key(N!Gram(s, 1, i))>>
<1>1. ASSUME NEW i \in N!Starts(s, 1)
      PROVE  N!Gram(s, 1, i) = <<N!Key(N!Gram(s, 1, i))>>
  <2>1. IsGram(N!Gram(s, 1, i), 1)
    BY StartsFacts
  <2> QED BY <2>1, GramOfOne
<1>2. ASSUME NEW i \in N!Starts(s, 1)
      PROVE  N!Gram(s, 1, i) = <<word>> <=> N!Key(N!Gram(s, 1, i)) = word
  <2> DEFINE key == N!Key(N!Gram(s, 1, i))
  <2>1. N!Gram(s, 1, i) = <<key>>
    BY <1>1
  <2> HIDE DEF key
  <2>2. <<key>> = <<word>> <=> key = word
    OBVIOUS
  <2> QED BY <2>1, <2>2 DEF key
<1> QED BY <1>1, <1>2 DEF Places, PlacesOf

\* The occurrences of an n-gram are the sum of what every sentence shows.
Shown(g) == [k \in DOMAIN returned |-> Cardinality(PlacesOf(returned[k], Len(g), g))]

LEMMA OccurrencesSum ==
  \A g : N!Occurrences(g) = SumFunctionOnSet(Shown(g), 1 .. read)
<1> SUFFICES ASSUME NEW g
             PROVE  N!Occurrences(g) = SumFunctionOnSet(Shown(g), 1 .. read)
  OBVIOUS
<1> DEFINE n == Len(g)
           In(s) == N!Cardinality({i \in N!Starts(s, n) : N!Gram(s, n, i) = g})
<1>1. N!Occurrences(g) = N!SumFunctionOnSet([k \in DOMAIN returned |-> In(returned[k])], 1 .. read)
  BY DEF N!Occurrences
<1>2. [k \in DOMAIN returned |-> In(returned[k])] = Shown(g)
  BY InstanceCardinality DEF Shown, PlacesOf
<1> QED BY <1>1, <1>2, InstanceSum

LEMMA NextOccurrencesSum ==
  \A g : N!Occurrences(g)' = SumFunctionOnSet(Shown(g)', 1 .. read')
<1>1. (\A g : N!Occurrences(g) = SumFunctionOnSet(Shown(g), 1 .. read))'
  BY OccurrencesSum, PTL
<1> QED BY <1>1

\* The n-grams that the sentences show.
LEMMA GramsShown ==
  \A n, g : g \in N!Grams(n) <=> \E k \in 1 .. read : Shows(returned[k], n, g)
BY DEF N!Grams, Shows

LEMMA NextGramsShown ==
  \A n, g : g \in N!Grams(n)' <=> \E k \in 1 .. read' : Shows(returned'[k], n, g)
<1>1. (\A n, g : g \in N!Grams(n) <=> \E k \in 1 .. read : Shows(returned[k], n, g))'
  BY GramsShown, PTL
<1> QED BY <1>1 DEF Shows, N!Starts, N!Gram

\* As long as the sentences read so far stay the same, so do the counts and n-grams.
LEMMA SameText ==
  ASSUME ReaderType, ReaderType', read \in 0 .. Len(returned), Len(returned') >= Len(returned),
         \A k \in 1 .. Len(returned) : returned'[k] = returned[k], read' = read
  PROVE  /\ \A g : N!Occurrences(g)' = N!Occurrences(g)
         /\ \A n : N!Grams(n)' = N!Grams(n)
<1>1. /\ Len(returned) \in Nat /\ Len(returned') \in Nat
      /\ DOMAIN returned = 1 .. Len(returned) /\ DOMAIN returned' = 1 .. Len(returned')
  BY LenProperties DEF ReaderType
<1>2. \A k \in 1 .. read : k \in DOMAIN returned /\ k \in DOMAIN returned' /\ returned'[k] = returned[k]
  BY <1>1
<1>3. ASSUME NEW g PROVE N!Occurrences(g)' = N!Occurrences(g)
  <2> DEFINE f == Shown(g)
             e == Shown(g)'
  <2>1. \A k \in 1 .. read : e[k] = f[k]
    BY <1>2 DEF Shown
  <2>2. IsFiniteSet(1 .. read)
    BY <1>1, FS_Interval
  <2> HIDE DEF e, f
  <2>3. SumFunctionOnSet(e, 1 .. read) = SumFunctionOnSet(f, 1 .. read)
    BY <2>1, <2>2, SumSame
  <2> QED BY <2>3, OccurrencesSum, NextOccurrencesSum DEF e, f
<1>4. ASSUME NEW n PROVE N!Grams(n)' = N!Grams(n)
  <2>1. \A g : g \in N!Grams(n)' <=> g \in N!Grams(n)
    BY <1>2, GramsShown, NextGramsShown
  <2> QED BY <2>1
<1> QED BY <1>3, <1>4

\* How often an n-gram occurs is a number, and what one sentence shows a part of it.
LEMMA OccurrencesType ==
  ASSUME ReaderType, read \in 0 .. Len(returned), NEW g, Len(g) \in Nat \ {0}
  PROVE  /\ N!Occurrences(g) \in Nat
         /\ \A k \in 1 .. read : Shown(g)[k] = Cardinality(PlacesOf(returned[k], Len(g), g))
                                   /\ Shown(g)[k] \in Nat
<1>1. Len(returned) \in Nat /\ DOMAIN returned = 1 .. Len(returned)
  BY LenProperties DEF ReaderType
<1>2. ASSUME NEW k \in 1 .. read
      PROVE  Shown(g)[k] = Cardinality(PlacesOf(returned[k], Len(g), g)) /\ Shown(g)[k] \in Nat
  <2>1. k \in DOMAIN returned
    BY <1>1
  <2>2. returned[k] \in Seq(Words)
    BY <1>1, <2>1, ElementOfSeq DEF ReaderType
  <2> QED BY <2>1, <2>2, StartsFacts DEF Shown
<1>3. IsFiniteSet(1 .. read)
  BY <1>1, FS_Interval
<1>4. SumFunctionOnSet(Shown(g), 1 .. read) \in Nat
  <2> DEFINE f == Shown(g)
  <2>1. \A k \in 1 .. read : f[k] \in Nat
    BY <1>2
  <2> HIDE DEF f
  <2>2. SumFunctionOnSet(f, 1 .. read) \in Nat
    BY <1>3, <2>1, SumFacts
  <2> QED BY <2>2 DEF f
<1> QED BY <1>2, <1>4, OccurrencesSum

\* A sentence adds what it shows.
LEMMA MoreText ==
  ASSUME ReaderType, read \in Nat, read < Len(returned), read' = read + 1, returned' = returned
  PROVE  /\ \A g : Len(g) \in Nat \ {0} =>
              /\ N!Occurrences(g) \in Nat
              /\ N!Occurrences(g)' =
                   N!Occurrences(g) + Cardinality(PlacesOf(returned[read + 1], Len(g), g))
         /\ \A n, g : g \in N!Grams(n)' <=> g \in N!Grams(n) \/ Shows(returned[read + 1], n, g)
<1>1. Len(returned) \in Nat /\ DOMAIN returned = 1 .. Len(returned)
  BY LenProperties DEF ReaderType
<1>2. \A k \in 1 .. (read + 1) : k \in DOMAIN returned /\ returned[k] \in Seq(Words)
  BY <1>1, ElementOfSeq DEF ReaderType
<1>3. ASSUME NEW g, Len(g) \in Nat \ {0}
      PROVE  /\ N!Occurrences(g) \in Nat
             /\ N!Occurrences(g)' =
                  N!Occurrences(g) + Cardinality(PlacesOf(returned[read + 1], Len(g), g))
  <2> DEFINE f == Shown(g)
             all == 1 .. (read + 1)
             old == SumFunctionOnSet(f, 1 .. read)
             new == Cardinality(PlacesOf(returned[read + 1], Len(g), g))
  <2>1. ASSUME NEW k \in all
        PROVE  f[k] = Cardinality(PlacesOf(returned[k], Len(g), g)) /\ f[k] \in Nat
    <3>1. k \in DOMAIN returned /\ returned[k] \in Seq(Words)
      BY <1>2
    <3> QED BY <1>3, <3>1, StartsFacts DEF Shown
  <2>2. IsFiniteSet(all) /\ IsFiniteSet(1 .. read)
    BY FS_Interval
  <2>3. read + 1 \in all /\ all \ {read + 1} = 1 .. read
    OBVIOUS
  <2>4. \A k \in 1 .. read : f[k] \in Nat
    BY <2>1
  <2>8. N!Occurrences(g)' = SumFunctionOnSet(f, all)
    <3>1. Shown(g)' = f
      BY DEF Shown
    <3> QED BY <3>1, NextOccurrencesSum
  <2>7. N!Occurrences(g) = old
    BY OccurrencesSum
  <2>9. f[read + 1] = new /\ f[read + 1] \in Nat
    BY <2>1, <2>3
  <2> HIDE DEF f, all, new
  <2>5. SumFunctionOnSet(f, all) = f[read + 1] + SumFunctionOnSet(f, all \ {read + 1})
    BY <2>1, <2>2, <2>3, SumFacts
  <2>6. old \in Nat
    BY <2>2, <2>4, SumFacts
  <2>10. N!Occurrences(g)' = new + old
    BY <2>3, <2>5, <2>8, <2>9
  <2> HIDE DEF old
  <2>11. new + old = old + new
    BY <2>6, <2>9
  <2> QED BY <2>6, <2>7, <2>10, <2>11 DEF new
<1>4. \A n, g : g \in N!Grams(n)' <=> g \in N!Grams(n) \/ Shows(returned[read + 1], n, g)
  <2>1. 1 .. (read + 1) = (1 .. read) \cup {read + 1}
    OBVIOUS
  <2> QED BY <2>1, GramsShown, NextGramsShown
<1> QED BY <1>3, <1>4

\* What the words of one more sentence make of the map of the words.
LEMMA CountedWords ==
  ASSUME NEW map, NEW s \in Seq(Words)
  PROVE  /\ \A word : word \in DOMAIN N!Counted(map, s, 1) <=>
                        word \in DOMAIN map \/ Shows(s, 1, <<word>>)
         /\ IsFiniteSet(DOMAIN map) => IsFiniteSet(DOMAIN N!Counted(map, s, 1))
         /\ \A word \in DOMAIN N!Counted(map, s, 1) :
              N!Counted(map, s, 1)[word].count =
                (IF word \in DOMAIN map THEN map[word].count ELSE 0) + Cardinality(Places(s, word))
         /\ \A word : ~Shows(s, 1, <<word>>) => Cardinality(Places(s, word)) = 0
<1> DEFINE c == N!Counted(map, s, 1)
           KeyAt(i) == N!Key(N!Gram(s, 1, i))
           new == {KeyAt(i) : i \in N!Starts(s, 1)}
           At(key) == {i \in N!Starts(s, 1) : KeyAt(i) = key}
           Old(key) == key \in DOMAIN map
           Count(key) == (IF Old(key) THEN map[key].count ELSE 0) + N!Cardinality(At(key))
           First(key) == IF Old(key) THEN map[key].gram ELSE N!Gram(s, 1, N!Min(At(key)))
<1>1. c = [key \in DOMAIN map \cup new |-> [gram |-> First(key), count |-> Count(key)]]
  BY DEF N!Counted
<1>2. \A key : At(key) = Places(s, key)
  BY PlacesFacts
<1>3. \A key : Count(key) = (IF key \in DOMAIN map THEN map[key].count ELSE 0) + Cardinality(Places(s, key))
  BY <1>2, InstanceCardinality
<1>4. DOMAIN c = DOMAIN map \cup new /\ \A key \in DOMAIN c : c[key].count = Count(key)
  <2> HIDE DEF c, new, First, Count
  <2> QED BY <1>1
<1>5. ASSUME NEW word PROVE word \in new <=> Shows(s, 1, <<word>>)
  <2>1. \A i \in N!Starts(s, 1) : N!Gram(s, 1, i) = <<KeyAt(i)>>
    BY PlacesFacts
  <2>2. \A x : <<x>> = <<word>> <=> x = word
    OBVIOUS
  <2> HIDE DEF KeyAt
  <2> QED BY <2>1, <2>2 DEF Shows
<1>6. IsFiniteSet(new)
  <2>1. IsFiniteSet(N!Starts(s, 1))
    BY StartsFacts
  <2> DEFINE keyAt == [i \in N!Starts(s, 1) |-> KeyAt(i)]
  <2>2. new = {keyAt[i] : i \in N!Starts(s, 1)}
    OBVIOUS
  <2> HIDE DEF keyAt, new
  <2> QED BY <2>1, <2>2, ImageFacts
<1>7. IsFiniteSet(DOMAIN map) => IsFiniteSet(DOMAIN map \cup new)
  BY <1>6, FS_Union
<1>8. ASSUME NEW word, ~Shows(s, 1, <<word>>) PROVE Cardinality(Places(s, word)) = 0
  <2>1. Places(s, word) = {}
    BY <1>8 DEF Shows, Places, PlacesOf
  <2> QED BY <2>1, FS_EmptySet
<1> HIDE DEF c, new, Count
<1>9. \A word : word \in DOMAIN c <=> word \in DOMAIN map \/ Shows(s, 1, <<word>>)
  BY <1>4, <1>5
<1> QED BY <1>3, <1>4, <1>7, <1>8, <1>9 DEF c

\* A word that is frequent enough for a symbol.
Wanted(word) == <<word>> \in N!Grams(1) /\ N!Occurrences(<<word>>) >= MinSingle

\* The words that are left are the most frequent ones.
Chosen(words) ==
  /\ \A word \in words : Wanted(word)
  /\ \A v : Wanted(v) /\ v \notin words =>
       /\ Cardinality(words) = MaxSingleSymbols
       /\ \A word \in words : N!Occurrences(<<word>>) >= N!Occurrences(<<v>>)

\* The map of the words, in all stages: first it has every word, then the frequent
\* ones, then the most frequent ones.
CountsInv ==
  /\ ReaderType /\ read \in 0 .. Len(returned)
  /\ stage > 0 => finished
  /\ IsFiniteSet(DOMAIN maps[1])
  /\ \A word \in DOMAIN maps[1] : /\ <<word>> \in N!Grams(1)
                                  /\ maps[1][word].count = N!Occurrences(<<word>>)
  /\ stage = 0 => \A word : word \notin DOMAIN maps[1] => N!Occurrences(<<word>>) = 0
  /\ stage <= 1 => \A word : <<word>> \in N!Grams(1) => word \in DOMAIN maps[1]
  /\ stage = 2 => \A word : word \in DOMAIN maps[1] <=> Wanted(word)
  /\ stage >= 3 => Chosen(DOMAIN maps[1])

LEMMA InitCountsInv == Init => CountsInv
<1> SUFFICES ASSUME Init PROVE CountsInv
  OBVIOUS
<1>1. /\ read = 0 /\ stage = 0 /\ returned = <<>>
      /\ maps = [n \in N!Sizes |-> <<>>]
  BY DEF Init, ReaderInit, N!Init
<1>2. 1 .. 0 = {} /\ Len(<<>>) = 0 /\ DOMAIN <<>> = {}
  OBVIOUS
<1>3. DOMAIN maps[1] = {} /\ IsFiniteSet({})
  BY <1>1, <1>2, SizesFacts, FS_EmptySet
<1>4. ASSUME NEW word PROVE N!Occurrences(<<word>>) = 0
  <2> DEFINE f == Shown(<<word>>)
  <2>1. \A x \in {} : f[x] \in Nat
    OBVIOUS
  <2> HIDE DEF f
  <2>2. SumFunctionOnSet(f, {}) = 0
    BY <1>3, <2>1, SumFacts
  <2> QED BY <1>1, <1>2, <2>2, OccurrencesSum DEF f
<1>5. \A g : g \notin N!Grams(1)
  BY <1>1, <1>2, GramsShown
<1>6. read \in 0 .. Len(returned)
  BY <1>1, <1>2
<1> QED BY <1>1, <1>3, <1>4, <1>5, <1>6, InitReaderType DEF CountsInv

\* The stages that leave the words alone, and all other steps that do.
LEMMA KeepsWords ==
  ASSUME CountsInv, UNCHANGED <<readerVars, read>>, stage \in Nat, stage' \in Nat,
         DOMAIN maps'[1] = DOMAIN maps[1],
         \A word \in DOMAIN maps[1] : maps'[1][word].count = maps[1][word].count,
         \/ stage >= 3 /\ stage' >= 3
         \/ stage = stage'
         \/ stage = 0 /\ stage' = 1 /\ finished
  PROVE  CountsInv'
<1>1. ReaderType' /\ returned' = returned /\ read' = read /\ finished' = finished
  BY DEF CountsInv, ReaderType, readerVars
<1>2. ReaderType /\ read \in 0 .. Len(returned) /\ Len(returned) \in Nat
  BY LenProperties DEF CountsInv, ReaderType
<1>3. (\A word : N!Occurrences(<<word>>)' = N!Occurrences(<<word>>)) /\ N!Grams(1)' = N!Grams(1)
  <2>1. Len(returned') >= Len(returned) /\ \A k \in 1 .. Len(returned) : returned'[k] = returned[k]
    BY <1>1, <1>2
  <2> QED BY <1>1, <1>2, <2>1, SameText
<1>4. Chosen(DOMAIN maps[1]) => Chosen(DOMAIN maps[1])'
  BY <1>3 DEF Chosen, Wanted
<1>5. \A word : Wanted(word)' <=> Wanted(word)
  BY <1>3 DEF Wanted
<1>6. stage' >= 3 => Chosen(DOMAIN maps[1])'
  BY <1>4 DEF CountsInv
<1>7. stage' = 2 => \A word : word \in DOMAIN maps[1] <=> Wanted(word)'
  BY <1>5 DEF CountsInv
<1>8. /\ IsFiniteSet(DOMAIN maps[1])
      /\ \A word \in DOMAIN maps[1] : <<word>> \in N!Grams(1)' /\ maps'[1][word].count = N!Occurrences(<<word>>)'
      /\ stage' = 0 => \A word : word \notin DOMAIN maps[1] => N!Occurrences(<<word>>)' = 0
      /\ stage' <= 1 => \A word : <<word>> \in N!Grams(1)' => word \in DOMAIN maps[1]
      /\ stage' > 0 => finished
  BY <1>3 DEF CountsInv
<1>9. DOMAIN maps'[1] = DOMAIN maps[1]
  OBVIOUS
<1>10. stage' >= 3 => Chosen(DOMAIN maps[1])'
  BY <1>6
<1> QED BY <1>1, <1>2, <1>7, <1>8, <1>9, <1>10 DEF CountsInv, Chosen, Wanted

\* Reading on leaves what was counted alone.
LEMMA ReadsOn ==
  ASSUME CountsInv, stage \in 0 .. 8, ReadSentence
  PROVE  CountsInv'
<1>1. ReaderType /\ read \in 0 .. Len(returned)
  BY DEF CountsInv
<1>2. GetNextSentenceTokens /\ read' = read /\ stage' = stage /\ maps' = maps
  BY DEF ReadSentence, handlerVars
<1>3. /\ ReaderType' /\ ~finished
      /\ \/ returned' = returned
         \/ \E s \in Seq(Words) : returned' = Append(returned, s)
  BY <1>1, <1>2, CallReaderType
<1>4. /\ Len(returned) \in Nat /\ Len(returned') \in Nat /\ Len(returned') >= Len(returned)
      /\ \A k \in 1 .. Len(returned) : returned'[k] = returned[k]
  <2>1. returned \in Seq(Seq(Words))
    BY <1>1 DEF ReaderType
  <2>2. Len(returned) \in Nat
    BY <2>1, LenProperties
  <2>3. CASE returned' = returned
    BY <2>2, <2>3
  <2>4. ASSUME NEW s \in Seq(Words), returned' = Append(returned, s)
        PROVE  /\ Len(returned') = Len(returned) + 1
               /\ \A k \in 1 .. Len(returned) : returned'[k] = returned[k]
    BY <2>1, <2>4, AppendProperties
  <2> QED BY <1>3, <2>2, <2>3, <2>4
<1>5. (\A word : N!Occurrences(<<word>>)' = N!Occurrences(<<word>>)) /\ N!Grams(1)' = N!Grams(1)
  BY <1>1, <1>2, <1>3, <1>4, SameText
<1>6. stage = 0
  BY <1>3 DEF CountsInv
<1>7. read' \in 0 .. Len(returned')
  BY <1>1, <1>2, <1>4
<1> QED BY <1>2, <1>3, <1>5, <1>6, <1>7 DEF CountsInv

\* A sentence is counted: a word that is new did not occur before.
LEMMA StoresWords ==
  ASSUME CountsInv, StoreSentence
  PROVE  CountsInv'
<1> DEFINE s == returned[read + 1]
           c == N!Counted(maps[1], s, 1)
<1>1. /\ stage = 0 /\ stage' = 0 /\ read < Len(returned) /\ read' = read + 1
      /\ maps'[1] = c /\ UNCHANGED readerVars
  <2>1. maps' = [n \in N!Sizes |-> N!Counted(maps[n], returned[read + 1], n)]
    BY DEF StoreSentence, N!ExtractAndStoreNGrams
  <2>2. maps'[1] = c
    BY <2>1, SizesFacts
  <2> QED BY <2>2 DEF StoreSentence, N!ExtractAndStoreNGrams
<1>2. ReaderType /\ ReaderType' /\ returned' = returned /\ read \in Nat
  <2>1. ReaderType /\ read \in 0 .. Len(returned)
    BY DEF CountsInv
  <2> QED BY <1>1, <2>1 DEF ReaderType, readerVars
<1>3. Len(returned) \in Nat /\ s \in Seq(Words)
  <2>1. returned \in Seq(Seq(Words))
    BY <1>2 DEF ReaderType
  <2>2. Len(returned) \in Nat
    BY <2>1, LenProperties
  <2>3. read + 1 \in 1 .. Len(returned)
    BY <1>1, <1>2, <2>2
  <2> QED BY <2>1, <2>2, <2>3, ElementOfSeq
<1>4. /\ \A word : /\ N!Occurrences(<<word>>) \in Nat
                   /\ N!Occurrences(<<word>>)' =
                        N!Occurrences(<<word>>) + Cardinality(Places(s, word))
      /\ \A g : g \in N!Grams(1)' <=> g \in N!Grams(1) \/ Shows(s, 1, g)
  <2>1. ASSUME NEW word
        PROVE  /\ N!Occurrences(<<word>>) \in Nat
               /\ N!Occurrences(<<word>>)' =
                    N!Occurrences(<<word>>) + Cardinality(Places(s, word))
    <3>1. ASSUME NEW g, g = <<word>>, Len(g) = 1
          PROVE  /\ N!Occurrences(g) \in Nat
                 /\ N!Occurrences(g)' = N!Occurrences(g) + Cardinality(PlacesOf(s, 1, g))
      <4>1. \A h : Len(h) \in Nat \ {0} =>
              /\ N!Occurrences(h) \in Nat
              /\ N!Occurrences(h)' =
                   N!Occurrences(h) + Cardinality(PlacesOf(returned[read + 1], Len(h), h))
        BY <1>1, <1>2, MoreText
      <4>2. Len(g) \in Nat \ {0}
        BY <3>1
      <4> QED BY <3>1, <4>1, <4>2
    <3>2. Len(<<word>>) = 1
      OBVIOUS
    <3> QED BY <3>1, <3>2 DEF Places
  <2>2. \A g : g \in N!Grams(1)' <=> g \in N!Grams(1) \/ Shows(s, 1, g)
    BY <1>1, <1>2, MoreText
  <2> QED BY <2>1, <2>2
<1> HIDE DEF s, c
<1>5. /\ \A word : word \in DOMAIN c <=> word \in DOMAIN maps[1] \/ Shows(s, 1, <<word>>)
      /\ IsFiniteSet(DOMAIN maps[1]) => IsFiniteSet(DOMAIN c)
      /\ \A word \in DOMAIN c :
           c[word].count = (IF word \in DOMAIN maps[1] THEN maps[1][word].count ELSE 0)
                             + Cardinality(Places(s, word))
      /\ \A word : ~Shows(s, 1, <<word>>) => Cardinality(Places(s, word)) = 0
  BY <1>3, CountedWords DEF c
<1>6. /\ IsFiniteSet(DOMAIN maps[1])
      /\ \A word \in DOMAIN maps[1] : /\ <<word>> \in N!Grams(1)
                                      /\ maps[1][word].count = N!Occurrences(<<word>>)
      /\ \A word : word \notin DOMAIN maps[1] => N!Occurrences(<<word>>) = 0
      /\ \A word : <<word>> \in N!Grams(1) => word \in DOMAIN maps[1]
  BY <1>1 DEF CountsInv
<1>7. ASSUME NEW word \in DOMAIN c
      PROVE  <<word>> \in N!Grams(1)' /\ c[word].count = N!Occurrences(<<word>>)'
  BY <1>4, <1>5, <1>6
<1>8. ASSUME NEW word, word \notin DOMAIN c PROVE N!Occurrences(<<word>>)' = 0
  <2>1. N!Occurrences(<<word>>) = 0 /\ Cardinality(Places(s, word)) = 0
    BY <1>5, <1>6, <1>8
  <2> QED BY <1>4, <2>1
<1>9. \A word : <<word>> \in N!Grams(1)' => word \in DOMAIN c
  BY <1>4, <1>5, <1>6
<1>10. read' \in 0 .. Len(returned')
  BY <1>1, <1>2, <1>3
<1>11. stage' = 0 /\ ~(stage' > 0) /\ stage' # 2 /\ ~(stage' >= 3)
  BY <1>1
<1> QED BY <1>1, <1>2, <1>5, <1>6, <1>7, <1>8, <1>9, <1>10, <1>11 DEF CountsInv

\* Stage I leaves the frequent words, stage II the most frequent of them.
LEMMA LimitsWords ==
  ASSUME GramsInv, CountsInv, N!RareWords \/ N!LimitWords, UNCHANGED readerVars
  PROVE  CountsInv'
<1>0. maps = [n \in N!Sizes |-> maps[n]] /\ 1 \in N!Sizes
  BY SizesFacts DEF GramsInv
<1> DEFINE count == [key \in DOMAIN maps[1] |-> maps[1][key].count]
           Left(keys) == [maps EXCEPT ![1] = N!Only(@, keys)]
<1>1. PICK keys : /\ stage \in {1, 2} /\ stage' = stage + 1 /\ read' = read
                  /\ maps' = Left(keys)
                  /\ stage = 1 => keys = N!Frequent(maps[1], MinSingle)
                  /\ stage = 2 => keys \in N!Limited(count, MaxSingleSymbols)
  <2>1. CASE N!RareWords
    <3>1. /\ stage = 1 /\ stage' = 2 /\ read' = read
          /\ maps' = Left(N!Frequent(maps[1], MinSingle))
      BY <2>1 DEF N!RareWords, N!Step
    <3> HIDE DEF count, Left
    <3> QED BY <3>1
  <2>2. CASE N!LimitWords
    <3>1. stage = 2 /\ stage' = 3 /\ read' = read
      BY <2>2 DEF N!LimitWords, N!Step
    <3>2. \E K \in N!Limited(count, MaxSingleSymbols) : maps' = Left(K)
      BY <2>2, Zenon DEF N!LimitWords
    <3> HIDE DEF count, Left
    <3> QED BY <3>1, <3>2
  <2> QED BY <2>1, <2>2
<1> HIDE DEF count
<1>2. maps'[1] = N!Only(maps[1], keys)
  BY <1>0, <1>1
<1>3. /\ DOMAIN maps'[1] = DOMAIN maps[1] \cap keys
      /\ \A word \in DOMAIN maps'[1] : maps'[1][word] = maps[1][word]
  BY <1>2 DEF N!Only
<1>4. /\ ReaderType /\ read \in 0 .. Len(returned) /\ finished /\ IsFiniteSet(DOMAIN maps[1])
      /\ \A word \in DOMAIN maps[1] : /\ <<word>> \in N!Grams(1)
                                      /\ maps[1][word].count = N!Occurrences(<<word>>)
      /\ stage = 1 => \A word : <<word>> \in N!Grams(1) => word \in DOMAIN maps[1]
      /\ stage = 2 => \A word : word \in DOMAIN maps[1] <=> Wanted(word)
  BY <1>1 DEF CountsInv
<1>5. ReaderType' /\ returned' = returned /\ finished' = finished
  BY <1>4 DEF ReaderType, readerVars
<1>6. (\A word : N!Occurrences(<<word>>)' = N!Occurrences(<<word>>)) /\ N!Grams(1)' = N!Grams(1)
  <2>1. Len(returned') >= Len(returned) /\ \A k \in 1 .. Len(returned) : returned'[k] = returned[k]
    <3>1. Len(returned) \in Nat
      BY <1>4, LenProperties DEF ReaderType
    <3> QED BY <1>5, <3>1
  <2> QED BY <1>1, <1>4, <1>5, <2>1, SameText
<1>7. IsFiniteSet(DOMAIN maps'[1])
  BY <1>3, <1>4, FS_Subset
<1>8. \A word : Wanted(word)' <=> Wanted(word)
  BY <1>6 DEF Wanted
<1>9. ASSUME stage = 1, NEW word PROVE word \in DOMAIN maps'[1] <=> Wanted(word)'
  <2>1. word \in DOMAIN maps'[1] <=> word \in DOMAIN maps[1] /\ maps[1][word].count >= MinSingle
    BY <1>1, <1>3, <1>9 DEF N!Frequent
  <2> QED BY <1>4, <1>8, <1>9, <2>1 DEF Wanted
<1>10. ASSUME stage = 2 PROVE Chosen(DOMAIN maps'[1])
  <2>0. DOMAIN count = DOMAIN maps[1]
    BY DEF count
  <2>1. /\ keys \in SUBSET DOMAIN maps[1]
        /\ N!Cardinality(keys) = N!Min({N!Cardinality(DOMAIN maps[1]), MaxSingleSymbols})
        /\ \A k \in keys, l \in DOMAIN maps[1] \ keys : count[k] >= count[l]
    BY <1>1, <1>10, <2>0 DEF N!Limited
  <2>2. DOMAIN maps'[1] = keys
    BY <1>3, <2>1
  <2>3. ASSUME NEW v, Wanted(v), v \notin keys
        PROVE  /\ Cardinality(keys) = MaxSingleSymbols
               /\ \A word \in keys : N!Occurrences(<<word>>) >= N!Occurrences(<<v>>)
    <3>1. v \in DOMAIN maps[1] \ keys
      BY <1>4, <1>10, <2>3
    <3>2. \A word \in keys : N!Occurrences(<<word>>) >= N!Occurrences(<<v>>)
      BY <1>4, <2>1, <3>1 DEF count
    <3> DEFINE all == Cardinality(DOMAIN maps[1])
    <3>3. Cardinality(keys) <= all /\ Cardinality(keys) # all /\ all \in Nat
      BY <1>4, <2>1, <3>1, FS_Subset, FS_CardinalityType
    <3>4. Cardinality(keys) = Min({all, MaxSingleSymbols})
      BY <2>1, InstanceCardinality, InstanceMin
    <3> HIDE DEF all
    <3>5. MaxSingleSymbols \in Nat
      BY SymbolsAssumption
    <3>6. Min({all, MaxSingleSymbols}) \in {all, MaxSingleSymbols}
      BY <3>3, <3>5 DEF Min
    <3> QED BY <3>2, <3>3, <3>4, <3>6
  <2>4. \A word \in keys : Wanted(word)
    BY <1>4, <1>10, <2>1
  <2> QED BY <2>2, <2>3, <2>4 DEF Chosen
<1>11. stage = 2 => Chosen(DOMAIN maps[1])'
  BY <1>6, <1>8, <1>10 DEF Chosen
<1>12. /\ stage' > 0 /\ stage' # 0 /\ ~(stage' <= 1)
       /\ (stage' = 2 => stage = 1) /\ (stage' >= 3 => stage = 2)
  BY <1>1
<1>13. \A word \in DOMAIN maps'[1] : /\ <<word>> \in N!Grams(1)'
                                     /\ maps'[1][word].count = N!Occurrences(<<word>>)'
  BY <1>3, <1>4, <1>6
<1>14. read' \in 0 .. Len(returned')
  BY <1>1, <1>4, <1>5
<1> QED BY <1>4, <1>5, <1>7, <1>9, <1>11, <1>12, <1>13, <1>14 DEF CountsInv

LEMMA NextCountsInv == GramsInv /\ CountsInv /\ [Next]_vars => CountsInv'
<1> SUFFICES ASSUME GramsInv, CountsInv, [Next]_vars PROVE CountsInv'
  OBVIOUS
<1> USE SizesFacts
<1>0. stage \in 0 .. 8 /\ maps = [n \in N!Sizes |-> maps[n]]
  BY DEF GramsInv
<1>1. ASSUME UNCHANGED <<readerVars, handlerVars>> PROVE CountsInv'
  <2>1. UNCHANGED <<readerVars, read>> /\ stage' = stage /\ maps' = maps
    BY <1>1 DEF handlerVars
  <2> QED BY <1>0, <2>1, KeepsWords
<1>2. CASE ReadSentence
  BY <1>0, <1>2, ReadsOn
<1>3. CASE StoreSentence
  BY <1>3, StoresWords
<1>4. CASE UNCHANGED vars \/ AddToMapping
  BY <1>1, <1>4 DEF vars, AddToMapping
<1>5. ASSUME NEW symbols, NEW n, ProduceMapping(symbols, n) PROVE CountsInv'
  BY <1>1, <1>5 DEF ProduceMapping
<1>6. CASE Cleanup
  <2>0. UNCHANGED readerVars
    BY <1>6 DEF Cleanup
  <2>1. CASE N!RareWords \/ N!LimitWords
    BY <2>0, <2>1, LimitsWords
  <2>2. CASE finished /\ N!FinishReading
    <3>1. stage = 0 /\ stage' = 1 /\ finished /\ maps' = maps /\ UNCHANGED <<readerVars, read>>
      BY <2>0, <2>2 DEF N!FinishReading
    <3> QED BY <3>1, KeepsWords
  <2>3. ASSUME stage >= 3, stage' = stage + 1, UNCHANGED read,
               \/ maps'[1] = maps[1]
               \/ maps'[1] = N!Only(maps[1], DOMAIN maps[1])
        PROVE  CountsInv'
    <3>1. /\ DOMAIN maps'[1] = DOMAIN maps[1]
          /\ \A word \in DOMAIN maps[1] : maps'[1][word].count = maps[1][word].count
      BY <2>3 DEF N!Only
    <3> QED BY <1>0, <2>0, <2>3, <3>1, KeepsWords
  <2>4. CASE N!RarePhrases
    <3>1. stage = 3 /\ stage' = 4 /\ UNCHANGED read /\ maps'[1] = maps[1]
      BY <2>4 DEF N!RarePhrases, N!Step
    <3> QED BY <2>3, <3>1
  <2>5. CASE N!PhrasesOfRareWords
    <3>1. stage = 4 /\ stage' = 5 /\ UNCHANGED read /\ maps'[1] = maps[1]
      BY <2>5 DEF N!PhrasesOfRareWords, N!Step
    <3> QED BY <2>3, <3>1
  <2>6. CASE N!PhrasesOfRarePrefixes
    <3>1. stage = 5 /\ stage' = 6 /\ UNCHANGED read /\ maps' = N!Prefixed
      BY <2>6 DEF N!PhrasesOfRarePrefixes, N!Step
    <3> QED BY <2>3, <3>1, PrefixedFacts
  <2>7. CASE N!FavorLargerPhrases
    <3>1. stage = 6 /\ stage' = 7 /\ UNCHANGED read /\ maps'[1] = maps[1]
      BY <2>7 DEF N!FavorLargerPhrases, N!Step
    <3> QED BY <2>3, <3>1
  <2>8. CASE N!LimitPhrases
    <3> DEFINE Left(K) == [n \in N!Sizes |->
                             IF n = 1 THEN maps[1]
                             ELSE N!Only(maps[n], {nk[2] : nk \in {e \in K : e[1] = n}})]
    <3>1. stage = 7 /\ stage' = 8 /\ UNCHANGED read
      BY <2>8 DEF N!LimitPhrases, N!Step
    <3>2. \E K : maps' = Left(K)
      BY <2>8, Zenon DEF N!LimitPhrases
    <3>3. maps'[1] = maps[1]
      BY <3>2
    <3> QED BY <2>3, <3>1, <3>3
  <2> QED BY <1>6, <2>1, <2>2, <2>4, <2>5, <2>6, <2>7, <2>8 DEF Cleanup, N!CleanupNGrams
<1>7. CASE ProduceMapping(N!GetSingleWordSymbols, 0) \/ ProduceMapping(N!GetMultiWordSymbols, 1)
  BY <1>5, <1>7
<1> QED BY <1>2, <1>3, <1>4, <1>6, <1>7 DEF Next

\* Whatever the texts and limits, the word symbols are the words that the sentences
\* show often enough, and if there are more than indices, ones that no other is more
\* frequent than: every word is counted once for each place, also when it comes up
\* again in a later sentence, and the stages for the phrases touch no word
\* (ExtractAndStoreNGrams, CleanupNGrams).
THEOREM WordsAreMostFrequent == Spec => []MostFrequentWords
<1>1. ASSUME GramsInv, CountsInv, stage = 8 PROVE N!MostFrequentWords
  <2> DEFINE words == DOMAIN maps[1]
             frequent == {w \in N!Grams(1) : N!Occurrences(w) >= MinSingle}
  <2>1. Entries(maps[1], 1) /\ Chosen(words) /\ IsFiniteSet(words) /\ ReaderType
    BY <1>1, SizesFacts DEF GramsInv, CountsInv
  <2>2. N!WordSymbols = {<<word>> : word \in words}
    BY <2>1 DEF N!WordSymbols, N!Left, Entries
  <2>3. Cardinality({<<word>> : word \in words}) = Cardinality(words)
    <3> DEFINE f == [word \in words |-> <<word>>]
    <3>1. {<<word>> : word \in words} = {f[word] : word \in words}
      OBVIOUS
    <3>2. \A x, y \in words : f[x] = f[y] => x = y
      OBVIOUS
    <3> HIDE DEF f, words
    <3> QED BY <2>1, <3>1, <3>2, ImageFacts
  <2>4. ASSUME NEW g \in N!Grams(1) PROVE \E word : g = <<word>>
    <3>1. PICK k \in 1 .. read : Shows(returned[k], 1, g)
      BY GramsShown
    <3>2. returned[k] \in Seq(Words)
      <4>1. returned \in Seq(Seq(Words)) /\ read \in 0 .. Len(returned)
        BY <1>1 DEF CountsInv, ReaderType
      <4>2. Len(returned) \in Nat
        BY <4>1, LenProperties
      <4>3. k \in 1 .. Len(returned)
        BY <4>1, <4>2
      <4> QED BY <4>1, <4>3, ElementOfSeq
    <3>3. \A i \in N!Starts(returned[k], 1) :
            N!Gram(returned[k], 1, i) = <<N!Key(N!Gram(returned[k], 1, i))>>
      BY <3>2, PlacesFacts
    <3> QED BY <3>1, <3>3 DEF Shows
  <2> HIDE DEF words
  <2>5. N!WordSymbols \subseteq frequent
    BY <2>1, <2>2 DEF Chosen, Wanted
  <2>6. ASSUME NEW v \in frequent \ N!WordSymbols
        PROVE  /\ N!Cardinality(N!WordSymbols) = MaxSingleSymbols
               /\ \A w \in N!WordSymbols : N!Occurrences(w) >= N!Occurrences(v)
    <3>1. PICK word : v = <<word>>
      BY <2>4
    <3>2. Wanted(word) /\ word \notin words
      BY <2>2, <3>1 DEF Wanted
    <3>3. /\ Cardinality(words) = MaxSingleSymbols
          /\ \A w \in words : N!Occurrences(<<w>>) >= N!Occurrences(<<word>>)
      BY <2>1, <3>2 DEF Chosen
    <3> QED BY <2>2, <2>3, <3>1, <3>3, InstanceCardinality
  <2> QED BY <2>5, <2>6 DEF N!MostFrequentWords
<1>2. GramsInv /\ CountsInv => MostFrequentWords
  BY <1>1 DEF MostFrequentWords, N!MostFrequentWords, N!Cleaned
<1> QED BY <1>2, InitGramsInv, NextGramsInv, InitCountsInv, NextCountsInv, PTL DEF Spec

-----------------------------------------------------------------------------
(***************************************************************************)
(* The n-grams of two words and more, as long as no two share an entry.    *)
(***************************************************************************)
LEMMA SameGram ==
  ASSUME NEW n \in Nat, NEW g, IsGram(g, n), NEW h, IsGram(h, n), \A i \in 1 .. n : g[i] = h[i]
  PROVE  g = h
BY DEF IsGram

LEMMA BeginningFacts ==
  ASSUME NEW n \in Nat \ {0}, NEW g
  PROVE  /\ IsGram(N!Beginning(g, n), n)
         /\ \A k \in 1 .. n : N!Beginning(g, n)[k] = g[k]
<1>1. 1 \in Int /\ 1 + n - 1 = n /\ \A k \in 1 .. n : 1 + k - 1 = k
  OBVIOUS
<1>2. /\ IsGram(SubSeq(g, 1, 1 + n - 1), n)
      /\ \A k \in 1 .. n : SubSeq(g, 1, 1 + n - 1)[k] = g[1 + k - 1]
  BY <1>1, GramFacts
<1> QED BY <1>1, <1>2 DEF N!Beginning

\* What the text shows are n-grams of their size.
LEMMA GramsType ==
  ASSUME ReaderType, read \in 0 .. Len(returned), NEW n \in Nat \ {0}
  PROVE  \A g \in N!Grams(n) : IsGram(g, n) /\ Len(g) = n /\ N!Occurrences(g) \in Nat
<1> SUFFICES ASSUME NEW g \in N!Grams(n) PROVE IsGram(g, n) /\ Len(g) = n /\ N!Occurrences(g) \in Nat
  OBVIOUS
<1>1. PICK k \in 1 .. read : Shows(returned[k], n, g)
  BY GramsShown
<1>2. returned[k] \in Seq(Words)
  <2>1. Len(returned) \in Nat /\ returned \in Seq(Seq(Words))
    BY LenProperties DEF ReaderType
  <2>2. k \in 1 .. Len(returned)
    BY <2>1
  <2> QED BY <2>1, <2>2, ElementOfSeq
<1>3. IsGram(g, n)
  BY <1>1, <1>2, StartsFacts DEF Shows
<1>4. Len(g) = n
  BY <1>3, GramLength
<1> QED BY <1>3, <1>4, OccurrencesType

\* A sentence that shows an n-gram shows each of its words, and its beginnings.
LEMMA PartPlaces ==
  ASSUME NEW s \in Seq(Words), NEW n \in Nat \ {0}, NEW g,
         NEW m \in 1 .. n, NEW d \in 0 .. (n - m), NEW h, IsGram(h, m),
         \A k \in 1 .. m : h[k] = g[d + k],
         d = 0 \/ (m = 1 /\ h[1] # N!Hole)
  PROVE  /\ \A j \in PlacesOf(s, n, g) : j + d \in PlacesOf(s, m, h)
         /\ Cardinality(PlacesOf(s, n, g)) <= Cardinality(PlacesOf(s, m, h))
<1>0. Len(s) \in Nat /\ m \in Nat \ {0} /\ d \in Nat /\ d + m <= n
  BY LenProperties
<1>1. ASSUME NEW j \in PlacesOf(s, n, g) PROVE j + d \in PlacesOf(s, m, h)
  <2>1. /\ j \in N!Starts(s, n) /\ N!Gram(s, n, j) = g
        /\ j \in 1 .. (Len(s) - n + 1)
        /\ \A k \in 1 .. n : N!Gram(s, n, j)[k] = s[j + k - 1]
    BY StartsFacts DEF PlacesOf
  <2>2. j + d \in 1 .. (Len(s) - m + 1) /\ j + d \in Int
    BY <1>0, <2>1
  <2>3. ASSUME NEW k \in 1 .. m PROVE s[j + d + k - 1] = h[k]
    <3>1. j \in Int /\ k \in Int /\ d \in Int /\ 1 <= k /\ k <= m /\ 0 <= d /\ d + m <= n
      BY <1>0, <2>1
    <3>2. d + k \in 1 .. n /\ j + (d + k) - 1 = j + d + k - 1
      BY <1>0, <3>1
    <3>3. g[d + k] = s[j + (d + k) - 1]
      BY <2>1, <3>2
    <3> QED BY <3>2, <3>3
  <2>4. s[j + d] # N!Hole
    <3>1. CASE d = 0
      BY <2>1, <3>1 DEF N!Starts
    <3>2. CASE d # 0
      <4>1. 1 \in 1 .. m /\ j + d + 1 - 1 = j + d
        BY <1>0, <2>2
      <4> QED BY <2>3, <3>2, <4>1
    <3> QED BY <3>1, <3>2
  <2>5. m = 1 \/ Len(s) >= MaxMultiWords
    BY <1>0, <2>1 DEF N!Starts
  <2>6. j + d \in N!Starts(s, m)
    BY <2>2, <2>4, <2>5 DEF N!Starts
  <2>7. /\ IsGram(N!Gram(s, m, j + d), m)
        /\ \A k \in 1 .. m : N!Gram(s, m, j + d)[k] = s[j + d + k - 1]
    BY <1>0, <2>6, StartsFacts
  <2>8. N!Gram(s, m, j + d) = h
    <3>1. \A k \in 1 .. m : N!Gram(s, m, j + d)[k] = h[k]
      BY <2>3, <2>7 DEF IsGram
    <3> HIDE DEF N!Gram, N!Starts
    <3> QED BY <2>7, <3>1, SameGram
  <2> QED BY <2>6, <2>8 DEF PlacesOf
<1> DEFINE P == PlacesOf(s, n, g)
           f == [j \in P |-> j + d]
           image == {f[j] : j \in P}
<1>2. \A j \in P : j \in Int
  BY StartsFacts DEF PlacesOf
<1>3. IsFiniteSet(P) /\ IsFiniteSet(PlacesOf(s, m, h))
  BY <1>0, StartsFacts
<1>4. image \subseteq PlacesOf(s, m, h)
  BY <1>1
<1> HIDE DEF P
<1>5. \A x, y \in P : f[x] = f[y] => x = y
  BY <1>0, <1>2
<1>6. Cardinality(image) = Cardinality(P)
  <2> HIDE DEF f
  <2> QED BY <1>3, <1>5, ImageFacts
<1> HIDE DEF image
<1>7. Cardinality(P) <= Cardinality(PlacesOf(s, m, h))
  BY <1>3, <1>4, <1>6, FS_Subset
<1> QED BY <1>1, <1>7 DEF P

LEMMA PartOccurs ==
  ASSUME ReaderType, read \in 0 .. Len(returned), NEW n \in Nat \ {0}, NEW g \in N!Grams(n),
         NEW m \in 1 .. n, NEW d \in 0 .. (n - m), NEW h, IsGram(h, m),
         \A k \in 1 .. m : h[k] = g[d + k],
         d = 0 \/ (m = 1 /\ h[1] # N!Hole)
  PROVE  h \in N!Grams(m) /\ N!Occurrences(h) >= N!Occurrences(g)
<1>0. /\ Len(returned) \in Nat /\ m \in Nat \ {0}
      /\ \A k \in 1 .. read : returned[k] \in Seq(Words)
  <2>1. Len(returned) \in Nat /\ returned \in Seq(Seq(Words))
    BY LenProperties DEF ReaderType
  <2> QED BY <2>1, ElementOfSeq
<1>1. ASSUME NEW k \in 1 .. read
      PROVE  /\ \A j \in PlacesOf(returned[k], n, g) : j + d \in PlacesOf(returned[k], m, h)
             /\ Cardinality(PlacesOf(returned[k], n, g)) <= Cardinality(PlacesOf(returned[k], m, h))
  <2> DEFINE s == returned[k]
  <2>1. s \in Seq(Words)
    BY <1>0
  <2> HIDE DEF s
  <2>2. /\ \A j \in PlacesOf(s, n, g) : j + d \in PlacesOf(s, m, h)
        /\ Cardinality(PlacesOf(s, n, g)) <= Cardinality(PlacesOf(s, m, h))
    BY <2>1, PartPlaces
  <2> QED BY <2>2 DEF s
<1>2. h \in N!Grams(m)
  <2>1. PICK k \in 1 .. read : Shows(returned[k], n, g)
    BY GramsShown
  <2>2. PICK j \in N!Starts(returned[k], n) : g = N!Gram(returned[k], n, j)
    BY <2>1 DEF Shows
  <2>3. j + d \in PlacesOf(returned[k], m, h)
    BY <1>1, <2>2 DEF PlacesOf
  <2>4. Shows(returned[k], m, h)
    BY <2>3 DEF Shows, PlacesOf
  <2> QED BY <2>4, GramsShown
<1>3. Len(g) = n /\ Len(h) = m
  BY <1>0, GramsType, GramLength
<1> DEFINE a == Shown(g)
           b == Shown(h)
<1>4. ASSUME NEW k \in 1 .. read PROVE a[k] \in Nat /\ b[k] \in Nat /\ a[k] <= b[k]
  <2>1. a[k] = Cardinality(PlacesOf(returned[k], n, g)) /\ a[k] \in Nat
    BY <1>3, OccurrencesType
  <2>2. b[k] = Cardinality(PlacesOf(returned[k], m, h)) /\ b[k] \in Nat
    BY <1>0, <1>3, OccurrencesType
  <2> QED BY <1>1, <2>1, <2>2
<1>5. IsFiniteSet(1 .. read)
  <2>1. 1 \in Int /\ read \in Int
    BY <1>0
  <2> QED BY <2>1, FS_Interval
<1>6. SumFunctionOnSet(a, 1 .. read) <= SumFunctionOnSet(b, 1 .. read)
  <2> HIDE DEF a, b
  <2> QED BY <1>4, <1>5, SumMonotonic
<1>7. N!Occurrences(g) \in Nat /\ N!Occurrences(h) \in Nat
  BY <1>0, <1>3, OccurrencesType
<1> QED BY <1>2, <1>6, <1>7, OccurrencesSum

LEMMA NotShown ==
  ASSUME ReaderType, read \in 0 .. Len(returned), NEW n \in Nat \ {0}, NEW g, IsGram(g, n),
         g \notin N!Grams(n)
  PROVE  N!Occurrences(g) = 0
<1>1. Len(g) = n
  BY GramLength
<1>2. ASSUME NEW k \in 1 .. read PROVE Shown(g)[k] = 0
  <2>1. Shown(g)[k] = Cardinality(PlacesOf(returned[k], n, g))
    BY <1>1, OccurrencesType
  <2>2. PlacesOf(returned[k], n, g) = {}
    BY GramsShown DEF Shows, PlacesOf
  <2> QED BY <2>1, <2>2, FS_EmptySet
<1>3. IsFiniteSet(1 .. read)
  <2>1. Len(returned) \in Nat
    BY LenProperties DEF ReaderType
  <2> QED BY <2>1, FS_Interval
<1> DEFINE f == Shown(g)
<1>4. SumFunctionOnSet(f, 1 .. read) = 0
  <2> HIDE DEF f
  <2>1. \A k \in 1 .. read : f[k] = 0
    BY <1>2 DEF f
  <2> QED BY <1>3, <2>1, SumZero
<1> QED BY <1>4, OccurrencesSum

\* What the n-grams of one more sentence make of a map whose keys are those of its
\* n-grams, if no two of them share one.
KeysApart(map, s, n, G) ==
  /\ \A g, h \in G : N!Key(g) = N!Key(h) => g = h
  /\ \A i \in N!Starts(s, n) : N!Gram(s, n, i) \in G
  /\ \A key \in DOMAIN map : map[key].gram \in G /\ N!Key(map[key].gram) = key

CountsMore(c, map, s, n) ==
  /\ IsFiniteSet(DOMAIN map) => IsFiniteSet(DOMAIN c)
  /\ \A key \in DOMAIN c :
       /\ N!Key(c[key].gram) = key
       /\ IF key \in DOMAIN map THEN c[key].gram = map[key].gram ELSE Shows(s, n, c[key].gram)
       /\ c[key].count = (IF key \in DOMAIN map THEN map[key].count ELSE 0)
                           + Cardinality(PlacesOf(s, n, c[key].gram))
  /\ \A key \in DOMAIN map : key \in DOMAIN c
  /\ \A g : Shows(s, n, g) => N!Key(g) \in DOMAIN c

LEMMA CountedGrams ==
  \A map, s, n, G : s \in Seq(Words) /\ n \in Nat \ {0} /\ KeysApart(map, s, n, G) =>
    CountsMore(N!Counted(map, s, n), map, s, n)
<1> SUFFICES ASSUME NEW map, NEW s, s \in Seq(Words), NEW n, n \in Nat \ {0}, NEW G,
                    KeysApart(map, s, n, G)
             PROVE  CountsMore(N!Counted(map, s, n), map, s, n)
  OBVIOUS
<1> DEFINE c == N!Counted(map, s, n)
           KeyAt(i) == N!Key(N!Gram(s, n, i))
           new == {KeyAt(i) : i \in N!Starts(s, n)}
           At(key) == {i \in N!Starts(s, n) : KeyAt(i) = key}
           Old(key) == key \in DOMAIN map
           Count(key) == (IF Old(key) THEN map[key].count ELSE 0) + N!Cardinality(At(key))
           First(key) == IF Old(key) THEN map[key].gram ELSE N!Gram(s, n, N!Min(At(key)))
<1>1. c = [key \in DOMAIN map \cup new |-> [gram |-> First(key), count |-> Count(key)]]
  BY DEF N!Counted
<1>2. /\ DOMAIN c = DOMAIN map \cup new
      /\ \A key \in DOMAIN c : c[key].gram = First(key) /\ c[key].count = Count(key)
  <2> HIDE DEF c, new, First, Count
  <2> QED BY <1>1
<1>3. IsFiniteSet(new)
  <2>1. IsFiniteSet(N!Starts(s, n))
    BY StartsFacts
  <2> DEFINE keyAt == [i \in N!Starts(s, n) |-> KeyAt(i)]
  <2>2. new = {keyAt[i] : i \in N!Starts(s, n)}
    OBVIOUS
  <2> HIDE DEF keyAt, new
  <2> QED BY <2>1, <2>2, ImageFacts
<1>4. ASSUME NEW key \in new
      PROVE  N!Min(At(key)) \in At(key)
  <2>1. At(key) # {} /\ At(key) \in SUBSET Nat
    BY StartsFacts
  <2> HIDE DEF At
  <2>2. PICK i \in At(key) : \A j \in At(key) : i <= j
    BY <2>1, LeastNatural
  <2> QED BY <2>2, InstanceMin DEF Min
<1>5. ASSUME NEW key \in DOMAIN c
      PROVE  /\ N!Key(First(key)) = key /\ First(key) \in G
             /\ ~Old(key) => Shows(s, n, First(key))
  <2>1. CASE Old(key)
    BY <2>1 DEF KeysApart
  <2>2. CASE ~Old(key)
    <3>1. N!Min(At(key)) \in At(key)
      BY <1>2, <1>4, <2>2
    <3> DEFINE i == N!Min(At(key))
    <3> HIDE DEF i
    <3>2. i \in N!Starts(s, n) /\ KeyAt(i) = key
      BY <3>1 DEF i
    <3>3. First(key) = N!Gram(s, n, i)
      BY <2>2 DEF i
    <3> HIDE DEF First
    <3> QED BY <3>2, <3>3 DEF Shows, KeysApart
  <2> QED BY <2>1, <2>2
<1>6. ASSUME NEW key \in DOMAIN c
      PROVE  Count(key) = (IF key \in DOMAIN map THEN map[key].count ELSE 0)
                            + Cardinality(PlacesOf(s, n, First(key)))
  <2>1. At(key) = PlacesOf(s, n, First(key))
    <3> HIDE DEF First
    <3> QED BY <1>5 DEF PlacesOf, KeysApart
  <2> QED BY <2>1, InstanceCardinality
<1>7. ASSUME NEW g, Shows(s, n, g) PROVE N!Key(g) \in DOMAIN c
  BY <1>2, <1>7 DEF Shows
<1>8. IsFiniteSet(DOMAIN map) => IsFiniteSet(DOMAIN map \cup new)
  BY <1>3, FS_Union
<1> HIDE DEF c, new, First, Count
<1>9. \A key \in DOMAIN c :
        /\ N!Key(c[key].gram) = key
        /\ IF key \in DOMAIN map THEN c[key].gram = map[key].gram ELSE Shows(s, n, c[key].gram)
        /\ c[key].count = (IF key \in DOMAIN map THEN map[key].count ELSE 0)
                            + Cardinality(PlacesOf(s, n, c[key].gram))
  <2> SUFFICES ASSUME NEW key \in DOMAIN c
               PROVE  /\ N!Key(c[key].gram) = key
                      /\ IF key \in DOMAIN map THEN c[key].gram = map[key].gram
                         ELSE Shows(s, n, c[key].gram)
                      /\ c[key].count = (IF key \in DOMAIN map THEN map[key].count ELSE 0)
                                          + Cardinality(PlacesOf(s, n, c[key].gram))
    OBVIOUS
  <2>1. key \in DOMAIN map => First(key) = map[key].gram
    BY DEF First
  <2> QED BY <1>2, <1>5, <1>6, <2>1
<1>10. CountsMore(c, map, s, n)
  BY <1>2, <1>7, <1>8, <1>9 DEF CountsMore
<1> QED BY <1>10 DEF c

\* An n-gram that is frequent enough, of words that are left.
FrequentGram(n, g) ==
  /\ g \in N!Grams(n) /\ N!Occurrences(g) >= MinMulti
  /\ \A i \in 1 .. n : g[i] \in DOMAIN maps[1]

HasEntry(n, g) == N!Key(g) \in DOMAIN maps[n]

\* The entries are those of n-grams of the text, with their counts until stage VI.
Counts(n) ==
  /\ IsFiniteSet(DOMAIN maps[n])
  /\ \A key \in DOMAIN maps[n] :
       /\ maps[n][key].gram \in N!Grams(n) /\ N!Key(maps[n][key].gram) = key
       /\ stage <= 6 => maps[n][key].count = N!Occurrences(maps[n][key].gram)

\* First every n-gram has an entry, after stage III the frequent ones, after stage
\* IV those of words that are left; stages V and VI leave and make no others.
Complete(n) ==
  /\ stage <= 3 => \A g \in N!Grams(n) : HasEntry(n, g)
  /\ stage = 4 => \A g \in N!Grams(n) : HasEntry(n, g) <=> N!Occurrences(g) >= MinMulti
  /\ stage \in 5 .. 7 => \A g \in N!Grams(n) : HasEntry(n, g) <=> FrequentGram(n, g)
  /\ stage = 8 => \A g \in N!Grams(n) : HasEntry(n, g) => FrequentGram(n, g)

\* Stage VII removes none before there are as many as indices.
AsManyAsIndices ==
  (\E n \in 2 .. MaxMultiWords : \E g : FrequentGram(n, g) /\ ~HasEntry(n, g)) =>
    Cardinality(N!PhraseSymbols) = MaxMultiSymbols

PhrasesInv ==
  N!Apart => /\ \A n \in 2 .. MaxMultiWords : Counts(n) /\ Complete(n)
             /\ stage = 8 => AsManyAsIndices

LEMMA EntryOfGram ==
  ASSUME N!Apart, NEW n \in 2 .. MaxMultiWords, Counts(n), NEW g \in N!Grams(n), HasEntry(n, g)
  PROVE  maps[n][N!Key(g)].gram = g
<1>1. n \in N!Sizes
  BY SizesFacts
<1> QED BY <1>1 DEF N!Apart, Counts, HasEntry

LEMMA InitPhrasesInv == Init => PhrasesInv
<1> SUFFICES ASSUME Init PROVE PhrasesInv
  OBVIOUS
<1>1. /\ read = 0 /\ stage = 0 /\ maps = [n \in N!Sizes |-> <<>>]
      /\ DOMAIN <<>> = {} /\ IsFiniteSet({}) /\ 1 .. 0 = {}
  BY FS_EmptySet DEF Init, N!Init
<1>2. ASSUME NEW n \in 2 .. MaxMultiWords PROVE Counts(n) /\ Complete(n)
  <2>1. DOMAIN maps[n] = {}
    BY <1>1, SizesFacts
  <2>2. \A g : g \notin N!Grams(n)
    BY <1>1, GramsShown
  <2> QED BY <1>1, <2>1, <2>2 DEF Counts, Complete
<1> QED BY <1>1, <1>2 DEF PhrasesInv

\* All steps that leave the text read and the maps.
LEMMA KeepsPhrases ==
  ASSUME PhrasesInv, stage \in Nat, stage' \in Nat, maps' = maps,
         \A g : N!Occurrences(g)' = N!Occurrences(g), \A n : N!Grams(n)' = N!Grams(n),
         stage' = stage \/ (stage = 0 /\ stage' = 1)
  PROVE  PhrasesInv'
<1>1. N!Apart' <=> N!Apart
  BY DEF N!Apart, N!Sizes, N!Key
<1>2. \A n, g : HasEntry(n, g)' <=> HasEntry(n, g)
  BY DEF HasEntry, N!Key
<1>3. \A n, g : FrequentGram(n, g)' <=> FrequentGram(n, g)
  BY DEF FrequentGram
<1>4. ASSUME NEW n, Counts(n) /\ Complete(n) PROVE Counts(n)' /\ Complete(n)'
  <2>1. Counts(n)'
    BY <1>4 DEF Counts, N!Key
  <2>2. Complete(n)'
    BY <1>2, <1>3, <1>4 DEF Complete
  <2> QED BY <2>1, <2>2
<1>5. AsManyAsIndices => AsManyAsIndices'
  BY <1>2, <1>3 DEF AsManyAsIndices, N!PhraseSymbols, N!Left
<1>6. stage' = 8 => stage = 8
  OBVIOUS
<1> QED BY <1>1, <1>4, <1>5, <1>6 DEF PhrasesInv

\* A sentence is counted: an n-gram that is new did not occur before.
LEMMA StoresPhrases ==
  ASSUME CountsInv, PhrasesInv, StoreSentence
  PROVE  PhrasesInv'
<1> DEFINE s == returned[read + 1]
<1>1. /\ stage = 0 /\ stage' = 0 /\ read < Len(returned) /\ read' = read + 1
      /\ \A n \in 2 .. MaxMultiWords : maps'[n] = N!Counted(maps[n], s, n)
      /\ ReaderType /\ read \in 0 .. Len(returned) /\ read \in Nat
      /\ returned' = returned
  <2>1. maps' = [n \in N!Sizes |-> N!Counted(maps[n], returned[read + 1], n)]
    BY DEF StoreSentence, N!ExtractAndStoreNGrams
  <2>2. \A n \in 2 .. MaxMultiWords : maps'[n] = N!Counted(maps[n], s, n)
    BY <2>1, SizesFacts
  <2>3. ReaderType /\ read \in 0 .. Len(returned)
    BY DEF CountsInv
  <2> QED BY <2>2, <2>3 DEF StoreSentence, N!ExtractAndStoreNGrams, readerVars
<1>2. s \in Seq(Words)
  <2>1. returned \in Seq(Seq(Words)) /\ Len(returned) \in Nat
    BY <1>1, LenProperties DEF ReaderType
  <2>2. read + 1 \in 1 .. Len(returned)
    BY <1>1, <2>1
  <2> QED BY <2>1, <2>2, ElementOfSeq
<1>3. /\ \A g : Len(g) \in Nat \ {0} =>
           /\ N!Occurrences(g) \in Nat
           /\ N!Occurrences(g)' = N!Occurrences(g) + Cardinality(PlacesOf(s, Len(g), g))
      /\ \A n, g : g \in N!Grams(n)' <=> g \in N!Grams(n) \/ Shows(s, n, g)
  BY <1>1, MoreText
<1> HIDE DEF s
<1>4. SUFFICES ASSUME N!Apart' PROVE PhrasesInv'
  BY DEF PhrasesInv
<1>5. \A n \in N!Sizes : \A g, h \in N!Grams(n)' : N!Key(g) = N!Key(h) => g = h
  BY <1>4 DEF N!Apart, N!Sizes, N!Key
<1>6. N!Apart
  BY <1>3, <1>5 DEF N!Apart
<1>7. ASSUME NEW n \in 2 .. MaxMultiWords PROVE Counts(n)' /\ Complete(n)'
  <2> DEFINE c == N!Counted(maps[n], s, n)
             G == N!Grams(n)'
  <2>0. n \in Nat \ {0} /\ n \in N!Sizes /\ maps'[n] = c
    BY <1>1, SizesFacts
  <2>1. Counts(n) /\ Complete(n)
    BY <1>6 DEF PhrasesInv
  <2>2. /\ IsFiniteSet(DOMAIN maps[n])
        /\ \A key \in DOMAIN maps[n] :
             /\ maps[n][key].gram \in N!Grams(n) /\ N!Key(maps[n][key].gram) = key
             /\ maps[n][key].count = N!Occurrences(maps[n][key].gram)
    BY <1>1, <2>1 DEF Counts
  <2>3. \A g \in N!Grams(n) : N!Key(g) \in DOMAIN maps[n]
    BY <1>1, <2>1 DEF Complete, HasEntry
  <2>4. KeysApart(maps[n], s, n, G)
    <3>1. \A i \in N!Starts(s, n) : N!Gram(s, n, i) \in G
      BY <1>3 DEF Shows
    <3>2. \A g, h \in G : N!Key(g) = N!Key(h) => g = h
      BY <1>5, <2>0
    <3>3. \A key \in DOMAIN maps[n] : maps[n][key].gram \in G /\ N!Key(maps[n][key].gram) = key
      BY <1>3, <2>2
    <3> HIDE DEF G
    <3> QED BY <3>1, <3>2, <3>3 DEF KeysApart
  <2> HIDE DEF G
  <2>5. CountsMore(c, maps[n], s, n)
    BY <1>2, <2>0, <2>4, CountedGrams
  <2> HIDE DEF c
  <2>6. ASSUME NEW key \in DOMAIN c, NEW g, g = c[key].gram
        PROVE  g \in G /\ c[key].count = N!Occurrences(g)'
    <3>1. g \in G
      BY <2>6, <1>3, <2>2, <2>5 DEF G, CountsMore
    <3>2. IsGram(g, n) /\ Len(g) = n
      <4>1. CASE key \in DOMAIN maps[n]
        <5>1. g \in N!Grams(n)
          BY <2>6, <2>2, <2>5, <4>1 DEF CountsMore
        <5> QED BY <1>1, <2>0, <5>1, GramsType
      <4>2. CASE key \notin DOMAIN maps[n]
        <5>1. Shows(s, n, g)
          BY <2>5, <2>6, <4>2 DEF CountsMore
        <5>2. IsGram(g, n)
          BY <1>2, <2>0, <5>1, StartsFacts DEF Shows
        <5> QED BY <2>0, <5>2, GramLength
      <4> QED BY <4>1, <4>2
    <3>3. /\ N!Occurrences(g) \in Nat
          /\ N!Occurrences(g)' = N!Occurrences(g) + Cardinality(PlacesOf(s, n, g))
      BY <1>3, <2>0, <3>2
    <3>4. key \notin DOMAIN maps[n] => N!Occurrences(g) = 0
      <4>1. key \notin DOMAIN maps[n] => g \notin N!Grams(n)
        BY <2>6, <2>3, <2>5 DEF CountsMore
      <4> QED BY <1>1, <2>0, <3>2, <4>1, NotShown
    <3>5. c[key].count = N!Occurrences(g) + Cardinality(PlacesOf(s, n, g))
      BY <2>6, <2>2, <2>5, <3>4 DEF CountsMore
    <3> QED BY <3>1, <3>3, <3>5
  <2>7. Counts(n)'
    <3>1. /\ IsFiniteSet(DOMAIN maps'[n])
          /\ \A key \in DOMAIN maps'[n] : \A g : g = maps'[n][key].gram =>
               /\ g \in N!Grams(n)' /\ N!Key(g) = key
               /\ maps'[n][key].count = N!Occurrences(g)'
      BY <2>0, <2>2, <2>5, <2>6 DEF G, CountsMore
    <3> QED BY <3>1 DEF Counts, N!Key
  <2>8. \A g \in N!Grams(n)' : N!Key(g) \in DOMAIN maps'[n]
    BY <1>3, <2>0, <2>3, <2>5 DEF CountsMore
  <2>9. Complete(n)'
    <3>1. stage' # 4 /\ stage' # 8 /\ stage' \notin 5 .. 7
      BY <1>1
    <3> QED BY <2>8, <3>1 DEF Complete, HasEntry, N!Key
  <2> QED BY <2>7, <2>9
<1> QED BY <1>1, <1>7 DEF PhrasesInv

-----------------------------------------------------------------------------
(***************************************************************************)
(* The cleanup reads no text, and the words are left alone from stage III. *)
(***************************************************************************)
LEMMA CleanupText ==
  ASSUME CountsInv, UNCHANGED <<readerVars, read>>
  PROVE  /\ \A g : N!Occurrences(g)' = N!Occurrences(g)
         /\ \A n : N!Grams(n)' = N!Grams(n)
<1>1. /\ ReaderType /\ ReaderType' /\ returned' = returned /\ read' = read
      /\ read \in 0 .. Len(returned) /\ Len(returned) \in Nat
  BY LenProperties DEF CountsInv, ReaderType, readerVars
<1>2. Len(returned') >= Len(returned) /\ \A k \in 1 .. Len(returned) : returned'[k] = returned[k]
  BY <1>1
<1> QED BY <1>1, <1>2, SameText

\* A part of a frequent n-gram of words that are left is one itself.
LEMMA FrequentPart ==
  ASSUME CountsInv, NEW n \in 2 .. MaxMultiWords, NEW g, FrequentGram(n, g), NEW m \in 1 .. n
  PROVE  FrequentGram(m, N!Beginning(g, m))
<1> DEFINE h == N!Beginning(g, m)
<1>1. ReaderType /\ read \in 0 .. Len(returned)
  BY DEF CountsInv
<1>2. n \in Nat \ {0} /\ m \in Nat \ {0} /\ m <= n /\ 0 \in 0 .. (n - m)
  BY SizesFacts
<1>3. IsGram(h, m) /\ \A k \in 1 .. m : h[k] = g[k]
  BY <1>2, BeginningFacts
<1> HIDE DEF h
<1>4. \A k \in 1 .. m : h[k] = g[0 + k]
  BY <1>2, <1>3
<1>5. g \in N!Grams(n) /\ N!Occurrences(g) >= MinMulti
  BY DEF FrequentGram
<1>6. h \in N!Grams(m) /\ N!Occurrences(h) >= N!Occurrences(g)
  BY <1>1, <1>2, <1>3, <1>4, <1>5, PartOccurs
<1>7. N!Occurrences(h) >= MinMulti
  <2>1. N!Occurrences(h) \in Nat /\ N!Occurrences(g) \in Nat /\ MinMulti \in Nat
    BY <1>1, <1>2, <1>5, <1>6, GramsType, SymbolsAssumption
  <2> QED BY <1>5, <1>6, <2>1
<1>8. \A i \in 1 .. m : h[i] \in DOMAIN maps[1]
  BY <1>2, <1>3 DEF FrequentGram
<1> QED BY <1>6, <1>7, <1>8 DEF FrequentGram, h

\* The words that are left are not empty, and their counts are what the text shows.
LEMMA WordsLeft ==
  ASSUME CountsInv, NEW word \in DOMAIN maps[1]
  PROVE  /\ word # N!Hole /\ maps[1][word].count = N!Occurrences(<<word>>)
         /\ N!Key(<<word>>) = word
<1>1. <<word>> \in N!Grams(1) /\ maps[1][word].count = N!Occurrences(<<word>>)
  BY DEF CountsInv
<1>2. PICK k \in 1 .. read : Shows(returned[k], 1, <<word>>)
  BY <1>1, GramsShown
<1>3. returned[k] \in Seq(Words)
  <2>1. Len(returned) \in Nat /\ returned \in Seq(Seq(Words)) /\ read \in 0 .. Len(returned)
    BY LenProperties DEF ReaderType, CountsInv
  <2>2. k \in 1 .. Len(returned)
    BY <2>1
  <2> QED BY <2>1, <2>2, ElementOfSeq
<1>4. PICK i \in N!Starts(returned[k], 1) : <<word>> = N!Gram(returned[k], 1, i)
  BY <1>2 DEF Shows
<1>5. word = returned[k][i]
  <2> DEFINE s == returned[k]
  <2>0. s \in Seq(Words) /\ i \in N!Starts(s, 1) /\ <<word>> = N!Gram(s, 1, i) /\ 1 \in Nat \ {0}
    BY <1>3, <1>4
  <2> HIDE DEF s
  <2>1. i \in 1 .. (Len(s) - 1 + 1) /\ \A j \in 1 .. 1 : N!Gram(s, 1, i)[j] = s[i + j - 1]
    BY <2>0, StartsFacts
  <2>2. i + 1 - 1 = i /\ <<word>>[1] = word /\ 1 \in 1 .. 1
    BY <2>1
  <2>3. word = s[i]
    BY <2>0, <2>1, <2>2
  <2> QED BY <2>3 DEF s
<1>6. word # N!Hole
  BY <1>4, <1>5 DEF N!Starts
<1>7. N!Key(<<word>>) = word
  BY FlattenSingle, InstanceFlattenSeq DEF N!Key
<1> QED BY <1>1, <1>6, <1>7

\* Stage IV asks for frequent words: those of a frequent n-gram are.
LEMMA FrequentWords ==
  ASSUME CountsInv, NEW n \in 2 .. MaxMultiWords, NEW g \in N!Grams(n), N!Occurrences(g) >= MinMulti
  PROVE  N!WordsFrequent(g) <=> FrequentGram(n, g)
<1>1. ReaderType /\ read \in 0 .. Len(returned) /\ n \in Nat \ {0}
  BY SizesFacts DEF CountsInv
<1>2. IsGram(g, n) /\ N!Occurrences(g) \in Nat
  BY <1>1, GramsType
<1>3. DOMAIN g = 1 .. n
  BY <1>2 DEF IsGram
<1>4. ASSUME NEW i \in 1 .. n
      PROVE  N!Key(<<g[i]>>) \in N!Frequent(maps[1], MinMulti) <=> g[i] \in DOMAIN maps[1]
  <2> DEFINE word == g[i]
  <2>1. N!Key(<<word>>) = word
    BY FlattenSingle, InstanceFlattenSeq DEF N!Key
  <2>2. ASSUME word \in DOMAIN maps[1] PROVE maps[1][word].count >= MinMulti
    <3> DEFINE h == <<word>>
               d == i - 1
    <3>1. word # N!Hole /\ maps[1][word].count = N!Occurrences(h)
      BY <2>2, WordsLeft
    <3>2. IsGram(h, 1) /\ h[1] = word
      BY DEF IsGram
    <3>3. d \in 0 .. (n - 1) /\ 1 \in 1 .. n /\ \A k \in 1 .. 1 : k = 1 /\ d + k = i
      BY <1>1
    <3> HIDE DEF d, h
    <3>4. \A k \in 1 .. 1 : h[k] = g[d + k]
      BY <3>2, <3>3
    <3> HIDE DEF word
    <3>5. h \in N!Grams(1) /\ N!Occurrences(h) >= N!Occurrences(g)
      BY <1>1, <3>1, <3>2, <3>3, <3>4, PartOccurs
    <3>6. N!Occurrences(h) \in Nat /\ MinMulti \in Nat
      BY <1>1, <3>5, GramsType, SymbolsAssumption
    <3> QED BY <1>2, <3>1, <3>5, <3>6
  <2> QED BY <2>1, <2>2 DEF N!Frequent
<1> QED BY <1>3, <1>4 DEF N!WordsFrequent, FrequentGram

\* A stage that only removes entries, not words.
LEMMA OnlyCounts ==
  ASSUME NEW n, Counts(n), NEW keys, maps'[n] = N!Only(maps[n], keys), stage' <= 6 => stage <= 6,
         \A g : N!Occurrences(g)' = N!Occurrences(g), N!Grams(n)' = N!Grams(n)
  PROVE  Counts(n)' /\ \A g : HasEntry(n, g)' <=> HasEntry(n, g) /\ N!Key(g) \in keys
<1>1. /\ DOMAIN maps'[n] = DOMAIN maps[n] \cap keys
      /\ \A key \in DOMAIN maps'[n] : maps'[n][key] = maps[n][key]
  BY DEF N!Only
<1>2. IsFiniteSet(DOMAIN maps'[n])
  BY <1>1, FS_Subset DEF Counts
<1>3. Counts(n)'
  BY <1>1, <1>2 DEF Counts, N!Key
<1> QED BY <1>1, <1>3 DEF HasEntry, N!Key

\* Stages III and IV.
LEMMA FrequentStages ==
  ASSUME GramsInv, CountsInv, PhrasesInv, UNCHANGED readerVars,
         N!RarePhrases \/ N!PhrasesOfRareWords
  PROVE  PhrasesInv'
<1> DEFINE Keep(n) == IF stage = 3 THEN N!Frequent(maps[n], MinMulti)
                      ELSE {key \in DOMAIN maps[n] : N!WordsFrequent(maps[n][key].gram)}
<1>1. /\ stage \in 3 .. 4 /\ stage' = stage + 1 /\ read' = read /\ maps'[1] = maps[1]
      /\ \A n \in 2 .. MaxMultiWords : maps'[n] = N!Only(maps[n], Keep(n))
  <2>1. CASE N!RarePhrases
    <3>1. /\ stage = 3 /\ stage' = 4 /\ read' = read
          /\ maps' = [n \in N!Sizes |-> IF n = 1 THEN maps[1]
                                       ELSE N!Only(maps[n], N!Frequent(maps[n], MinMulti))]
      BY <2>1 DEF N!RarePhrases, N!Step
    <3> QED BY <3>1, SizesFacts
  <2>2. CASE N!PhrasesOfRareWords
    <3>1. /\ stage = 4 /\ stage' = 5 /\ read' = read
          /\ maps' = [n \in N!Sizes |->
                        IF n = 1 THEN maps[1]
                        ELSE N!Only(maps[n], {key \in DOMAIN maps[n] :
                                                N!WordsFrequent(maps[n][key].gram)})]
      BY <2>2 DEF N!PhrasesOfRareWords, N!Step
    <3> QED BY <3>1, SizesFacts
  <2> QED BY <2>1, <2>2
<1>2. (\A g : N!Occurrences(g)' = N!Occurrences(g)) /\ \A n : N!Grams(n)' = N!Grams(n)
  BY <1>1, CleanupText
<1>3. SUFFICES ASSUME N!Apart' PROVE PhrasesInv'
  BY DEF PhrasesInv
<1>4. N!Apart
  BY <1>2, <1>3 DEF N!Apart, N!Sizes, N!Key
<1>5. ASSUME NEW n \in 2 .. MaxMultiWords PROVE Counts(n)' /\ Complete(n)'
  <2>1. Counts(n) /\ Complete(n)
    BY <1>4 DEF PhrasesInv
  <2>2. \A g : FrequentGram(n, g)' <=> FrequentGram(n, g)
    BY <1>1, <1>2 DEF FrequentGram
  <2>3. ASSUME NEW g \in N!Grams(n), HasEntry(n, g)
        PROVE  /\ stage = 3 => (N!Key(g) \in Keep(n) <=> N!Occurrences(g) >= MinMulti)
               /\ stage = 4 => (N!Key(g) \in Keep(n) <=> FrequentGram(n, g))
    <3>1. maps[n][N!Key(g)].gram = g
      BY <1>4, <2>1, <2>3, EntryOfGram
    <3>2. N!Key(g) \in DOMAIN maps[n] /\ maps[n][N!Key(g)].count = N!Occurrences(g)
      BY <1>1, <2>1, <2>3, <3>1 DEF Counts, HasEntry
    <3>3. stage = 3 => (N!Key(g) \in Keep(n) <=> N!Occurrences(g) >= MinMulti)
      BY <3>2 DEF N!Frequent
    <3>4. ASSUME stage = 4 PROVE N!Key(g) \in Keep(n) <=> FrequentGram(n, g)
      <4>1. N!Occurrences(g) >= MinMulti
        BY <2>1, <2>3, <3>4 DEF Complete
      <4>2. N!WordsFrequent(g) <=> FrequentGram(n, g)
        BY <4>1, FrequentWords
      <4> QED BY <3>1, <3>2, <3>4, <4>2
    <3> QED BY <3>3, <3>4
  <2> HIDE DEF Keep
  <2>4. Counts(n)' /\ \A g : HasEntry(n, g)' <=> HasEntry(n, g) /\ N!Key(g) \in Keep(n)
    <3>1. maps'[n] = N!Only(maps[n], Keep(n)) /\ (stage' <= 6 => stage <= 6)
      BY <1>1
    <3> QED BY <1>2, <2>1, <3>1, OnlyCounts
  <2>5. CASE stage = 3
    <3>1. stage' = 4 /\ \A g \in N!Grams(n) : HasEntry(n, g)
      BY <1>1, <2>1, <2>5 DEF Complete
    <3>2. \A g \in N!Grams(n)' : HasEntry(n, g)' <=> N!Occurrences(g)' >= MinMulti
      BY <1>2, <2>3, <2>4, <2>5, <3>1
    <3> QED BY <2>4, <3>1, <3>2 DEF Complete
  <2>6. CASE stage = 4
    <3>1. stage' = 5 /\ \A g \in N!Grams(n) : HasEntry(n, g) <=> N!Occurrences(g) >= MinMulti
      BY <1>1, <2>1, <2>6 DEF Complete
    <3>2. \A g \in N!Grams(n)' : HasEntry(n, g)' <=> FrequentGram(n, g)'
      BY <1>2, <2>2, <2>3, <2>4, <2>6, <3>1 DEF FrequentGram
    <3> QED BY <2>4, <3>1, <3>2 DEF Complete
  <2> QED BY <1>1, <2>5, <2>6
<1>6. stage' # 8
  BY <1>1
<1> QED BY <1>5, <1>6 DEF PhrasesInv

\* After stage IV a frequent n-gram of words that are left has an entry that stays in
\* stage V, and so has every beginning of it.
LEMMA EntryFrequent ==
  ASSUME CountsInv, PhrasesInv, N!Apart, stage \in 5 .. 6,
         NEW m \in 1 .. MaxMultiWords, NEW g, FrequentGram(m, g)
  PROVE  N!Key(g) \in N!Frequent(maps[m], MinMulti)
<1>1. ReaderType /\ read \in 0 .. Len(returned) /\ m \in Nat \ {0}
  BY SizesFacts DEF CountsInv
<1>2. g \in N!Grams(m) /\ N!Occurrences(g) >= MinMulti
  BY DEF FrequentGram
<1>3. CASE m = 1
  <2> DEFINE word == g[1]
  <2>1. IsGram(g, 1)
    BY <1>1, <1>2, <1>3, GramsType
  <2>2. g = <<word>> /\ N!Key(g) = word
    BY <2>1, GramOfOne
  <2>3. word \in DOMAIN maps[1]
    BY <1>3 DEF FrequentGram
  <2> HIDE DEF word
  <2>4. maps[1][word].count = N!Occurrences(g)
    BY <2>2, <2>3, WordsLeft
  <2> QED BY <1>2, <1>3, <2>2, <2>3, <2>4 DEF N!Frequent
<1>4. CASE m # 1
  <2>1. m \in 2 .. MaxMultiWords
    BY <1>1, <1>4
  <2>2. Counts(m) /\ Complete(m)
    BY <2>1 DEF PhrasesInv
  <2>3. HasEntry(m, g)
    BY <1>2, <2>2 DEF Complete
  <2>4. maps[m][N!Key(g)].gram = g
    BY <1>2, <2>1, <2>2, <2>3, EntryOfGram
  <2>5. N!Key(g) \in DOMAIN maps[m] /\ maps[m][N!Key(g)].count = N!Occurrences(g)
    BY <2>2, <2>3, <2>4 DEF Counts, HasEntry
  <2> QED BY <1>2, <2>5 DEF N!Frequent
<1> QED BY <1>3, <1>4

\* Every entry has the beginnings that stages V and VI look for.
LEMMA EntryBeginnings ==
  ASSUME CountsInv, PhrasesInv, N!Apart, stage \in 5 .. 6,
         NEW n \in 2 .. MaxMultiWords, NEW key \in DOMAIN maps[n], NEW m \in 1 .. n
  PROVE  N!Key(N!Beginning(maps[n][key].gram, m)) \in N!Frequent(maps[m], MinMulti)
<1> DEFINE g == maps[n][key].gram
           h == N!Beginning(g, m)
<1>1. Counts(n) /\ Complete(n)
  BY DEF PhrasesInv
<1>2. g \in N!Grams(n) /\ N!Key(g) = key
  BY <1>1 DEF Counts
<1>3. FrequentGram(n, g)
  <2>1. HasEntry(n, g)
    BY <1>2 DEF HasEntry
  <2> HIDE DEF g
  <2> QED BY <1>1, <1>2, <2>1 DEF Complete
<1> HIDE DEF g
<1>4. FrequentGram(m, h)
  BY <1>3, FrequentPart
<1> HIDE DEF h
<1>5. m \in 1 .. MaxMultiWords
  BY SizesFacts
<1>6. N!Key(h) \in N!Frequent(maps[m], MinMulti)
  BY <1>4, <1>5, EntryFrequent
<1> QED BY <1>6 DEF g, h

\* Stage V finds no beginning missing, stage VI makes none.
LEMMA PrefixStages ==
  ASSUME GramsInv, CountsInv, PhrasesInv, UNCHANGED readerVars,
         N!PhrasesOfRarePrefixes \/ N!FavorLargerPhrases
  PROVE  PhrasesInv'
<1>1. /\ stage \in 5 .. 6 /\ stage' = stage + 1 /\ read' = read
      /\ stage = 5 => maps' = N!Prefixed
      /\ stage = 6 => maps' = [n \in N!Sizes |-> IF n = 1 THEN maps[1] ELSE N!Reduced(n)]
  BY DEF N!PhrasesOfRarePrefixes, N!FavorLargerPhrases, N!Step
<1>2. (\A g : N!Occurrences(g)' = N!Occurrences(g)) /\ \A n : N!Grams(n)' = N!Grams(n)
  BY <1>1, CleanupText
<1>3. SUFFICES ASSUME N!Apart' PROVE PhrasesInv'
  BY DEF PhrasesInv
<1>4. N!Apart
  BY <1>2, <1>3 DEF N!Apart, N!Sizes, N!Key
<1>5. ASSUME stage = 5
      PROVE  /\ DOMAIN maps'[1] = DOMAIN maps[1]
             /\ \A n \in 2 .. MaxMultiWords : /\ DOMAIN maps'[n] = DOMAIN maps[n]
                                              /\ \A key \in DOMAIN maps[n] : maps'[n][key] = maps[n][key]
  <2>1. PICK kept : /\ kept[1] = DOMAIN maps[1]
                    /\ \A n \in 2 .. MaxMultiWords :
                         /\ N!Prefixed[n] = N!Only(maps[n], kept[n])
                         /\ \A key \in DOMAIN maps[n] :
                              key \in kept[n] <=> N!Key(N!Beginning(maps[n][key].gram, n - 1)) \in
                                                  kept[n - 1] \cap N!Frequent(maps[n - 1], MinMulti)
    BY PrefixedFacts
  <2> DEFINE All == {k \in Nat : k + 1 <= MaxMultiWords => DOMAIN maps[k + 1] \subseteq kept[k + 1]}
  <2>2. 0 \in All
    BY <2>1
  <2>3. ASSUME NEW k \in Nat, k \in All PROVE k + 1 \in All
    <3> SUFFICES ASSUME k + 1 + 1 <= MaxMultiWords, NEW key \in DOMAIN maps[k + 1 + 1]
                 PROVE  key \in kept[k + 1 + 1]
      OBVIOUS
    <3> DEFINE n == k + 1 + 1
               b == N!Key(N!Beginning(maps[n][key].gram, n - 1))
    <3>1. n \in 2 .. MaxMultiWords /\ n - 1 = k + 1 /\ n - 1 \in 1 .. n
      BY SizesFacts
    <3>2. b \in N!Frequent(maps[n - 1], MinMulti)
      BY <1>1, <1>4, <3>1, EntryBeginnings
    <3>3. b \in DOMAIN maps[n - 1]
      BY <3>2 DEF N!Frequent
    <3>4. DOMAIN maps[n - 1] \subseteq kept[n - 1]
      <4>1. k + 1 <= MaxMultiWords
        BY SizesFacts
      <4> QED BY <2>3, <3>1, <4>1
    <3> QED BY <2>1, <3>1, <3>2, <3>3, <3>4
  <2>4. \A k \in Nat : k \in All
    <3> HIDE DEF All
    <3> QED BY <2>2, <2>3, SimpleInduction
  <2>5. ASSUME NEW n \in 2 .. MaxMultiWords
        PROVE  /\ DOMAIN maps'[n] = DOMAIN maps[n]
               /\ \A key \in DOMAIN maps[n] : maps'[n][key] = maps[n][key]
    <3>1. n - 1 \in Nat /\ (n - 1) + 1 = n /\ n <= MaxMultiWords
      BY SizesFacts
    <3>2. n - 1 \in All
      BY <2>4, <3>1
    <3>3. DOMAIN maps[n] \subseteq kept[n]
      BY <3>1, <3>2
    <3>4. maps'[n] = N!Only(maps[n], kept[n])
      BY <1>1, <1>5, <2>1
    <3> QED BY <3>3, <3>4 DEF N!Only
  <2>6. maps'[1] = N!Only(maps[1], DOMAIN maps[1])
    BY <1>1, <1>5, PrefixedFacts
  <2> QED BY <2>5, <2>6 DEF N!Only
<1>6. ASSUME stage = 6
      PROVE  /\ DOMAIN maps'[1] = DOMAIN maps[1]
             /\ \A n \in 2 .. MaxMultiWords :
                  /\ DOMAIN maps'[n] = DOMAIN maps[n]
                  /\ \A key \in DOMAIN maps[n] : maps'[n][key].gram = maps[n][key].gram
  <2>1. maps'[1] = maps[1] /\ \A n \in 2 .. MaxMultiWords : maps'[n] = N!Reduced(n)
    BY <1>1, <1>6, SizesFacts
  <2>2. ASSUME NEW n \in 2 .. MaxMultiWords
        PROVE  /\ DOMAIN N!Reduced(n) = DOMAIN maps[n]
               /\ \A key \in DOMAIN maps[n] : N!Reduced(n)[key].gram = maps[n][key].gram
    <3>1. /\ \A key \in DOMAIN maps[n] : N!Reduced(n)[key].gram = maps[n][key].gram
          /\ DOMAIN N!Reduced(n) =
               DOMAIN maps[n] \cup {N!Key(N!Beginning(maps[nk[1]][nk[2]].gram, n)) : nk \in N!Longer(n)}
      <4>1. \A k \in 2 .. MaxMultiWords :
              Entries(maps[k], k) /\ WordsIn(maps[k], k, DOMAIN maps[1])
        <5> SUFFICES ASSUME NEW k \in 2 .. MaxMultiWords
                     PROVE  Entries(maps[k], k) /\ WordsIn(maps[k], k, DOMAIN maps[1])
          OBVIOUS
        <5>1. stage >= 5 /\ k \in N!Sizes
          BY <1>6, SizesFacts
        <5> QED BY <5>1 DEF GramsInv
      <4> DEFINE words == DOMAIN maps[1]
      <4> HIDE DEF words
      <4>2. \A k \in 2 .. MaxMultiWords : Entries(maps[k], k) /\ WordsIn(maps[k], k, words)
        BY <4>1 DEF words
      <4> QED BY <4>2, ReducedFacts
    <3>2. ASSUME NEW nk \in N!Longer(n)
          PROVE  N!Key(N!Beginning(maps[nk[1]][nk[2]].gram, n)) \in DOMAIN maps[n]
      <4>1. PICK k \in (n + 1) .. MaxMultiWords : nk \in {k} \X DOMAIN maps[k]
        BY DEF N!Longer
      <4>2. k \in 2 .. MaxMultiWords /\ n \in 1 .. k
        BY SizesFacts
      <4>3. nk[1] = k /\ nk[2] \in DOMAIN maps[k]
        BY <4>1
      <4> DEFINE key == nk[2]
      <4> HIDE DEF key
      <4>4. key \in DOMAIN maps[k]
        BY <4>3 DEF key
      <4>5. N!Key(N!Beginning(maps[k][key].gram, n)) \in N!Frequent(maps[n], MinMulti)
        BY <1>1, <1>4, <4>2, <4>4, EntryBeginnings
      <4> QED BY <4>3, <4>5 DEF N!Frequent, key
    <3> QED BY <3>1, <3>2
  <2> QED BY <2>1, <2>2
<1>7. ASSUME NEW n \in 2 .. MaxMultiWords PROVE Counts(n)' /\ Complete(n)'
  <2>1. Counts(n) /\ Complete(n)
    BY <1>4 DEF PhrasesInv
  <2>2. /\ DOMAIN maps'[1] = DOMAIN maps[1] /\ DOMAIN maps'[n] = DOMAIN maps[n]
        /\ \A key \in DOMAIN maps[n] : /\ maps'[n][key].gram = maps[n][key].gram
                                       /\ stage = 5 => maps'[n][key].count = maps[n][key].count
    BY <1>1, <1>5, <1>6
  <2>3. \A g : FrequentGram(n, g)' <=> FrequentGram(n, g)
    BY <1>2, <2>2 DEF FrequentGram
  <2>4. \A g : HasEntry(n, g)' <=> HasEntry(n, g)
    BY <2>2 DEF HasEntry, N!Key
  <2>5. Counts(n)'
    BY <1>1, <1>2, <2>1, <2>2 DEF Counts, N!Key
  <2>6. \A g \in N!Grams(n) : HasEntry(n, g) <=> FrequentGram(n, g)
    BY <1>1, <2>1 DEF Complete
  <2>7. \A g \in N!Grams(n)' : HasEntry(n, g)' <=> FrequentGram(n, g)'
    BY <1>2, <2>3, <2>4, <2>6
  <2>8. stage' \in 6 .. 7
    BY <1>1
  <2> QED BY <2>5, <2>7, <2>8 DEF Complete
<1>8. stage' # 8
  BY <1>1
<1> QED BY <1>7, <1>8 DEF PhrasesInv

\* Stage VII: the pairs of size and key that stay, one for each symbol that is left.
PhrasePairs == UNION {{n} \X DOMAIN maps[n] : n \in 2 .. MaxMultiWords}

LEMMA PhrasePairsFacts ==
  ASSUME \A n \in 2 .. MaxMultiWords : IsFiniteSet(DOMAIN maps[n])
  PROVE  /\ IsFiniteSet(PhrasePairs)
         /\ \A e \in PhrasePairs : /\ e = <<e[1], e[2]>> /\ e[1] \in 2 .. MaxMultiWords
                                   /\ e[2] \in DOMAIN maps[e[1]]
         /\ \A n \in 2 .. MaxMultiWords : \A key \in DOMAIN maps[n] : <<n, key>> \in PhrasePairs
<1> DEFINE f == [n \in 2 .. MaxMultiWords |-> {n} \X DOMAIN maps[n]]
           S == {f[n] : n \in 2 .. MaxMultiWords}
<1>1. IsFiniteSet(2 .. MaxMultiWords)
  BY SizesFacts, FS_Interval
<1>2. IsFiniteSet(S)
  <2> HIDE DEF f
  <2> QED BY <1>1, ImageFacts
<1>3. ASSUME NEW n \in 2 .. MaxMultiWords PROVE IsFiniteSet(f[n])
  BY FS_Singleton, FS_Product
<1>4. UNION S = PhrasePairs
  BY DEF PhrasePairs
<1>5. \A T \in S : IsFiniteSet(T)
  BY <1>3
<1> HIDE DEF S, f
<1>6. IsFiniteSet(PhrasePairs)
  BY <1>2, <1>4, <1>5, FS_UNION
<1>7. ASSUME NEW e \in PhrasePairs
      PROVE  e = <<e[1], e[2]>> /\ e[1] \in 2 .. MaxMultiWords /\ e[2] \in DOMAIN maps[e[1]]
  <2>1. PICK n \in 2 .. MaxMultiWords : e \in {n} \X DOMAIN maps[n]
    BY DEF PhrasePairs
  <2> QED BY <2>1
<1>8. \A n \in 2 .. MaxMultiWords : \A key \in DOMAIN maps[n] : <<n, key>> \in PhrasePairs
  BY DEF PhrasePairs
<1> QED BY <1>6, <1>7, <1>8

LEMMA LimitsPhrases ==
  ASSUME GramsInv, CountsInv, PhrasesInv, UNCHANGED readerVars, N!LimitPhrases
  PROVE  PhrasesInv'
<1> DEFINE Keys(K, n) == {nk[2] : nk \in {e \in K : e[1] = n}}
           counts == [nk \in PhrasePairs |-> maps[nk[1]][nk[2]].count]
           Left(K) == [n \in N!Sizes |-> IF n = 1 THEN maps[1] ELSE N!Only(maps[n], Keys(K, n))]
<1>1. stage = 7 /\ stage' = 8 /\ read' = read
  BY DEF N!LimitPhrases, N!Step
<1>2. \E K \in N!Limited(counts, MaxMultiSymbols) : maps' = Left(K)
  BY Zenon DEF N!LimitPhrases, PhrasePairs
<1>3. \E K : /\ maps' = Left(K) /\ K \in SUBSET PhrasePairs
             /\ N!Cardinality(K) = N!Min({N!Cardinality(PhrasePairs), MaxMultiSymbols})
  <2>1. DOMAIN counts = PhrasePairs
    OBVIOUS
  <2> HIDE DEF counts, Left
  <2> QED BY <1>2, <2>1 DEF N!Limited
<1> HIDE DEF counts, Left
<1>4. PICK K : /\ maps' = Left(K) /\ K \in SUBSET PhrasePairs
               /\ N!Cardinality(K) = N!Min({N!Cardinality(PhrasePairs), MaxMultiSymbols})
  BY <1>3
<1>5. maps'[1] = maps[1] /\ \A n \in 2 .. MaxMultiWords : maps'[n] = N!Only(maps[n], Keys(K, n))
  BY <1>4, SizesFacts DEF Left
<1>6. (\A g : N!Occurrences(g)' = N!Occurrences(g)) /\ \A n : N!Grams(n)' = N!Grams(n)
  BY <1>1, CleanupText
<1>7. SUFFICES ASSUME N!Apart' PROVE PhrasesInv'
  BY DEF PhrasesInv
<1>8. N!Apart
  BY <1>6, <1>7 DEF N!Apart, N!Sizes, N!Key
<1>9. ASSUME NEW n \in 2 .. MaxMultiWords
      PROVE  /\ Counts(n) /\ Complete(n) /\ IsFiniteSet(DOMAIN maps[n])
             /\ Counts(n)' /\ \A g : HasEntry(n, g)' <=> HasEntry(n, g) /\ N!Key(g) \in Keys(K, n)
  <2>1. Counts(n) /\ Complete(n)
    BY <1>8 DEF PhrasesInv
  <2>2. maps'[n] = N!Only(maps[n], Keys(K, n))
    BY <1>5
  <2> DEFINE keys == Keys(K, n)
  <2> HIDE DEF keys
  <2>3. maps'[n] = N!Only(maps[n], keys)
    BY <2>2 DEF keys
  <2>4. Counts(n)' /\ \A g : HasEntry(n, g)' <=> HasEntry(n, g) /\ N!Key(g) \in keys
    <3>1. stage' <= 6 => stage <= 6
      BY <1>1
    <3> QED BY <1>6, <2>1, <2>3, <3>1, OnlyCounts
  <2> QED BY <2>1, <2>4 DEF Counts, keys
<1>10. /\ IsFiniteSet(PhrasePairs)
       /\ \A e \in PhrasePairs : /\ e = <<e[1], e[2]>> /\ e[1] \in 2 .. MaxMultiWords
                                 /\ e[2] \in DOMAIN maps[e[1]]
       /\ \A n \in 2 .. MaxMultiWords : \A key \in DOMAIN maps[n] : <<n, key>> \in PhrasePairs
  BY <1>9, PhrasePairsFacts
<1>11. ASSUME NEW n \in 2 .. MaxMultiWords, NEW key
       PROVE  key \in Keys(K, n) <=> <<n, key>> \in K
  <2>1. ASSUME key \in Keys(K, n) PROVE <<n, key>> \in K
    <3>1. PICK e \in K : e[1] = n /\ key = e[2]
      BY <2>1
    <3>2. e = <<e[1], e[2]>>
      BY <1>4, <1>10
    <3> QED BY <3>1, <3>2
  <2>2. ASSUME <<n, key>> \in K PROVE key \in Keys(K, n)
    <3>1. <<n, key>>[1] = n /\ <<n, key>>[2] = key
      OBVIOUS
    <3> QED BY <2>2, <3>1
  <2> QED BY <2>1, <2>2
<1> HIDE DEF Keys
<1>12. \A n, g : FrequentGram(n, g)' <=> FrequentGram(n, g)
  BY <1>5, <1>6 DEF FrequentGram
<1>13. ASSUME NEW n \in 2 .. MaxMultiWords PROVE Counts(n)' /\ Complete(n)'
  <2>1. \A g \in N!Grams(n) : HasEntry(n, g) <=> FrequentGram(n, g)
    BY <1>1, <1>9 DEF Complete
  <2>2. \A g \in N!Grams(n)' : HasEntry(n, g)' => FrequentGram(n, g)'
    BY <1>6, <1>9, <1>12, <2>1
  <2>3. ~(stage' <= 3) /\ stage' # 4 /\ stage' \notin 5 .. 7
    BY <1>1
  <2> QED BY <1>9, <2>2, <2>3 DEF Complete
<1>14. ASSUME NEW n \in 2 .. MaxMultiWords, NEW g, FrequentGram(n, g), ~HasEntry(n, g)'
       PROVE  Cardinality(K) = MaxMultiSymbols
  <2>1. g \in N!Grams(n) /\ HasEntry(n, g)
    BY <1>1, <1>9, <1>14 DEF Complete, FrequentGram
  <2> DEFINE e == <<n, N!Key(g)>>
             all == Cardinality(PhrasePairs)
  <2>2. e \in PhrasePairs
    BY <1>10, <2>1 DEF HasEntry
  <2>3. e \notin K
    BY <1>9, <1>11, <1>14, <2>1
  <2> HIDE DEF e
  <2>4. Cardinality(K) <= all /\ Cardinality(K) # all /\ all \in Nat
    BY <1>4, <1>10, <2>2, <2>3, FS_Subset, FS_CardinalityType
  <2>5. Cardinality(K) = Min({all, MaxMultiSymbols})
    BY <1>4, InstanceCardinality, InstanceMin
  <2> HIDE DEF all
  <2>6. MaxMultiSymbols \in Nat
    BY SymbolsAssumption
  <2>7. Min({all, MaxMultiSymbols}) \in {all, MaxMultiSymbols}
    BY <2>4, <2>6 DEF Min
  <2> QED BY <2>4, <2>5, <2>7
<1>15. Cardinality(N!PhraseSymbols') = Cardinality(K)
  <2> DEFINE f == [e \in K |-> maps[e[1]][e[2]].gram]
             image == {f[e] : e \in K}
  <2>1. ASSUME NEW e \in K
        PROVE  /\ e = <<e[1], e[2]>> /\ e[1] \in 2 .. MaxMultiWords /\ e[2] \in DOMAIN maps[e[1]]
               /\ Len(f[e]) = e[1] /\ N!Key(f[e]) = e[2]
    <3>1. e = <<e[1], e[2]>> /\ e[1] \in 2 .. MaxMultiWords /\ e[2] \in DOMAIN maps[e[1]]
      BY <1>4, <1>10
    <3> DEFINE n == e[1]
               key == e[2]
               g == maps[n][key].gram
    <3>2. n \in 2 .. MaxMultiWords /\ key \in DOMAIN maps[n] /\ f[e] = g
      BY <3>1
    <3> HIDE DEF n, key, f
    <3>3. g \in N!Grams(n) /\ N!Key(g) = key
      BY <1>9, <3>2 DEF Counts
    <3> HIDE DEF g
    <3>4. Len(g) = n
      <4>1. ReaderType /\ read \in 0 .. Len(returned) /\ n \in Nat \ {0}
        BY <3>2, SizesFacts DEF CountsInv
      <4> QED BY <3>3, <4>1, GramsType
    <3> QED BY <3>1, <3>2, <3>3, <3>4 DEF n, key
  <2>2. IsFiniteSet(K)
    BY <1>4, <1>10, FS_Subset
  <2>3. Cardinality(image) = Cardinality(K)
    <3>1. ASSUME NEW x \in K, NEW y \in K, f[x] = f[y] PROVE x = y
      <4> HIDE DEF f
      <4>1. x[1] = y[1] /\ x[2] = y[2]
        BY <2>1, <3>1
      <4> QED BY <2>1, <4>1
    <3> HIDE DEF f
    <3> QED BY <2>2, <3>1, ImageFacts
  <2>4. ASSUME NEW n \in 2 .. MaxMultiWords, NEW key
        PROVE  /\ key \in DOMAIN maps'[n] <=> <<n, key>> \in K
               /\ key \in DOMAIN maps'[n] => maps'[n][key].gram = f[<<n, key>>]
    <3>1. key \in DOMAIN maps'[n] <=> key \in DOMAIN maps[n] /\ <<n, key>> \in K
      BY <1>5, <1>11 DEF N!Only
    <3>2. <<n, key>> \in K => key \in DOMAIN maps[n]
      <4>1. <<n, key>>[1] = n /\ <<n, key>>[2] = key
        OBVIOUS
      <4> HIDE DEF f
      <4> QED BY <2>1, <4>1
    <3>3. key \in DOMAIN maps'[n] => maps'[n][key] = maps[n][key]
      BY <1>5 DEF N!Only
    <3>4. <<n, key>> \in K => f[<<n, key>>] = maps[n][key].gram
      OBVIOUS
    <3> QED BY <3>1, <3>2, <3>3, <3>4
  <2>5. N!PhraseSymbols' = image
    <3> HIDE DEF f
    <3>1. ASSUME NEW g \in N!PhraseSymbols' PROVE g \in image
      <4>1. PICK n \in 2 .. MaxMultiWords : \E key \in DOMAIN maps'[n] : g = maps'[n][key].gram
        BY DEF N!PhraseSymbols, N!Left
      <4> QED BY <2>4, <4>1
    <3>2. ASSUME NEW e \in K PROVE f[e] \in N!PhraseSymbols'
      <4>1. PICK n \in 2 .. MaxMultiWords : n = e[1]
        BY <2>1
      <4>2. PICK key : key = e[2]
        OBVIOUS
      <4>3. e = <<n, key>>
        BY <2>1, <4>1, <4>2
      <4>4. key \in DOMAIN maps'[n] /\ maps'[n][key].gram = f[e]
        BY <2>4, <4>3
      <4> QED BY <4>4 DEF N!PhraseSymbols, N!Left
    <3> QED BY <3>1, <3>2
  <2> QED BY <2>3, <2>5
<1>16. AsManyAsIndices'
  BY <1>12, <1>14, <1>15 DEF AsManyAsIndices
<1> QED BY <1>13, <1>16 DEF PhrasesInv

\* The steps that look at words leave the phrases alone.
LEMMA WordStages ==
  ASSUME GramsInv, CountsInv, PhrasesInv, UNCHANGED readerVars, N!RareWords \/ N!LimitWords
  PROVE  PhrasesInv'
<1>1. PICK keys : /\ stage \in 1 .. 2 /\ stage' = stage + 1 /\ read' = read
                  /\ maps' = [maps EXCEPT ![1] = N!Only(@, keys)]
  <2>1. stage \in 1 .. 2 /\ stage' = stage + 1 /\ read' = read
    BY DEF N!RareWords, N!LimitWords, N!Step
  <2>2. \E keys : maps' = [maps EXCEPT ![1] = N!Only(@, keys)]
    BY Zenon DEF N!RareWords, N!LimitWords
  <2> QED BY <2>1, <2>2
<1>2. \A n \in 2 .. MaxMultiWords : maps'[n] = maps[n]
  <2>1. maps = [n \in N!Sizes |-> maps[n]]
    BY DEF GramsInv
  <2> QED BY <1>1, <2>1, SizesFacts
<1>3. (\A g : N!Occurrences(g)' = N!Occurrences(g)) /\ \A n : N!Grams(n)' = N!Grams(n)
  BY <1>1, CleanupText
<1>4. SUFFICES ASSUME N!Apart' PROVE PhrasesInv'
  BY DEF PhrasesInv
<1>5. N!Apart
  BY <1>3, <1>4 DEF N!Apart, N!Sizes, N!Key
<1>6. stage <= 6 /\ stage <= 3 /\ stage' \in 2 .. 3
  BY <1>1
<1>7. ASSUME NEW n \in 2 .. MaxMultiWords PROVE Counts(n)' /\ Complete(n)'
  <2>1. Counts(n) /\ Complete(n)
    BY <1>5 DEF PhrasesInv
  <2>2. Counts(n)'
    BY <1>2, <1>3, <1>6, <2>1 DEF Counts, N!Key
  <2>3. \A g \in N!Grams(n) : HasEntry(n, g)
    BY <1>6, <2>1 DEF Complete
  <2>4. \A g \in N!Grams(n)' : HasEntry(n, g)'
    BY <1>2, <1>3, <2>3 DEF HasEntry, N!Key
  <2>5. stage' # 4 /\ stage' \notin 5 .. 7 /\ stage' # 8
    BY <1>6
  <2> QED BY <2>2, <2>4, <2>5 DEF Complete
<1> QED BY <1>6, <1>7 DEF PhrasesInv

\* Reading on adds a sentence behind those that were counted.
LEMMA ReadsPhrases ==
  ASSUME GramsInv, CountsInv, PhrasesInv, ReadSentence
  PROVE  PhrasesInv'
<1>1. ReaderType /\ read \in 0 .. Len(returned) /\ stage \in Nat
  BY DEF CountsInv, GramsInv
<1>2. GetNextSentenceTokens /\ read' = read /\ stage' = stage /\ maps' = maps
  BY DEF ReadSentence, handlerVars
<1>3. /\ ReaderType'
      /\ \/ returned' = returned
         \/ \E s \in Seq(Words) : returned' = Append(returned, s)
  BY <1>1, <1>2, CallReaderType
<1>4. Len(returned') >= Len(returned) /\ \A k \in 1 .. Len(returned) : returned'[k] = returned[k]
  <2>1. returned \in Seq(Seq(Words))
    BY <1>1 DEF ReaderType
  <2>2. Len(returned) \in Nat
    BY <2>1, LenProperties
  <2>3. CASE returned' = returned
    BY <2>2, <2>3
  <2>4. ASSUME NEW s \in Seq(Words), returned' = Append(returned, s)
        PROVE  /\ Len(returned') = Len(returned) + 1
               /\ \A k \in 1 .. Len(returned) : returned'[k] = returned[k]
    BY <2>1, <2>4, AppendProperties
  <2> QED BY <1>3, <2>2, <2>3, <2>4
<1>5. (\A g : N!Occurrences(g)' = N!Occurrences(g)) /\ \A n : N!Grams(n)' = N!Grams(n)
  BY <1>1, <1>2, <1>3, <1>4, SameText
<1> QED BY <1>1, <1>2, <1>5, KeepsPhrases

LEMMA NextPhrasesInv == GramsInv /\ CountsInv /\ PhrasesInv /\ [Next]_vars => PhrasesInv'
<1> SUFFICES ASSUME GramsInv, CountsInv, PhrasesInv, [Next]_vars PROVE PhrasesInv'
  OBVIOUS
<1>1. ASSUME UNCHANGED readerVars, UNCHANGED read, maps' = maps,
             stage' = stage \/ (stage = 0 /\ stage' = 1)
      PROVE  PhrasesInv'
  <2>1. (\A g : N!Occurrences(g)' = N!Occurrences(g)) /\ \A n : N!Grams(n)' = N!Grams(n)
    BY <1>1, CleanupText
  <2>2. stage \in Nat /\ stage' \in Nat
    BY <1>1 DEF GramsInv
  <2> QED BY <1>1, <2>1, <2>2, KeepsPhrases
<1>2. CASE ReadSentence
  BY <1>2, ReadsPhrases
<1>3. CASE StoreSentence
  BY <1>3, StoresPhrases
<1>4. CASE UNCHANGED vars \/ AddToMapping
  BY <1>1, <1>4 DEF vars, AddToMapping, handlerVars
<1>5. ASSUME NEW symbols, NEW n, ProduceMapping(symbols, n) PROVE PhrasesInv'
  BY <1>1, <1>5 DEF ProduceMapping, handlerVars
<1>6. CASE Cleanup
  <2>1. UNCHANGED readerVars
    BY <1>6 DEF Cleanup
  <2>2. CASE N!FinishReading
    BY <1>1, <2>1, <2>2 DEF N!FinishReading
  <2>3. CASE N!RareWords \/ N!LimitWords
    BY <2>1, <2>3, WordStages
  <2>4. CASE N!RarePhrases \/ N!PhrasesOfRareWords
    BY <2>1, <2>4, FrequentStages
  <2>5. CASE N!PhrasesOfRarePrefixes \/ N!FavorLargerPhrases
    BY <2>1, <2>5, PrefixStages
  <2>6. CASE N!LimitPhrases
    BY <2>1, <2>6, LimitsPhrases
  <2> QED BY <1>6, <2>2, <2>3, <2>4, <2>5, <2>6 DEF Cleanup, N!CleanupNGrams
<1>7. CASE ProduceMapping(N!GetSingleWordSymbols, 0) \/ ProduceMapping(N!GetMultiWordSymbols, 1)
  BY <1>5, <1>7
<1> QED BY <1>2, <1>3, <1>4, <1>6, <1>7 DEF Next

\* Whatever the texts and limits, as long as no two n-grams of the text share an
\* entry, the phrase symbols are n-grams of words that are left and that the sentences
\* show often enough, and one of those is missing only if there are as many symbols as
\* indices: the beginnings that stages V and VI ask for are all there, because a
\* beginning occurs wherever its n-gram does and counts as often at least
\* (ExtractAndStoreNGrams, CleanupNGrams).
THEOREM PhrasesAreFrequent == Spec => []FrequentPhrases
<1>1. ASSUME GramsInv, CountsInv, PhrasesInv, stage = 8, N!Apart
      PROVE  N!FrequentPhrases
  <2> DEFINE grams == UNION {N!Grams(n) : n \in 2 .. MaxMultiWords}
             frequent == {g \in grams : /\ N!Occurrences(g) >= MinMulti
                                        /\ \A i \in DOMAIN g : <<g[i]>> \in N!WordSymbols}
  <2>0. /\ ReaderType /\ read \in 0 .. Len(returned) /\ Entries(maps[1], 1)
        /\ \A n \in 2 .. MaxMultiWords : Counts(n) /\ Complete(n) /\ n \in Nat \ {0}
        /\ AsManyAsIndices
    BY <1>1, SizesFacts DEF CountsInv, GramsInv, PhrasesInv
  <2>1. \A word : <<word>> \in N!WordSymbols <=> word \in DOMAIN maps[1]
    <3>1. N!WordSymbols = {<<word>> : word \in DOMAIN maps[1]}
      BY <2>0 DEF N!WordSymbols, N!Left, Entries
    <3> QED BY <3>1
  <2>2. ASSUME NEW g PROVE g \in frequent <=> \E n \in 2 .. MaxMultiWords : FrequentGram(n, g)
    <3>1. ASSUME NEW n \in 2 .. MaxMultiWords, g \in N!Grams(n) PROVE DOMAIN g = 1 .. n
      <4>1. IsGram(g, n)
        BY <2>0, <3>1, GramsType
      <4> QED BY <4>1 DEF IsGram
    <3>2. g \in grams <=> \E n \in 2 .. MaxMultiWords : g \in N!Grams(n)
      OBVIOUS
    <3> HIDE DEF grams
    <3> QED BY <2>1, <3>1, <3>2 DEF FrequentGram
  <2> HIDE DEF frequent
  <2>3. ASSUME NEW g \in N!PhraseSymbols PROVE g \in frequent
    <3>1. PICK n \in 2 .. MaxMultiWords : \E key \in DOMAIN maps[n] : g = maps[n][key].gram
      BY DEF N!PhraseSymbols, N!Left
    <3>2. g \in N!Grams(n) /\ HasEntry(n, g)
      BY <2>0, <3>1 DEF Counts, HasEntry
    <3>3. FrequentGram(n, g)
      BY <1>1, <2>0, <3>2 DEF Complete
    <3> QED BY <2>2, <3>3
  <2>4. ASSUME N!PhraseSymbols # frequent PROVE N!Cardinality(N!PhraseSymbols) = MaxMultiSymbols
    <3>1. PICK g \in frequent : g \notin N!PhraseSymbols
      BY <2>3, <2>4
    <3>2. PICK n \in 2 .. MaxMultiWords : FrequentGram(n, g)
      BY <2>2
    <3>3. ~HasEntry(n, g)
      <4> SUFFICES ASSUME HasEntry(n, g) PROVE g \in N!PhraseSymbols
        BY <3>1
      <4>1. g \in N!Grams(n)
        BY <3>2 DEF FrequentGram
      <4>2. maps[n][N!Key(g)].gram = g
        BY <1>1, <2>0, <4>1, EntryOfGram
      <4>3. N!Key(g) \in DOMAIN maps[n]
        BY DEF HasEntry
      <4> QED BY <4>2, <4>3 DEF N!PhraseSymbols, N!Left
    <3> QED BY <2>0, <3>2, <3>3, InstanceCardinality DEF AsManyAsIndices
  <2>5. N!PhraseSymbols \subseteq frequent
    BY <2>3
  <2> HIDE DEF grams
  <2> QED BY <2>4, <2>5 DEF N!FrequentPhrases, frequent, grams
<1>2. GramsInv /\ CountsInv /\ PhrasesInv => FrequentPhrases
  BY <1>1 DEF FrequentPhrases, N!FrequentPhrases, N!Cleaned
<1> QED BY <1>2, InitGramsInv, NextGramsInv, InitCountsInv, NextCountsInv, InitPhrasesInv,
           NextPhrasesInv, PTL DEF Spec

-----------------------------------------------------------------------------
(***************************************************************************)
(* The tokens of a text are those that the calls of Tokenize find.         *)
(***************************************************************************)
\* The run of characters from p on that are no delimiters.
IsRun(s, p, e) ==
  /\ \A q \in p .. e : s[q] \notin TokenDelimiters
  /\ e = Len(s) \/ s[e + 1] \in TokenDelimiters

LEMMA InsideFacts ==
  ASSUME NEW s \in Line
  PROVE  /\ Len(s) \in Nat /\ DOMAIN s = 1 .. Len(s)
         /\ \A p \in 1 .. Len(s) : Inside(s, p) <=> s[p] \notin TokenDelimiters
         /\ ~Inside(s, 0) /\ ~Inside(s, Len(s) + 1)
<1>1. Len(s) \in Nat /\ DOMAIN s = 1 .. Len(s)
  BY LenProperties DEF Line
<1> QED BY <1>1 DEF Inside

LEMMA RunEndIs ==
  ASSUME NEW s \in Line, NEW p \in 1 .. Len(s), NEW e \in p .. Len(s), IsRun(s, p, e)
  PROVE  RunEnd(s, p) = e
<1> DEFINE Q == {q \in p .. Len(s) : ~Inside(s, q + 1)}
<1>0. Len(s) \in Nat
  BY InsideFacts
<1>1. e \in Q
  <2>1. CASE e = Len(s)
    BY <2>1, InsideFacts
  <2>2. CASE e # Len(s)
    <3>1. e + 1 \in 1 .. Len(s)
      BY <1>0, <2>2
    <3> QED BY <2>2, <3>1, InsideFacts DEF IsRun
  <2> QED BY <2>1, <2>2
<1>2. ASSUME NEW q \in Q PROVE e <= q
  <2> SUFFICES ASSUME q < e PROVE FALSE
    BY <1>0
  <2>1. q + 1 \in p .. e /\ q + 1 \in 1 .. Len(s)
    BY <1>0
  <2>2. Inside(s, q + 1)
    BY <2>1, InsideFacts DEF IsRun
  <2> QED BY <1>2, <2>2
<1>3. Min(Q) \in Q /\ \A q \in Q : Min(Q) <= q
  <2> HIDE DEF Q
  <2> QED BY <1>1, <1>2 DEF Min
<1>4. Min(Q) <= e /\ e <= Min(Q) /\ Min(Q) \in Int
  BY <1>1, <1>2, <1>3
<1>5. RunEnd(s, p) = Min(Q)
  BY DEF RunEnd
<1> HIDE DEF Q
<1> QED BY <1>0, <1>4, <1>5

LEMMA RunExists ==
  ASSUME NEW s \in Line, NEW p \in 1 .. Len(s), s[p] \notin TokenDelimiters
  PROVE  \E e \in p .. Len(s) : IsRun(s, p, e)
<1> DEFINE Q == {q \in p .. Len(s) : ~Inside(s, q + 1)}
<1>0. Len(s) \in Nat
  BY InsideFacts
<1>1. Len(s) \in Q /\ Q \in SUBSET Nat
  BY <1>0, InsideFacts
<1>2. PICK e \in Q : \A q \in Q : e <= q
  <2> HIDE DEF Q
  <2> QED BY <1>1, LeastNatural
<1>3. ASSUME NEW q \in p .. e PROVE s[q] \notin TokenDelimiters
  <2>1. CASE q = p
    BY <2>1
  <2>2. CASE q # p
    <3>1. q - 1 \in p .. Len(s) /\ ~(e <= q - 1) /\ (q - 1) + 1 = q /\ q \in 1 .. Len(s)
      BY <1>0, <2>2
    <3>2. q - 1 \notin Q
      <4> HIDE DEF Q
      <4> QED BY <1>2, <3>1
    <3>3. Inside(s, q)
      BY <3>1, <3>2
    <3> QED BY <3>1, <3>3, InsideFacts
  <2> QED BY <2>1, <2>2
<1>4. e = Len(s) \/ s[e + 1] \in TokenDelimiters
  <2> SUFFICES ASSUME e # Len(s) PROVE s[e + 1] \in TokenDelimiters
    OBVIOUS
  <2>1. e + 1 \in 1 .. Len(s) /\ ~Inside(s, e + 1)
    BY <1>0
  <2> QED BY <2>1, InsideFacts
<1> QED BY <1>3, <1>4 DEF IsRun

\* Where a token begins, there is one, and none elsewhere.
LEMMA TokensAtFacts ==
  ASSUME NEW s \in Line, NEW p \in 1 .. Len(s)
  PROVE  /\ s[p] \in TokenDelimiters => TokensAt(s, p) = <<>>
         /\ p # 1 /\ s[p - 1] \notin TokenDelimiters => TokensAt(s, p) = <<>>
         /\ \A e \in p .. Len(s) :
              IsRun(s, p, e) /\ (p = 1 \/ s[p - 1] \in TokenDelimiters) =>
                TokensAt(s, p) = <<CleanToken(SubSeq(s, p, e))>>
         /\ TokensAt(s, p) \in Seq(Words)
<1>0. Len(s) \in Nat
  BY InsideFacts
<1>1. s[p] \in TokenDelimiters => TokensAt(s, p) = <<>>
  BY InsideFacts DEF TokensAt
<1>2. ASSUME p # 1, s[p - 1] \notin TokenDelimiters PROVE TokensAt(s, p) = <<>>
  <2>1. p - 1 \in 1 .. Len(s)
    BY <1>0, <1>2
  <2>2. Inside(s, p - 1)
    BY <1>2, <2>1, InsideFacts
  <2> QED BY <2>2 DEF TokensAt
<1>3. ASSUME NEW e \in p .. Len(s), IsRun(s, p, e), p = 1 \/ s[p - 1] \in TokenDelimiters
      PROVE  TokensAt(s, p) = <<CleanToken(SubSeq(s, p, e))>>
  <2>1. Inside(s, p)
    <3>1. p \in p .. e
      BY <1>0
    <3> QED BY <1>3, <3>1, InsideFacts DEF IsRun
  <2>2. ~Inside(s, p - 1)
    <3>1. CASE p = 1
      BY <3>1, InsideFacts
    <3>2. CASE p # 1
      <4>1. p - 1 \in 1 .. Len(s)
        BY <1>0, <3>2
      <4> QED BY <1>3, <3>2, <4>1, InsideFacts
    <3> QED BY <3>1, <3>2
  <2>3. RunEnd(s, p) = e
    BY <1>3, RunEndIs
  <2> QED BY <2>1, <2>2, <2>3 DEF TokensAt
<1>4. TokensAt(s, p) \in Seq(Words)
  <2>0. <<>> \in Seq(Words)
    OBVIOUS
  <2>1. CASE s[p] \in TokenDelimiters \/ (p # 1 /\ s[p - 1] \notin TokenDelimiters)
    BY <1>1, <1>2, <2>0, <2>1
  <2>2. CASE s[p] \notin TokenDelimiters /\ (p = 1 \/ s[p - 1] \in TokenDelimiters)
    <3>1. PICK e \in p .. Len(s) : IsRun(s, p, e)
      BY <2>2, RunExists
    <3>2. TokensAt(s, p) = <<CleanToken(SubSeq(s, p, e))>>
      BY <1>3, <2>2, <3>1
    <3>3. SubSeq(s, p, e) \in Seq(Undot \ TokenDelimiters)
      <4>1. \A q \in p .. e : s[q] \in Undot
        BY <1>0, ElementOfSeq DEF Line
      <4>2. \A q \in p .. e : s[q] \in Undot \ TokenDelimiters
        BY <3>1, <4>1 DEF IsRun
      <4>3. p \in Int /\ e \in Int
        BY <1>0
      <4> QED BY <4>2, <4>3, SubSeqProperties
    <3>4. CleanToken(SubSeq(s, p, e)) \in Words
      BY <3>3 DEF Words
    <3> QED BY <3>2, <3>4
  <2> QED BY <2>1, <2>2
<1> QED BY <1>1, <1>2, <1>3, <1>4

\* The tokens at each position.
Parts(s) == [p \in DOMAIN s |-> TokensAt(s, p)]

LEMMA PartsFacts ==
  ASSUME NEW s \in Line
  PROVE  /\ Parts(s) \in Seq(Seq(Words)) /\ Len(Parts(s)) = Len(s)
         /\ \A p \in 1 .. Len(s) : Parts(s)[p] = TokensAt(s, p)
         /\ Tokens(s) = FlattenSeq(Parts(s)) /\ Tokens(s) \in Seq(Words)
<1>1. Len(s) \in Nat /\ DOMAIN s = 1 .. Len(s)
  BY InsideFacts
<1>2. \A p \in 1 .. Len(s) : TokensAt(s, p) \in Seq(Words)
  BY TokensAtFacts
<1>3. Parts(s) \in Seq(Seq(Words)) /\ Len(Parts(s)) = Len(s)
  BY <1>1, <1>2 DEF Parts
<1>4. Tokens(s) = FlattenSeq(Parts(s))
  BY DEF Tokens, Parts
<1> QED BY <1>1, <1>3, <1>4, FlattenType DEF Parts

\* A token begins where the rest of the text does or behind a delimiter, so what the
\* calls find from there on are the tokens of the rest.
LEMMA FindsTokens ==
  ASSUME NEW s \in Line, NEW i \in 1 .. Len(s), i = 1 \/ s[i] \in TokenDelimiters,
         NEW call, NEW begin \in 1 .. Len(s), Finds(s, i, call, begin), CleanToken(call.token) \in Words
  PROVE  \E e \in begin .. Len(s) :
           /\ e = IF call.index = 0 THEN Len(s) ELSE call.index - 1
           /\ FlattenSeq(SubSeq(Parts(s), i, e)) = <<CleanToken(call.token)>>
<1> DEFINE e == IF call.index = 0 THEN Len(s) ELSE call.index - 1
           parts == Parts(s)
           ss == SubSeq(parts, i, e)
           n == begin - i + 1
<1>0. Len(s) \in Nat /\ begin \in i .. Len(s)
  BY InsideFacts DEF Finds
<1>1. e \in begin .. Len(s) /\ IsRun(s, begin, e) /\ call.token = SubSeq(s, begin, e)
  <2>1. CASE call.index = 0
    BY <1>0, <2>1 DEF Finds, IsRun
  <2>2. CASE call.index # 0
    <3>1. call.index \in (begin + 1) .. Len(s) /\ (call.index - 1) + 1 = call.index
      BY <2>2 DEF Finds
    <3> QED BY <1>0, <2>2, <3>1 DEF Finds, IsRun
  <2> QED BY <2>1, <2>2
<1>2. begin = 1 \/ s[begin - 1] \in TokenDelimiters
  <2>1. CASE begin = i
    <3>1. begin \in begin .. e
      BY <1>1
    <3>2. s[begin] \notin TokenDelimiters
      BY <1>1, <3>1 DEF IsRun
    <3> QED BY <2>1, <3>2
  <2>2. CASE begin # i
    <3>1. begin - 1 \in i .. (begin - 1)
      BY <1>0, <2>2
    <3> QED BY <3>1 DEF Finds
  <2> QED BY <2>1, <2>2
<1> HIDE DEF e
<1>3. parts[begin] = <<CleanToken(call.token)>>
  BY <1>1, <1>2, TokensAtFacts, PartsFacts
<1>4. ASSUME NEW p \in i .. e, p # begin PROVE parts[p] = <<>>
  <2>0. p \in 1 .. Len(s) /\ parts[p] = TokensAt(s, p)
    <3>1. p \in 1 .. Len(s)
      BY <1>0, <1>1
    <3> QED BY <3>1, PartsFacts
  <2>1. CASE p < begin
    <3>1. p \in i .. (begin - 1)
      BY <1>0, <1>1, <2>1
    <3> QED BY <2>0, <3>1, TokensAtFacts DEF Finds
  <2>2. CASE p > begin
    <3>1. p - 1 \in begin .. e /\ p # 1
      BY <1>0, <1>1, <2>2
    <3>2. s[p - 1] \notin TokenDelimiters
      BY <1>1, <3>1 DEF IsRun
    <3> QED BY <2>0, <3>1, <3>2, TokensAtFacts
  <2> QED BY <1>0, <1>1, <1>4, <2>1, <2>2
<1>5. /\ ss \in Seq(Seq(Words)) /\ Len(ss) = e - i + 1
      /\ \A k \in 1 .. e - i + 1 : ss[k] = parts[i + k - 1]
  <2>1. \A p \in i .. e : p \in 1 .. Len(s)
    BY <1>0, <1>1
  <2>2. \A p \in i .. e : parts[p] \in Seq(Words)
    BY <2>1, PartsFacts, TokensAtFacts
  <2>3. i \in Int /\ e \in Int /\ i <= e
    BY <1>0, <1>1
  <2> QED BY <2>2, <2>3, SubSeqProperties
<1>6. n \in 1 .. Len(ss) /\ i + n - 1 = begin /\ ss[n] = parts[begin]
  <2>1. n \in 1 .. e - i + 1 /\ i + n - 1 = begin
    BY <1>0, <1>1
  <2> HIDE DEF ss, n
  <2> QED BY <1>5, <2>1
<1>7. \A k \in 1 .. Len(ss) : k # n => ss[k] = <<>>
  <2> HIDE DEF ss, parts
  <2> SUFFICES ASSUME NEW k \in 1 .. Len(ss), k # n PROVE ss[k] = <<>>
    OBVIOUS
  <2>1. k \in 1 .. e - i + 1
    BY <1>5
  <2>2. i + k - 1 \in i .. e /\ i + k - 1 # begin
    BY <1>0, <1>1, <2>1
  <2> QED BY <1>4, <1>5, <2>1, <2>2
<1>8. FlattenSeq(ss) = ss[n]
  <2> HIDE DEF ss, n
  <2> QED BY <1>5, <1>6, <1>7, FlattenOnly
<1> QED BY <1>1, <1>3, <1>6, <1>8 DEF e

LEMMA ExtractTokensFinds ==
  ASSUME NEW s \in Line
  PROVE  ExtractTokens(s) = Tokens(s)
<1> DEFINE l == Len(s)
           Rest(i) == FlattenSeq(SubSeq(Parts(s), i, l))
<1>1. PICK From : Extracts(From, s) /\ ExtractTokens(s) = IF s = <<>> THEN <<>> ELSE From[1]
  BY ExtractTokensFacts
<1> DEFINE Found == {m \in Nat : \A i \in 1 .. l :
                       l - i = m /\ (i = 1 \/ s[i] \in TokenDelimiters) => From[i] = Rest(i)}
<1>0. l \in Nat
  BY InsideFacts
<1>2. \A i \in 0 .. l : From[i] = IF Tokenize(s, i).more
                                  THEN <<CleanToken(Tokenize(s, i).token)>> \o From[Tokenize(s, i).index]
                                  ELSE <<>>
  BY <1>1 DEF Extracts
<1>3. From[0] = <<>>
  <2>1. 0 \in 0 .. l
    BY <1>0
  <2>2. ~Tokenize(s, 0).more
    BY <2>1, TokenizeFacts
  <2> QED BY <1>2, <2>1, <2>2
<1>4. ASSUME NEW m \in Nat, \A k \in Nat : k < m => k \in Found PROVE m \in Found
  <2> SUFFICES ASSUME NEW i \in 1 .. l, l - i = m, i = 1 \/ s[i] \in TokenDelimiters
               PROVE  From[i] = Rest(i)
    OBVIOUS
  <2> HIDE DEF Found
  <2>0. i \in 0 .. l /\ i \in Int /\ i <= l
    BY <1>0
  <2>1. CASE ~Tokenize(s, i).more
    <3>1. \A q \in i .. l : s[q] \in TokenDelimiters /\ q \in 1 .. l
      BY <2>1, TokenizeNone
    <3>2. \A q \in i .. l : Parts(s)[q] = <<>> /\ Parts(s)[q] \in Seq(Words)
      BY <3>1, PartsFacts, TokensAtFacts
    <3>3. /\ SubSeq(Parts(s), i, l) \in Seq(Seq(Words)) /\ Len(SubSeq(Parts(s), i, l)) = l - i + 1
          /\ \A k \in 1 .. l - i + 1 : SubSeq(Parts(s), i, l)[k] = Parts(s)[i + k - 1]
      BY <1>0, <2>0, <3>2, SubSeqProperties
    <3>4. \A k \in 1 .. l - i + 1 : i + k - 1 \in i .. l
      BY <1>0, <2>0
    <3>5. \A k \in 1 .. Len(SubSeq(Parts(s), i, l)) : SubSeq(Parts(s), i, l)[k] = <<>>
      BY <3>2, <3>3, <3>4
    <3>6. Rest(i) = <<>>
      BY <3>3, <3>5, FlattenEmpties
    <3> QED BY <1>2, <2>0, <2>1, <3>6
  <2>2. CASE Tokenize(s, i).more
    <3> DEFINE call == Tokenize(s, i)
    <3>1. PICK begin \in 1 .. l : Finds(s, i, call, begin)
      BY <2>0, <2>2, TokenizeFacts
    <3>2. CleanToken(call.token) \in Words /\ call.index \in {0} \cup (i + 1) .. l
      BY <2>0, <2>2, TokenizeFacts
    <3>3. From[i] = <<CleanToken(call.token)>> \o From[call.index]
      BY <1>2, <2>0, <2>2
    <3>4. begin \in i .. l
      BY <3>1 DEF Finds
    <3> HIDE DEF call
    <3>5. PICK e \in begin .. l : /\ e = IF call.index = 0 THEN l ELSE call.index - 1
                                  /\ FlattenSeq(SubSeq(Parts(s), i, e)) = <<CleanToken(call.token)>>
      BY <3>1, <3>2, FindsTokens
    <3>6. From[call.index] = FlattenSeq(SubSeq(Parts(s), e + 1, l))
      <4>1. CASE call.index = 0
        <5>1. e + 1 > l /\ e + 1 \in Int /\ l \in Int
          BY <1>0, <3>5, <4>1
        <5>2. SubSeq(Parts(s), e + 1, l) = <<>>
          BY <5>1, SubSeqEmpty
        <5> QED BY <1>3, <4>1, <5>2, FlattenNone
      <4>2. CASE call.index # 0
        <5>1. e + 1 = call.index /\ call.index \in 1 .. l /\ l - call.index \in Nat /\ l - call.index < m
          <6>1. call.index \in 1 .. l /\ e = call.index - 1 /\ call.index > i
            BY <1>0, <2>0, <3>2, <3>5, <4>2
          <6> HIDE DEF l
          <6> QED BY <1>0, <2>0, <6>1
        <5>2. s[call.index] \in TokenDelimiters
          BY <3>1, <4>2 DEF Finds
        <5>3. l - call.index \in Found
          BY <1>4, <5>1
        <5>4. \A k \in 1 .. l : l - k = l - call.index /\ s[k] \in TokenDelimiters => From[k] = Rest(k)
          <6> HIDE DEF Rest
          <6> QED BY <5>3 DEF Found
        <5>5. From[call.index] = Rest(call.index)
          <6> HIDE DEF Rest
          <6> QED BY <5>1, <5>2, <5>4
        <5> QED BY <5>1, <5>5
      <4> QED BY <4>1, <4>2
    <3>7. SubSeq(Parts(s), i, l) = SubSeq(Parts(s), i, e) \o SubSeq(Parts(s), e + 1, l)
      <4>1. Parts(s) \in Seq(Seq(Words)) /\ Len(Parts(s)) = l
        BY PartsFacts
      <4>2. i \in 1 .. Len(Parts(s)) + 1 /\ e \in i - 1 .. Len(Parts(s)) /\ l \in e .. Len(Parts(s))
        BY <1>0, <2>0, <3>4, <4>1
      <4> QED BY <4>1, <4>2, ConcatAdjacentSubSeq
    <3>8. SubSeq(Parts(s), i, e) \in Seq(Seq(Words)) /\ SubSeq(Parts(s), e + 1, l) \in Seq(Seq(Words))
      <4>1. \A q \in 1 .. l : Parts(s)[q] \in Seq(Words)
        BY PartsFacts, TokensAtFacts
      <4>2. \A q \in i .. e : Parts(s)[q] \in Seq(Words)
        BY <1>0, <2>0, <3>4, <4>1
      <4>3. \A q \in (e + 1) .. l : Parts(s)[q] \in Seq(Words)
        BY <1>0, <2>0, <3>4, <4>1
      <4>4. i \in Int /\ e \in Int /\ e + 1 \in Int /\ l \in Int
        BY <1>0, <2>0, <3>4
      <4> QED BY <4>2, <4>3, <4>4, SubSeqProperties
    <3>9. Rest(i) = FlattenSeq(SubSeq(Parts(s), i, e)) \o FlattenSeq(SubSeq(Parts(s), e + 1, l))
      BY <3>7, <3>8, FlattenConcat
    <3> QED BY <3>3, <3>5, <3>6, <3>9
  <2> QED BY <2>1, <2>2
<1>5. \A m \in Nat : m \in Found
  <2> HIDE DEF Found
  <2> QED BY <1>4, CompleteInduction
<1>6. CASE s = <<>>
  <2>1. Parts(s) = <<>>
    <3>1. Parts(s) \in Seq(Seq(Words)) /\ Len(Parts(s)) = 0
      BY <1>6, PartsFacts
    <3> HIDE DEF Parts
    <3> QED BY <3>1, EmptySeq
  <2> QED BY <1>1, <1>6, <2>1, PartsFacts, FlattenNone
<1>7. CASE s # <<>>
  <2>1. 1 \in 1 .. l
    BY <1>0, <1>7, EmptySeq DEF Line
  <2>2. l - 1 \in Nat
    BY <1>0, <2>1
  <2>3. From[1] = Rest(1)
    BY <1>5, <2>1, <2>2
  <2>4. SubSeq(Parts(s), 1, l) = Parts(s)
    BY PartsFacts, SubSeqFull
  <2> QED BY <1>1, <1>7, <2>3, <2>4, PartsFacts
<1> QED BY <1>6, <1>7

\* Delimiters at the end of a text add no token.
LEMMA TokensFirst ==
  ASSUME NEW s \in Line, NEW n \in 0 .. Len(s), \A q \in (n + 1) .. Len(s) : s[q] \in TokenDelimiters
  PROVE  SubSeq(s, 1, n) \in Line /\ Tokens(s) = Tokens(SubSeq(s, 1, n))
<1> DEFINE u == SubSeq(s, 1, n)
<1>0. Len(s) \in Nat /\ n \in Nat /\ n <= Len(s) /\ n \in Int
  BY InsideFacts
<1>1. u \in Line /\ Len(u) = n /\ \A p \in 1 .. n : u[p] = s[p]
  <2>1. \A p \in 1 .. n : s[p] \in Undot
    BY <1>0, ElementOfSeq DEF Line
  <2>2. /\ u \in Seq(Undot) /\ Len(u) = IF 1 <= n THEN n - 1 + 1 ELSE 0
        /\ \A p \in 1 .. n - 1 + 1 : u[p] = s[1 + p - 1]
    BY <1>0, <2>1, SubSeqProperties
  <2> HIDE DEF u
  <2>3. \A p \in 1 .. n : p \in 1 .. n - 1 + 1 /\ 1 + p - 1 = p
    BY <1>0
  <2> QED BY <1>0, <2>2, <2>3 DEF Line
<1>2. ASSUME NEW p \in 1 .. n, NEW e \in p .. n PROVE SubSeq(u, p, e) = SubSeq(s, p, e)
  <2>1. /\ 1 \in 1 .. Len(s) /\ n \in 1 .. Len(s) /\ p \in 1 .. n - 1 + 1 /\ e \in 1 .. n - 1 + 1
        /\ 1 + p - 1 = p /\ 1 + e - 1 = e
    BY <1>0
  <2>2. SubSeq(SubSeq(s, 1, n), p, e) = SubSeq(s, 1 + p - 1, 1 + e - 1)
    BY <2>1, SubSeqOfSubSeq DEF Line
  <2> QED BY <2>1, <2>2
<1> HIDE DEF u
<1>3. ASSUME NEW p \in 1 .. n PROVE TokensAt(s, p) = TokensAt(u, p)
  <2>0. p \in 1 .. Len(s) /\ p \in 1 .. Len(u) /\ u[p] = s[p] /\ (p # 1 => u[p - 1] = s[p - 1])
    <3>1. p # 1 => p - 1 \in 1 .. n
      BY <1>0
    <3> QED BY <1>0, <1>1, <3>1
  <2>1. CASE s[p] \in TokenDelimiters \/ (p # 1 /\ s[p - 1] \notin TokenDelimiters)
    BY <1>1, <2>0, <2>1, TokensAtFacts
  <2>2. CASE s[p] \notin TokenDelimiters /\ (p = 1 \/ s[p - 1] \in TokenDelimiters)
    <3>1. PICK e \in p .. Len(s) : IsRun(s, p, e)
      BY <2>0, <2>2, RunExists
    <3>2. e <= n
      <4> SUFFICES ASSUME e > n PROVE FALSE
        BY <1>0
      <4>1. e \in (n + 1) .. Len(s) /\ e \in p .. e
        BY <1>0
      <4> QED BY <3>1, <4>1 DEF IsRun
    <3>3. IsRun(u, p, e)
      <4>1. \A q \in p .. e : u[q] = s[q]
        BY <1>0, <1>1, <3>2
      <4>2. e = Len(u) \/ u[e + 1] \in TokenDelimiters
        <5>1. CASE e = n
          BY <1>1, <5>1
        <5>2. CASE e # n
          <6>1. e + 1 \in 1 .. n /\ e # Len(s)
            BY <1>0, <3>2, <5>2
          <6> QED BY <1>1, <3>1, <6>1 DEF IsRun
        <5> QED BY <5>1, <5>2
      <4> QED BY <3>1, <4>1, <4>2 DEF IsRun
    <3>4. e \in p .. Len(u) /\ e \in p .. n
      BY <1>0, <1>1, <3>2
    <3>5. TokensAt(s, p) = <<CleanToken(SubSeq(s, p, e))>>
      BY <2>0, <2>2, <3>1, TokensAtFacts
    <3>6. TokensAt(u, p) = <<CleanToken(SubSeq(u, p, e))>>
      BY <1>1, <2>0, <2>2, <3>3, <3>4, TokensAtFacts
    <3> QED BY <1>2, <3>4, <3>5, <3>6
  <2> QED BY <2>1, <2>2
<1>4. SubSeq(Parts(s), 1, n) = Parts(u)
  <2>1. \A p \in 1 .. n : Parts(s)[p] \in Seq(Words) /\ p \in 1 .. Len(s)
    BY <1>0, PartsFacts, TokensAtFacts
  <2>2. /\ SubSeq(Parts(s), 1, n) \in Seq(Seq(Words))
        /\ Len(SubSeq(Parts(s), 1, n)) = IF 1 <= n THEN n - 1 + 1 ELSE 0
        /\ \A p \in 1 .. n - 1 + 1 : SubSeq(Parts(s), 1, n)[p] = Parts(s)[1 + p - 1]
    BY <1>0, <2>1, SubSeqProperties
  <2>3. Parts(u) \in Seq(Seq(Words)) /\ Len(Parts(u)) = n /\ \A p \in 1 .. n : Parts(u)[p] = TokensAt(u, p)
    BY <1>1, PartsFacts
  <2>4. \A p \in 1 .. n : p \in 1 .. n - 1 + 1 /\ 1 + p - 1 = p
    BY <1>0
  <2>5. Len(SubSeq(Parts(s), 1, n)) = n
    BY <1>0, <2>2
  <2>6. \A p \in 1 .. n : SubSeq(Parts(s), 1, n)[p] = Parts(u)[p]
    BY <1>3, <2>1, <2>2, <2>3, <2>4, PartsFacts
  <2> QED BY <2>2, <2>3, <2>5, <2>6, SeqEqual
<1>5. FlattenSeq(Parts(s)) = FlattenSeq(SubSeq(Parts(s), 1, n))
  <2>1. n \in 0 .. Len(Parts(s)) /\ Parts(s) \in Seq(Seq(Words)) /\ Len(Parts(s)) = Len(s)
    BY PartsFacts
  <2>2. \A q \in (n + 1) .. Len(s) : q \in 1 .. Len(s)
    BY <1>0
  <2>3. \A q \in (n + 1) .. Len(Parts(s)) : Parts(s)[q] = <<>>
    BY <2>1, <2>2, PartsFacts, TokensAtFacts
  <2> QED BY <2>1, <2>3, FlattenFirst
<1> QED BY <1>1, <1>4, <1>5, PartsFacts DEF u

-----------------------------------------------------------------------------
(***************************************************************************)
(* The sentences of a text, of which the first ones say what was said.     *)
(***************************************************************************)
\* A sentence begins where the text does or behind a delimiter.
Begins(s, b, e) ==
  /\ \A p \in b .. (e - 1) : s[p] # Stop
  /\ b = 1 \/ s[b - 1] = Stop

LEMMA BeginIs ==
  ASSUME NEW s \in Line, NEW e \in 1 .. Len(s), NEW b \in 1 .. e, Begins(s, b, e)
  PROVE  SentenceBegin(s, e) = b
<1> DEFINE B == {c \in 1 .. e : \A p \in c .. (e - 1) : s[p] # Stop}
<1>0. Len(s) \in Nat
  BY InsideFacts
<1>1. b \in B
  BY DEF Begins
<1>2. ASSUME NEW c \in B PROVE b <= c
  <2> SUFFICES ASSUME c < b PROVE FALSE
    BY <1>0
  <2>1. b - 1 \in c .. (e - 1) /\ b # 1
    BY <1>0
  <2> QED BY <1>2, <2>1 DEF Begins
<1>3. Min(B) \in B /\ \A c \in B : Min(B) <= c
  <2> HIDE DEF B
  <2> QED BY <1>1, <1>2 DEF Min
<1>4. Min(B) <= b /\ b <= Min(B) /\ Min(B) \in Int
  <2>1. Min(B) <= b /\ b <= Min(B)
    <3> HIDE DEF B
    <3> QED BY <1>1, <1>2, <1>3
  <2>2. Min(B) \in Int
    BY <1>3
  <2> QED BY <2>1, <2>2
<1>5. SentenceBegin(s, e) = Min(B)
  BY DEF SentenceBegin
<1> HIDE DEF B
<1> QED BY <1>0, <1>4, <1>5

LEMMA BeginExists ==
  ASSUME NEW s \in Line, NEW e \in 1 .. Len(s)
  PROVE  \E b \in 1 .. e : Begins(s, b, e)
<1> DEFINE B == {c \in 1 .. e : \A p \in c .. (e - 1) : s[p] # Stop}
<1>0. Len(s) \in Nat
  BY InsideFacts
<1>1. e \in B /\ B \in SUBSET Nat
  BY <1>0
<1>2. PICK b \in B : \A c \in B : b <= c
  <2> HIDE DEF B
  <2> QED BY <1>1, LeastNatural
<1>3. b = 1 \/ s[b - 1] = Stop
  <2> SUFFICES ASSUME b # 1, s[b - 1] # Stop PROVE FALSE
    OBVIOUS
  <2>1. b - 1 \in 1 .. e /\ ~(b <= b - 1)
    BY <1>0
  <2>2. \A p \in (b - 1) .. (e - 1) : p = b - 1 \/ p \in b .. (e - 1)
    BY <1>0
  <2>3. b - 1 \in B
    BY <2>1, <2>2
  <2> HIDE DEF B
  <2> QED BY <1>2, <2>1, <2>3
<1>4. b \in 1 .. e /\ \A p \in b .. (e - 1) : s[p] # Stop
  OBVIOUS
<1> QED BY <1>3, <1>4 DEF Begins

\* What ends at a position.
LEMMA SentencesAtFacts ==
  ASSUME NEW s \in Line, NEW e \in 1 .. Len(s)
  PROVE  /\ s[e] # Stop => SentencesAt(s, e) = <<>>
         /\ \A b \in 1 .. e : Begins(s, b, e) =>
              /\ SubSeq(s, b, e - 1) \in Line
              /\ s[e] = Stop => SentencesAt(s, e) = <<Tokens(SubSeq(s, b, e - 1))>>
         /\ SentencesAt(s, e) \in Seq(Seq(Words))
<1>0. Len(s) \in Nat
  BY InsideFacts
<1>1. s[e] # Stop => SentencesAt(s, e) = <<>>
  BY DEF SentencesAt
<1>2. ASSUME NEW b \in 1 .. e
      PROVE  SubSeq(s, b, e - 1) \in Line
  <2>1. \A p \in b .. (e - 1) : s[p] \in Undot
    BY <1>0, ElementOfSeq DEF Line
  <2>2. b \in Int /\ e - 1 \in Int
    BY <1>0
  <2> QED BY <2>1, <2>2, SubSeqProperties DEF Line
<1>3. ASSUME NEW b \in 1 .. e, Begins(s, b, e), s[e] = Stop
      PROVE  SentencesAt(s, e) = <<Tokens(SubSeq(s, b, e - 1))>>
  <2>1. SentenceBegin(s, e) = b
    BY <1>3, BeginIs
  <2> QED BY <1>3, <2>1 DEF SentencesAt
<1>4. SentencesAt(s, e) \in Seq(Seq(Words))
  <2>1. PICK b \in 1 .. e : Begins(s, b, e)
    BY BeginExists
  <2>2. Tokens(SubSeq(s, b, e - 1)) \in Seq(Words)
    BY <1>2, PartsFacts
  <2>3. <<>> \in Seq(Seq(Words)) /\ <<Tokens(SubSeq(s, b, e - 1))>> \in Seq(Seq(Words))
    BY <2>2
  <2> QED BY <1>1, <1>3, <2>1, <2>3
<1> QED BY <1>1, <1>2, <1>3, <1>4

\* The sentences at each position.
Ended(s) == [e \in DOMAIN s |-> SentencesAt(s, e)]

LEMMA EndedFacts ==
  ASSUME NEW s \in Line
  PROVE  /\ Ended(s) \in Seq(Seq(Seq(Words))) /\ Len(Ended(s)) = Len(s)
         /\ \A e \in 1 .. Len(s) : Ended(s)[e] = SentencesAt(s, e)
         /\ Sentences(s) = FlattenSeq(Ended(s)) /\ Sentences(s) \in Seq(Seq(Words))
<1>1. Len(s) \in Nat /\ DOMAIN s = 1 .. Len(s)
  BY InsideFacts
<1>2. \A e \in 1 .. Len(s) : SentencesAt(s, e) \in Seq(Seq(Words))
  BY SentencesAtFacts
<1>3. Ended(s) \in Seq(Seq(Seq(Words))) /\ Len(Ended(s)) = Len(s)
  BY <1>1, <1>2 DEF Ended
<1>4. Sentences(s) = FlattenSeq(Ended(s))
  BY DEF Sentences, Ended
<1> QED BY <1>1, <1>3, <1>4, FlattenType DEF Ended

\* No sentence ends in a text without delimiter.
LEMMA SentencesNone ==
  ASSUME NEW s \in Line, Stops(s) = {}
  PROVE  Sentences(s) = <<>>
<1>1. \A e \in 1 .. Len(s) : s[e] # Stop
  BY InsideFacts DEF Stops
<1>2. \A e \in 1 .. Len(Ended(s)) : Ended(s)[e] = <<>>
  BY <1>1, EndedFacts, SentencesAtFacts
<1> QED BY <1>2, EndedFacts, FlattenEmpties

\* A text ends in a delimiter, or nothing is left of it.
Whole(s) == s = <<>> \/ s[Len(s)] = Stop

\* Behind a complete text, the sentences are those of what follows.
LEMMA SentencesConcat ==
  ASSUME NEW a \in Line, NEW b \in Line, Whole(a)
  PROVE  a \o b \in Line /\ Sentences(a \o b) = Sentences(a) \o Sentences(b)
<1> DEFINE c == a \o b
           l == Len(a)
<1>0. /\ l \in Nat /\ Len(b) \in Nat /\ c \in Line /\ Len(c) = l + Len(b)
      /\ \A p \in 1 .. l : c[p] = a[p]
      /\ \A p \in 1 .. Len(b) : c[l + p] = b[p]
  <2>1. l \in Nat /\ Len(b) \in Nat
    BY InsideFacts
  <2>2. /\ c \in Line /\ Len(c) = l + Len(b)
        /\ \A p \in 1 .. l + Len(b) : c[p] = IF p <= l THEN a[p] ELSE b[p - l]
    BY ConcatProperties DEF Line
  <2>3. \A p \in 1 .. l : p \in 1 .. l + Len(b) /\ p <= l
    BY <2>1
  <2>4. \A p \in 1 .. Len(b) : l + p \in 1 .. l + Len(b) /\ ~(l + p <= l) /\ (l + p) - l = p
    BY <2>1
  <2> HIDE DEF c, l
  <2> QED BY <2>1, <2>2, <2>3, <2>4
<1>1. ASSUME NEW e \in 1 .. l PROVE SentencesAt(c, e) = SentencesAt(a, e)
  <2>0. e \in 1 .. Len(a) /\ e \in 1 .. Len(c) /\ c[e] = a[e]
    BY <1>0
  <2>1. PICK f \in 1 .. e : Begins(a, f, e)
    BY BeginExists
  <2>2. Begins(c, f, e)
    <3>1. \A p \in f .. (e - 1) : c[p] = a[p]
      BY <1>0
    <3>2. f # 1 => c[f - 1] = a[f - 1]
      BY <1>0
    <3> HIDE DEF c
    <3> QED BY <2>1, <3>1, <3>2 DEF Begins
  <2>3. SubSeq(c, f, e - 1) = SubSeq(a, f, e - 1)
    <3>1. CASE e - 1 < f
      <4>1. f \in Int /\ e - 1 \in Int
        OBVIOUS
      <4> QED BY <3>1, <4>1, SubSeqEmpty
    <3>2. CASE e - 1 >= f
      <4>1. f \in 1 .. Len(a) /\ e - 1 \in 1 .. Len(a)
        BY <1>0, <3>2
      <4> QED BY <4>1, SubSeqOfConcat1 DEF Line
    <3> QED BY <3>1, <3>2
  <2> HIDE DEF c
  <2> QED BY <1>0, <2>0, <2>1, <2>2, <2>3, SentencesAtFacts
<1>2. ASSUME NEW q \in 1 .. Len(b) PROVE SentencesAt(c, l + q) = SentencesAt(b, q)
  <2> DEFINE e == l + q
  <2>0. e \in 1 .. Len(c) /\ c[e] = b[q]
    BY <1>0
  <2>1. PICK f \in 1 .. q : Begins(b, f, q)
    BY BeginExists
  <2>2. Begins(c, l + f, e)
    <3>1. ASSUME NEW p \in (l + f) .. (e - 1) PROVE c[p] # Stop
      <4>1. p - l \in f .. (q - 1) /\ p - l \in 1 .. Len(b) /\ l + (p - l) = p
        BY <1>0
      <4>2. c[p] = b[p - l]
        BY <1>0, <4>1
      <4> HIDE DEF c
      <4> QED BY <2>1, <4>1, <4>2 DEF Begins
    <3>2. l + f = 1 \/ c[(l + f) - 1] = Stop
      <4>1. CASE f = 1 /\ a = <<>>
        <5>1. l = 0
          BY <4>1
        <5> QED BY <4>1, <5>1
      <4>2. CASE f = 1 /\ a # <<>>
        <5>1. l # 0 /\ (l + f) - 1 = l
          BY <1>0, <4>2, EmptySeq DEF Line
        <5>2. l \in 1 .. l /\ a[l] = Stop
          BY <1>0, <4>2, <5>1 DEF Whole
        <5> HIDE DEF c, l
        <5> QED BY <1>0, <5>1, <5>2
      <4>3. CASE f # 1
        <5>1. f - 1 \in 1 .. Len(b) /\ l + (f - 1) = (l + f) - 1
          BY <1>0, <4>3
        <5>2. b[f - 1] = Stop
          BY <2>1, <4>3 DEF Begins
        <5>3. c[l + (f - 1)] = b[f - 1]
          BY <1>0, <5>1
        <5> HIDE DEF c, l
        <5> QED BY <5>1, <5>2, <5>3
      <4> QED BY <4>1, <4>2, <4>3
    <3> HIDE DEF c, e, l
    <3> QED BY <3>1, <3>2 DEF Begins
  <2>3. SubSeq(c, l + f, e - 1) = SubSeq(b, f, q - 1)
    <3>1. CASE q - 1 < f
      <4>1. f \in Int /\ q - 1 \in Int /\ l + f \in Int /\ e - 1 \in Int /\ e - 1 < l + f
        BY <1>0, <3>1
      <4> QED BY <3>1, <4>1, SubSeqEmpty
    <3>2. CASE q - 1 >= f
      <4>1. /\ l + f \in l + 1 .. l + Len(b) /\ e - 1 \in l + 1 .. l + Len(b)
            /\ (l + f) - l = f /\ (e - 1) - l = q - 1
        BY <1>0, <3>2
      <4>2. SubSeq(a \o b, l + f, e - 1) = SubSeq(b, (l + f) - l, (e - 1) - l)
        BY <4>1, SubSeqOfConcat2 DEF Line
      <4> QED BY <4>1, <4>2
    <3> QED BY <3>1, <3>2
  <2>4. l + f \in 1 .. e
    BY <1>0
  <2> HIDE DEF c, e, l
  <2>5. SentencesAt(c, e) = SentencesAt(b, q)
    BY <1>0, <2>0, <2>1, <2>2, <2>3, <2>4, SentencesAtFacts
  <2> QED BY <2>5 DEF e
<1>3. Ended(c) = Ended(a) \o Ended(b)
  <2>1. /\ Ended(c) \in Seq(Seq(Seq(Words))) /\ Len(Ended(c)) = l + Len(b)
        /\ \A e \in 1 .. l + Len(b) : Ended(c)[e] = SentencesAt(c, e)
    BY <1>0, EndedFacts
  <2>2. /\ Ended(a) \in Seq(Seq(Seq(Words))) /\ Len(Ended(a)) = l
        /\ Ended(b) \in Seq(Seq(Seq(Words))) /\ Len(Ended(b)) = Len(b)
        /\ \A e \in 1 .. l : Ended(a)[e] = SentencesAt(a, e)
        /\ \A e \in 1 .. Len(b) : Ended(b)[e] = SentencesAt(b, e)
    BY EndedFacts
  <2> DEFINE j == Ended(a) \o Ended(b)
  <2>3. /\ j \in Seq(Seq(Seq(Words))) /\ Len(j) = l + Len(b)
        /\ \A e \in 1 .. l + Len(b) : j[e] = IF e <= l THEN Ended(a)[e] ELSE Ended(b)[e - l]
    <3>1. /\ j \in Seq(Seq(Seq(Words))) /\ Len(j) = Len(Ended(a)) + Len(Ended(b))
          /\ \A e \in 1 .. Len(Ended(a)) + Len(Ended(b)) :
               j[e] = IF e <= Len(Ended(a)) THEN Ended(a)[e] ELSE Ended(b)[e - Len(Ended(a))]
      <4>1. Ended(a) \in Seq(Seq(Seq(Words))) /\ Ended(b) \in Seq(Seq(Seq(Words)))
        BY EndedFacts
      <4> HIDE DEF c, l
      <4> QED BY <4>1, ConcatProperties
    <3> HIDE DEF j, l
    <3> QED BY <2>2, <3>1
  <2> HIDE DEF c, l, j
  <2>4. ASSUME NEW e \in 1 .. l + Len(b) PROVE Ended(c)[e] = j[e]
    <3>1. CASE e <= l
      <4>1. e \in 1 .. l
        BY <1>0, <3>1
      <4> QED BY <1>1, <2>1, <2>2, <2>3, <3>1, <4>1
    <3>2. CASE e > l
      <4>1. e - l \in 1 .. Len(b) /\ l + (e - l) = e /\ ~(e <= l)
        BY <1>0, <3>2
      <4>2. SentencesAt(c, l + (e - l)) = SentencesAt(b, e - l)
        BY <1>2, <4>1
      <4> QED BY <2>1, <2>2, <2>3, <4>1, <4>2
    <3> QED BY <1>0, <3>1, <3>2
  <2>5. Ended(c) = j
    BY <2>1, <2>3, <2>4, SeqEqual
  <2> QED BY <2>5 DEF j
<1>4. FlattenSeq(Ended(a) \o Ended(b)) = FlattenSeq(Ended(a)) \o FlattenSeq(Ended(b))
  BY EndedFacts, FlattenConcat
<1> HIDE DEF c
<1>5. Sentences(c) = Sentences(a) \o Sentences(b)
  BY <1>0, <1>3, <1>4, EndedFacts
<1> QED BY <1>0, <1>5 DEF c

\* Said leaves out what is empty.
Kept(ss) == [k \in DOMAIN ss |-> IF ss[k] = <<>> THEN <<>> ELSE <<ss[k]>>]

LEMMA KeptFacts ==
  ASSUME NEW ss \in Seq(Seq(Words))
  PROVE  /\ Kept(ss) \in Seq(Seq(Seq(Words))) /\ Len(Kept(ss)) = Len(ss)
         /\ Said(ss) = FlattenSeq(Kept(ss)) /\ Said(ss) \in Seq(Seq(Words))
         /\ \A k \in 1 .. Len(ss) : Kept(ss)[k] = IF ss[k] = <<>> THEN <<>> ELSE <<ss[k]>>
<1>1. Len(ss) \in Nat /\ DOMAIN ss = 1 .. Len(ss)
  BY LenProperties
<1>2. \A k \in 1 .. Len(ss) : ss[k] \in Seq(Words)
  BY ElementOfSeq
<1>3. \A k \in 1 .. Len(ss) : (IF ss[k] = <<>> THEN <<>> ELSE <<ss[k]>>) \in Seq(Seq(Words))
  <2>1. <<>> \in Seq(Seq(Words))
    OBVIOUS
  <2>2. \A k \in 1 .. Len(ss) : <<ss[k]>> \in Seq(Seq(Words))
    BY <1>2
  <2> QED BY <2>1, <2>2
<1>4. Kept(ss) \in Seq(Seq(Seq(Words))) /\ Len(Kept(ss)) = Len(ss)
  BY <1>1, <1>3 DEF Kept
<1>5. Said(ss) = FlattenSeq(Kept(ss))
  BY DEF Said, Kept
<1> QED BY <1>1, <1>4, <1>5, FlattenType DEF Kept

LEMMA SaidConcat ==
  ASSUME NEW ss \in Seq(Seq(Words)), NEW tt \in Seq(Seq(Words))
  PROVE  ss \o tt \in Seq(Seq(Words)) /\ Said(ss \o tt) = Said(ss) \o Said(tt)
<1> DEFINE uu == ss \o tt
           j == Kept(ss) \o Kept(tt)
           l == Len(ss)
           n == Len(ss) + Len(tt)
<1>0. l \in Nat /\ Len(tt) \in Nat
  BY LenProperties
<1>1. /\ uu \in Seq(Seq(Words)) /\ Len(uu) = n
      /\ \A k \in 1 .. n : uu[k] = IF k <= l THEN ss[k] ELSE tt[k - l]
  BY ConcatProperties
<1>2. /\ Kept(ss) \in Seq(Seq(Seq(Words))) /\ Len(Kept(ss)) = l
      /\ Kept(tt) \in Seq(Seq(Seq(Words))) /\ Len(Kept(tt)) = Len(tt)
  BY KeptFacts
<1>3. /\ j \in Seq(Seq(Seq(Words))) /\ Len(j) = n
      /\ \A k \in 1 .. n : j[k] = IF k <= l THEN Kept(ss)[k] ELSE Kept(tt)[k - l]
  <2>1. /\ j \in Seq(Seq(Seq(Words))) /\ Len(j) = Len(Kept(ss)) + Len(Kept(tt))
        /\ \A k \in 1 .. Len(Kept(ss)) + Len(Kept(tt)) :
             j[k] = IF k <= Len(Kept(ss)) THEN Kept(ss)[k] ELSE Kept(tt)[k - Len(Kept(ss))]
    BY <1>2, ConcatProperties
  <2> HIDE DEF j
  <2> QED BY <1>2, <2>1
<1> HIDE DEF uu, j, n
<1>4. /\ Kept(uu) \in Seq(Seq(Seq(Words))) /\ Len(Kept(uu)) = n
      /\ \A k \in 1 .. n : Kept(uu)[k] = IF uu[k] = <<>> THEN <<>> ELSE <<uu[k]>>
  BY <1>1, KeptFacts
<1>5. ASSUME NEW k \in 1 .. n PROVE Kept(uu)[k] = j[k]
  <2>1. CASE k <= l
    <3>1. k \in 1 .. Len(ss)
      BY <1>0, <2>1
    <3>2. Kept(ss)[k] = IF ss[k] = <<>> THEN <<>> ELSE <<ss[k]>>
      BY <3>1, KeptFacts
    <3> QED BY <1>1, <1>3, <1>4, <2>1, <3>2
  <2>2. CASE ~(k <= l)
    <3>1. k - l \in 1 .. Len(tt)
      BY <1>0, <2>2 DEF n
    <3>2. Kept(tt)[k - l] = IF tt[k - l] = <<>> THEN <<>> ELSE <<tt[k - l]>>
      BY <3>1, KeptFacts
    <3> QED BY <1>1, <1>3, <1>4, <2>2, <3>2
  <2> QED BY <2>1, <2>2
<1>6. Kept(uu) = j
  BY <1>3, <1>4, <1>5, SeqEqual
<1>7. FlattenSeq(Kept(ss) \o Kept(tt)) = FlattenSeq(Kept(ss)) \o FlattenSeq(Kept(tt))
  BY <1>2, FlattenConcat
<1>8. Said(uu) = FlattenSeq(Kept(uu))
  BY <1>1, KeptFacts
<1>9. Said(ss) = FlattenSeq(Kept(ss)) /\ Said(tt) = FlattenSeq(Kept(tt))
  BY KeptFacts
<1> QED BY <1>1, <1>6, <1>7, <1>8, <1>9 DEF uu, j

\* Empty sentences are not said.
LEMMA SaidNothing ==
  ASSUME NEW ss \in Seq({<<>>})
  PROVE  ss \in Seq(Seq(Words)) /\ Said(ss) = <<>>
<1>1. Len(ss) \in Nat /\ \A k \in 1 .. Len(ss) : ss[k] = <<>>
  BY LenProperties, ElementOfSeq
<1>2. ss \in Seq(Seq(Words))
  <2>1. <<>> \in Seq(Words)
    OBVIOUS
  <2>2. \A k \in 1 .. Len(ss) : ss[k] \in Seq(Words)
    BY <1>1, <2>1
  <2>3. SubSeq(ss, 1, Len(ss)) \in Seq(Seq(Words))
    BY <1>1, <2>2, SubSeqProperties
  <2> QED BY <2>3, SubSeqFull
<1>3. \A k \in 1 .. Len(Kept(ss)) : Kept(ss)[k] = <<>>
  BY <1>1, <1>2, KeptFacts
<1> QED BY <1>2, <1>3, KeptFacts, FlattenEmpties

-----------------------------------------------------------------------------
(***************************************************************************)
(* A cut says the sentence that it takes out of the text.                  *)
(***************************************************************************)
LEMMA PartOfLine ==
  ASSUME NEW s \in Line, NEW m \in 1 .. Len(s) + 1, NEW n \in (m - 1) .. Len(s)
  PROVE  /\ SubSeq(s, m, n) \in Line /\ Len(SubSeq(s, m, n)) = n - m + 1
         /\ \A p \in 1 .. n - m + 1 : SubSeq(s, m, n)[p] = s[m + p - 1]
<1>0. Len(s) \in Nat /\ m \in Int /\ n \in Int /\ m - 1 <= n
  BY InsideFacts
<1>1. \A p \in m .. n : s[p] \in Undot
  <2>1. \A p \in m .. n : p \in 1 .. Len(s)
    BY <1>0
  <2> QED BY <2>1, ElementOfSeq DEF Line
<1>2. /\ SubSeq(s, m, n) \in Seq(Undot) /\ Len(SubSeq(s, m, n)) = IF m <= n THEN n - m + 1 ELSE 0
      /\ \A p \in 1 .. n - m + 1 : SubSeq(s, m, n)[p] = s[m + p - 1]
  BY <1>0, <1>1, SubSeqProperties
<1>3. (IF m <= n THEN n - m + 1 ELSE 0) = n - m + 1
  BY <1>0
<1> QED BY <1>2, <1>3 DEF Line

\* Where a phrase ends.
LEMMA PhraseEnds ==
  ASSUME NEW s \in Line, Stops(s) # {}
  PROVE  /\ EndOfPhase(s) \in 1 .. Len(s)
         /\ \E first \in 1 .. EndOfPhase(s) :
              /\ \A p \in 1 .. (first - 1) : s[p] # Stop
              /\ \A p \in first .. EndOfPhase(s) : s[p] = Stop
<1> DEFINE first == Min(Stops(s))
           behind == {p \in DOMAIN s : p > first /\ s[p] # Stop}
           end == EndOfPhase(s)
<1>0. Len(s) \in Nat /\ DOMAIN s = 1 .. Len(s)
  BY InsideFacts
<1>1. ASSUME NEW T \in SUBSET (1 .. Len(s)), T # {}
      PROVE  Min(T) \in T /\ \A n \in T : Min(T) <= n
  <2>1. T \in SUBSET Nat
    BY <1>0
  <2>2. PICK m \in T : \A n \in T : m <= n
    BY <1>1, <2>1, LeastNatural
  <2> QED BY <2>2 DEF Min
<1>2. first \in 1 .. Len(s) /\ s[first] = Stop /\ \A p \in Stops(s) : first <= p
  <2>1. Stops(s) \in SUBSET (1 .. Len(s))
    BY <1>0 DEF Stops
  <2>2. first \in Stops(s) /\ \A p \in Stops(s) : first <= p
    BY <1>1, <2>1
  <2> HIDE DEF first
  <2> QED BY <2>1, <2>2 DEF Stops
<1>3. end = IF behind = {} THEN first ELSE Min(behind) - 1
  BY DEF EndOfPhase
<1> HIDE DEF first, end
<1>4. \A p \in 1 .. (first - 1) : s[p] # Stop
  <2> SUFFICES ASSUME NEW p \in 1 .. (first - 1), s[p] = Stop PROVE FALSE
    OBVIOUS
  <2>1. p \in 1 .. Len(s) /\ ~(first <= p)
    BY <1>0, <1>2
  <2>2. p \in Stops(s)
    BY <1>0, <2>1 DEF Stops
  <2> QED BY <1>2, <2>1, <2>2
<1>5. end \in first .. Len(s) /\ \A p \in first .. end : s[p] = Stop
  <2>1. CASE behind = {}
    <3>1. end = first
      BY <1>3, <2>1
    <3>2. \A p \in first .. end : p = first
      BY <1>2, <3>1
    <3> QED BY <1>0, <1>2, <3>1, <3>2
  <2>2. CASE behind # {}
    <3>1. behind \in SUBSET (1 .. Len(s))
      BY <1>0
    <3>2. Min(behind) \in behind /\ \A p \in behind : Min(behind) <= p
      BY <1>1, <2>2, <3>1
    <3> DEFINE least == Min(behind)
    <3>3. least \in 1 .. Len(s) /\ least > first /\ end = least - 1
      BY <1>0, <1>3, <2>2, <3>2
    <3>4. \A p \in 1 .. Len(s) : p > first /\ s[p] # Stop => least <= p
      BY <1>0, <3>2
    <3> HIDE DEF least, behind
    <3>5. ASSUME NEW p \in first .. end PROVE s[p] = Stop
      <4>1. p \in 1 .. Len(s) /\ ~(least <= p) /\ (p = first \/ p > first)
        BY <1>0, <1>2, <3>3
      <4> QED BY <1>2, <3>4, <4>1
    <3>6. end \in first .. Len(s)
      BY <1>0, <1>2, <3>3
    <3> QED BY <3>5, <3>6
  <2> QED BY <2>1, <2>2
<1>6. end \in 1 .. Len(s) /\ first \in 1 .. end
  BY <1>0, <1>2, <1>5
<1> QED BY <1>4, <1>5, <1>6 DEF end

\* Nothing is said between delimiters that follow each other.
LEMMA StopsSayNothing ==
  ASSUME NEW w \in Line, \A p \in 1 .. Len(w) : w[p] = Stop
  PROVE  Said(Sentences(w)) = <<>>
<1>0. Len(w) \in Nat
  BY InsideFacts
<1>1. <<>> \in Line /\ Tokens(<<>>) = <<>>
  <2>1. <<>> \in Line /\ Len(<<>>) = 0
    BY EmptySeq DEF Line
  <2>2. Parts(<<>>) \in Seq(Seq(Words)) /\ Len(Parts(<<>>)) = 0 /\ Tokens(<<>>) = FlattenSeq(Parts(<<>>))
    BY <2>1, PartsFacts
  <2>3. Parts(<<>>) = <<>>
    <3> HIDE DEF Parts
    <3> QED BY <2>2, EmptySeq
  <2> QED BY <2>1, <2>2, <2>3, FlattenNone
<1>2. ASSUME NEW e \in 1 .. Len(w) PROVE SentencesAt(w, e) = <<<<>>>>
  <2>1. e \in 1 .. e /\ e - 1 < e /\ e \in Int /\ e - 1 \in Int /\ \A p : p \notin e .. (e - 1)
    BY <1>0
  <2>2. e # 1 => e - 1 \in 1 .. Len(w)
    BY <1>0
  <2>3. Begins(w, e, e)
    BY <2>1, <2>2 DEF Begins
  <2>4. SubSeq(w, e, e - 1) = <<>>
    BY <2>1, SubSeqEmpty
  <2>5. w[e] = Stop
    OBVIOUS
  <2> QED BY <1>1, <2>1, <2>3, <2>4, <2>5, SentencesAtFacts
<1>3. Ended(w) \in Seq(Seq({<<>>}))
  <2>1. <<<<>>>> \in Seq({<<>>})
    OBVIOUS
  <2>2. \A e \in 1 .. Len(w) : Ended(w)[e] \in Seq({<<>>})
    BY <1>2, <2>1, EndedFacts
  <2>3. Len(Ended(w)) = Len(w) /\ Ended(w) \in Seq(Seq(Seq(Words)))
    BY EndedFacts
  <2>4. SubSeq(Ended(w), 1, Len(w)) \in Seq(Seq({<<>>}))
    BY <1>0, <2>2, SubSeqProperties
  <2> QED BY <2>3, <2>4, SubSeqFull
<1>4. Sentences(w) \in Seq({<<>>})
  BY <1>3, EndedFacts, FlattenType
<1> QED BY <1>4, SaidNothing

LEMMA PhraseSays ==
  ASSUME NEW s \in Line, Stops(s) # {}
  PROVE  \E u, r \in Line :
           /\ u = SubSeq(s, 1, EndOfPhase(s)) /\ r = SubSeq(s, EndOfPhase(s) + 1, Len(s))
           /\ s = u \o r /\ Whole(u)
           /\ ExtractTokens(u) \in Seq(Words)
           /\ Said(Sentences(u)) = Said(<<ExtractTokens(u)>>)
<1> DEFINE end == EndOfPhase(s)
           u == SubSeq(s, 1, end)
           r == SubSeq(s, end + 1, Len(s))
<1>0. Len(s) \in Nat
  BY InsideFacts
<1>1. PICK first \in 1 .. end : /\ \A p \in 1 .. (first - 1) : s[p] # Stop
                                /\ \A p \in first .. end : s[p] = Stop
  BY PhraseEnds
<1>2. end \in 1 .. Len(s)
  BY PhraseEnds
<1> HIDE DEF end
<1> DEFINE v == SubSeq(s, 1, first)
           w == SubSeq(s, first + 1, end)
<1>3. /\ 1 \in 1 .. Len(s) + 1 /\ end \in (1 - 1) .. Len(s) /\ first \in (1 - 1) .. Len(s)
      /\ end + 1 \in 1 .. Len(s) + 1 /\ Len(s) \in ((end + 1) - 1) .. Len(s)
      /\ first + 1 \in 1 .. Len(s) + 1 /\ end \in ((first + 1) - 1) .. Len(s)
      /\ end \in Nat /\ first \in Nat /\ first <= end /\ 1 <= first
  BY <1>0, <1>2
<1>4. u \in Line /\ r \in Line /\ v \in Line /\ w \in Line
  BY <1>3, PartOfLine
<1>5. s = u \o r
  <2>1. Len(s) \in end .. Len(s)
    BY <1>3
  <2>2. u \o r = SubSeq(s, 1, Len(s))
    BY <1>3, <2>1, ConcatAdjacentSubSeq DEF Line
  <2> QED BY <2>2, SubSeqFull DEF Line
<1>6. u = v \o w
  <2>1. end \in first .. Len(s)
    BY <1>3
  <2> QED BY <1>3, <2>1, ConcatAdjacentSubSeq DEF Line
<1>7. /\ Len(u) = end /\ \A p \in 1 .. end : u[p] = s[p]
      /\ Len(v) = first /\ \A p \in 1 .. first : v[p] = s[p]
      /\ Len(w) = end - first /\ \A p \in 1 .. end - first : w[p] = s[first + p]
  <2>1. /\ Len(u) = end - 1 + 1 /\ \A p \in 1 .. end - 1 + 1 : u[p] = s[1 + p - 1]
        /\ Len(v) = first - 1 + 1 /\ \A p \in 1 .. first - 1 + 1 : v[p] = s[1 + p - 1]
        /\ Len(w) = end - (first + 1) + 1
        /\ \A p \in 1 .. end - (first + 1) + 1 : w[p] = s[(first + 1) + p - 1]
    BY <1>3, PartOfLine
  <2> HIDE DEF u, v, w
  <2>2. end - 1 + 1 = end /\ first - 1 + 1 = first /\ end - (first + 1) + 1 = end - first
    BY <1>3
  <2>3. \A p \in Int : 1 + p - 1 = p /\ (first + 1) + p - 1 = first + p
    BY <1>3
  <2> QED BY <2>1, <2>2, <2>3
<1> HIDE DEF u, r, v, w
<1>8. Whole(u) /\ Whole(v)
  <2>1. end \in first .. end /\ end \in 1 .. end /\ first \in first .. end /\ first \in 1 .. first
    BY <1>3
  <2> QED BY <1>1, <1>7, <2>1 DEF Whole
<1>9. Said(Sentences(w)) = <<>>
  <2>1. \A p \in 1 .. end - first : first + p \in first .. end
    BY <1>3
  <2>2. \A p \in 1 .. Len(w) : w[p] = Stop
    BY <1>1, <1>7, <2>1
  <2> QED BY <1>4, <2>2, StopsSayNothing
<1>10. Stop \in TokenDelimiters
  BY TextReaderAssumption
<1>11. Tokens(u) = Tokens(v)
  <2>1. first \in 0 .. Len(u)
    BY <1>3, <1>7
  <2>2. \A q \in (first + 1) .. Len(u) : u[q] \in TokenDelimiters
    <3>1. \A q \in (first + 1) .. end : q \in 1 .. end /\ q \in first .. end
      BY <1>3
    <3> QED BY <1>1, <1>7, <1>10, <3>1
  <2>3. Tokens(u) = Tokens(SubSeq(u, 1, first))
    BY <1>4, <2>1, <2>2, TokensFirst
  <2>4. 1 \in 1 .. Len(v) /\ first \in 1 .. Len(v)
    BY <1>3, <1>7
  <2>5. SubSeq(v \o w, 1, first) = SubSeq(v, 1, first)
    BY <1>4, <2>4, SubSeqOfConcat1 DEF Line
  <2>6. SubSeq(v, 1, first) = v
    BY <1>4, <1>7, SubSeqFull DEF Line
  <2> QED BY <1>6, <2>3, <2>5, <2>6
<1>12. Sentences(v) = <<Tokens(v)>>
  <2>0. first \in 1 .. Len(v) /\ 1 \in 1 .. first /\ first \in first .. end /\ first \in 1 .. first
    BY <1>3, <1>7
  <2>1. Begins(v, 1, first)
    <3>1. \A p \in 1 .. (first - 1) : p \in 1 .. first
      BY <1>3
    <3> QED BY <1>1, <1>7, <3>1 DEF Begins
  <2>2. v[first] = Stop
    BY <1>1, <1>7, <2>0
  <2>3. SentencesAt(v, first) = <<Tokens(SubSeq(v, 1, first - 1))>>
    BY <1>4, <2>0, <2>1, <2>2, SentencesAtFacts
  <2>4. Tokens(v) = Tokens(SubSeq(v, 1, first - 1))
    <3>1. first - 1 \in 0 .. Len(v)
      BY <1>3, <1>7
    <3>2. \A q \in ((first - 1) + 1) .. Len(v) : q = first
      BY <1>3, <1>7
    <3>3. \A q \in ((first - 1) + 1) .. Len(v) : v[q] \in TokenDelimiters
      BY <1>10, <2>2, <3>2
    <3> QED BY <1>4, <3>1, <3>3, TokensFirst
  <2>5. \A e \in 1 .. Len(v) : e # first => Ended(v)[e] = <<>>
    <3>1. \A e \in 1 .. Len(v) : e # first => e \in 1 .. (first - 1) /\ e \in 1 .. first
      BY <1>3, <1>7
    <3>2. \A e \in 1 .. Len(v) : e # first => v[e] # Stop
      BY <1>1, <1>7, <3>1
    <3>3. \A e \in 1 .. Len(v) : Ended(v)[e] = SentencesAt(v, e)
      BY <1>4, EndedFacts
    <3>4. \A e \in 1 .. Len(v) : v[e] # Stop => SentencesAt(v, e) = <<>>
      BY <1>4, SentencesAtFacts
    <3> QED BY <3>2, <3>3, <3>4
  <2>6. Ended(v) \in Seq(Seq(Seq(Words))) /\ Len(Ended(v)) = Len(v) /\ Sentences(v) = FlattenSeq(Ended(v))
        /\ Ended(v)[first] = SentencesAt(v, first)
    BY <1>4, <2>0, EndedFacts
  <2>7. FlattenSeq(Ended(v)) = Ended(v)[first]
    BY <2>0, <2>5, <2>6, FlattenOnly
  <2> QED BY <2>3, <2>4, <2>6, <2>7
<1>13. Said(Sentences(u)) = Said(<<Tokens(u)>>)
  <2>1. Sentences(u) = Sentences(v) \o Sentences(w)
    BY <1>4, <1>6, <1>8, SentencesConcat
  <2>2. Sentences(v) \in Seq(Seq(Words)) /\ Sentences(w) \in Seq(Seq(Words))
    BY <1>4, EndedFacts
  <2>3. Said(Sentences(u)) = Said(Sentences(v)) \o Said(Sentences(w))
    BY <2>1, <2>2, SaidConcat
  <2>4. Said(Sentences(v)) \in Seq(Seq(Words))
    BY <2>2, KeptFacts
  <2>5. Said(Sentences(v)) \o <<>> = Said(Sentences(v))
    BY <2>4, ConcatEmptySeq
  <2> QED BY <1>9, <1>11, <1>12, <2>3, <2>5
<1>14. ExtractTokens(u) = Tokens(u) /\ ExtractTokens(u) \in Seq(Words)
  BY <1>4, ExtractTokensFinds, ExtractTokensType
<1> QED BY <1>4, <1>5, <1>8, <1>13, <1>14 DEF u, r, end

-----------------------------------------------------------------------------
(***************************************************************************)
(* The text of a file, and what the first files say.                       *)
(***************************************************************************)
\* The lines of a file, as the text has them.
Lined(lines) == [l \in DOMAIN lines |-> <<Space>> \o Undotted(lines[l])]

LEMMA LinedFacts ==
  ASSUME NEW lines \in Seq(Seq(Characters))
  PROVE  /\ Lined(lines) \in Seq(Seq(Undot)) /\ Len(Lined(lines)) = Len(lines)
         /\ \A l \in 1 .. Len(lines) : Lined(lines)[l] = <<Space>> \o Undotted(lines[l])
         /\ Content(lines) = FlattenSeq(Lined(lines)) /\ Content(lines) \in Line
<1>1. Len(lines) \in Nat /\ DOMAIN lines = 1 .. Len(lines)
  BY LenProperties
<1>2. \A l \in 1 .. Len(lines) : <<Space>> \o Undotted(lines[l]) \in Seq(Undot)
  BY ElementOfSeq, UndottedType DEF Line
<1>3. Lined(lines) \in Seq(Seq(Undot)) /\ Len(Lined(lines)) = Len(lines)
  BY <1>1, <1>2 DEF Lined
<1>4. Content(lines) = FlattenSeq(Lined(lines))
  BY DEF Content, Lined
<1> QED BY <1>1, <1>3, <1>4, FlattenType DEF Lined, Line

LEMMA ContentNone == Content(<<>>) = <<>> /\ <<>> \in Line
<1>1. <<>> \in Seq(Seq(Characters)) /\ Len(<<>>) = 0 /\ <<>> \in Line
  BY EmptySeq DEF Line
<1>2. Lined(<<>>) \in Seq(Seq(Undot)) /\ Len(Lined(<<>>)) = 0 /\ Content(<<>>) = FlattenSeq(Lined(<<>>))
  BY <1>1, LinedFacts
<1>3. Lined(<<>>) = <<>>
  <2> HIDE DEF Lined
  <2> QED BY <1>2, EmptySeq
<1> QED BY <1>1, <1>2, <1>3, FlattenNone

\* What the next n lines have stands before what the others have.
LEMMA ContentSplit ==
  ASSUME NEW lines \in Seq(Seq(Characters)), NEW n \in 0 .. Len(lines)
  PROVE  /\ FlattenSeq([k \in 1 .. n |-> <<Space>> \o Undotted(lines[k])]) \in Line
         /\ SubSeq(lines, n + 1, Len(lines)) \in Seq(Seq(Characters))
         /\ Content(lines) = FlattenSeq([k \in 1 .. n |-> <<Space>> \o Undotted(lines[k])])
                               \o Content(SubSeq(lines, n + 1, Len(lines)))
<1> DEFINE next == [k \in 1 .. n |-> <<Space>> \o Undotted(lines[k])]
           rest == SubSeq(lines, n + 1, Len(lines))
           j == next \o Lined(rest)
           l == Len(lines)
<1>0. l \in Nat /\ n \in Nat /\ n <= l /\ l \in Int /\ n + 1 \in Int
  BY LenProperties
<1>1. \A k \in 1 .. l : lines[k] \in Seq(Characters) /\ <<Space>> \o Undotted(lines[k]) \in Seq(Undot)
  BY ElementOfSeq, UndottedType DEF Line
<1>2. /\ rest \in Seq(Seq(Characters)) /\ Len(rest) = l - n
      /\ \A k \in 1 .. l - n : rest[k] = lines[n + k]
  <2>1. \A k \in (n + 1) .. l : k \in 1 .. l
    BY <1>0
  <2>2. \A k \in (n + 1) .. l : lines[k] \in Seq(Characters)
    BY <1>1, <2>1
  <2>3. /\ rest \in Seq(Seq(Characters)) /\ Len(rest) = IF n + 1 <= l THEN l - (n + 1) + 1 ELSE 0
        /\ \A k \in 1 .. l - (n + 1) + 1 : rest[k] = lines[(n + 1) + k - 1]
    BY <1>0, <2>2, SubSeqProperties
  <2>4. /\ l - (n + 1) + 1 = l - n /\ (IF n + 1 <= l THEN l - (n + 1) + 1 ELSE 0) = l - n
        /\ \A k \in 1 .. l - n : (n + 1) + k - 1 = n + k
    BY <1>0
  <2> HIDE DEF rest, l
  <2> QED BY <2>3, <2>4
<1>3. next \in Seq(Seq(Undot)) /\ Len(next) = n
  <2>1. \A k \in 1 .. n : k \in 1 .. l
    BY <1>0
  <2>2. \A k \in 1 .. n : <<Space>> \o Undotted(lines[k]) \in Seq(Undot)
    BY <1>1, <2>1
  <2> QED BY <1>0, <2>2
<1>4. \A k \in 1 .. n : next[k] = <<Space>> \o Undotted(lines[k])
  OBVIOUS
<1> HIDE DEF next, rest
<1>5. /\ Lined(rest) \in Seq(Seq(Undot)) /\ Len(Lined(rest)) = l - n
      /\ \A k \in 1 .. l - n : Lined(rest)[k] = <<Space>> \o Undotted(rest[k])
      /\ Content(rest) = FlattenSeq(Lined(rest))
  BY <1>2, LinedFacts
<1>6. /\ Lined(lines) \in Seq(Seq(Undot)) /\ Len(Lined(lines)) = l
      /\ \A k \in 1 .. l : Lined(lines)[k] = <<Space>> \o Undotted(lines[k])
      /\ Content(lines) = FlattenSeq(Lined(lines))
  BY LinedFacts
<1>7. /\ j \in Seq(Seq(Undot)) /\ Len(j) = l
      /\ \A k \in 1 .. l : j[k] = IF k <= n THEN next[k] ELSE Lined(rest)[k - n]
  <2>1. /\ j \in Seq(Seq(Undot)) /\ Len(j) = Len(next) + Len(Lined(rest))
        /\ \A k \in 1 .. Len(next) + Len(Lined(rest)) :
             j[k] = IF k <= Len(next) THEN next[k] ELSE Lined(rest)[k - Len(next)]
    BY <1>3, <1>5, ConcatProperties
  <2>2. n + (l - n) = l
    BY <1>0
  <2> HIDE DEF j, l
  <2> QED BY <1>3, <1>5, <2>1, <2>2
<1> HIDE DEF j, l
<1>8. ASSUME NEW k \in 1 .. l PROVE Lined(lines)[k] = j[k]
  <2>1. CASE k <= n
    <3>1. k \in 1 .. n
      BY <1>0, <2>1
    <3> QED BY <1>4, <1>6, <1>7, <2>1, <3>1
  <2>2. CASE ~(k <= n)
    <3>1. k - n \in 1 .. l - n /\ n + (k - n) = k
      BY <1>0, <2>2
    <3>2. Lined(rest)[k - n] = <<Space>> \o Undotted(rest[k - n]) /\ rest[k - n] = lines[n + (k - n)]
      BY <1>2, <1>5, <3>1
    <3> QED BY <1>6, <1>7, <2>2, <3>1, <3>2
  <2> QED BY <2>1, <2>2
<1>9. Lined(lines) = j
  BY <1>6, <1>7, <1>8, SeqEqual
<1>10. FlattenSeq(next \o Lined(rest)) = FlattenSeq(next) \o FlattenSeq(Lined(rest))
  BY <1>3, <1>5, FlattenConcat
<1>11. FlattenSeq(next) \in Line
  BY <1>3, FlattenType DEF Line
<1>12. Content(lines) = FlattenSeq(next) \o Content(rest)
  BY <1>5, <1>6, <1>9, <1>10 DEF j
<1> QED BY <1>2, <1>11, <1>12 DEF next, rest, l

\* What each of the first n files says.
FilesSaid(n) ==
  [f \in 1 .. n |-> IF files[f].exists THEN Sentences(Content(files[f].lines)) ELSE <<>>]

LEMMA FileFacts ==
  ASSUME ReaderType
  PROVE  /\ Len(files) \in Nat
         /\ \A f \in 1 .. Len(files) :
              /\ files[f].exists \in BOOLEAN /\ files[f].newline \in BOOLEAN
              /\ files[f].lines \in Seq(Seq(Characters))
<1>1. files \in Seq([exists : BOOLEAN, lines : Seq(Seq(Characters)), newline : BOOLEAN])
  BY TextReaderAssumption DEF ReaderType
<1>2. Len(files) \in Nat
  BY <1>1, LenProperties
<1>3. \A f \in 1 .. Len(files) : files[f] \in [exists : BOOLEAN, lines : Seq(Seq(Characters)), newline : BOOLEAN]
  BY <1>1, ElementOfSeq
<1> QED BY <1>2, <1>3

LEMMA FirstFilesFacts ==
  ASSUME ReaderType, NEW n \in 0 .. Len(files)
  PROVE  /\ FilesSaid(n) \in Seq(Seq(Seq(Words))) /\ Len(FilesSaid(n)) = n
         /\ FirstFiles(n) = FlattenSeq(FilesSaid(n)) /\ FirstFiles(n) \in Seq(Seq(Words))
<1>1. Len(files) \in Nat /\ n \in Nat
  BY FileFacts
<1>2. \A f \in 1 .. n :
        (IF files[f].exists THEN Sentences(Content(files[f].lines)) ELSE <<>>) \in Seq(Seq(Words))
  <2>1. \A f \in 1 .. n : f \in 1 .. Len(files)
    BY <1>1
  <2>2. \A f \in 1 .. n : files[f].lines \in Seq(Seq(Characters))
    BY <2>1, FileFacts
  <2>3. \A f \in 1 .. n : Content(files[f].lines) \in Line
    BY <2>2, LinedFacts
  <2>4. \A f \in 1 .. n : Sentences(Content(files[f].lines)) \in Seq(Seq(Words))
    BY <2>3, EndedFacts
  <2>5. <<>> \in Seq(Seq(Words))
    OBVIOUS
  <2> QED BY <2>4, <2>5
<1>3. FilesSaid(n) \in Seq(Seq(Seq(Words))) /\ Len(FilesSaid(n)) = n
  BY <1>1, <1>2 DEF FilesSaid
<1>4. FirstFiles(n) = FlattenSeq(FilesSaid(n))
  BY DEF FirstFiles, FilesSaid
<1> QED BY <1>3, <1>4, FlattenType

LEMMA FirstFilesNone == ReaderType => FirstFiles(0) = <<>>
<1> SUFFICES ASSUME ReaderType PROVE FirstFiles(0) = <<>>
  OBVIOUS
<1>1. 0 \in 0 .. Len(files)
  BY FileFacts
<1>2. /\ FilesSaid(0) \in Seq(Seq(Seq(Words))) /\ Len(FilesSaid(0)) = 0
      /\ FirstFiles(0) = FlattenSeq(FilesSaid(0))
  BY <1>1, FirstFilesFacts
<1>3. FilesSaid(0) = <<>>
  BY <1>2, EmptySeq
<1> QED BY <1>2, <1>3, FlattenNone

\* Another file says what its text does, if it exists.
LEMMA NextFile ==
  ASSUME ReaderType, NEW n \in 1 .. Len(files)
  PROVE  FirstFiles(n) = FirstFiles(n - 1)
           \o (IF files[n].exists THEN Sentences(Content(files[n].lines)) ELSE <<>>)
<1> DEFINE said == IF files[n].exists THEN Sentences(Content(files[n].lines)) ELSE <<>>
           j == Append(FilesSaid(n - 1), said)
<1>0. Len(files) \in Nat /\ n \in Nat /\ n \in 0 .. Len(files) /\ n - 1 \in 0 .. Len(files) /\ (n - 1) + 1 = n
  BY FileFacts
<1>1. /\ FilesSaid(n) \in Seq(Seq(Seq(Words))) /\ Len(FilesSaid(n)) = n
      /\ FirstFiles(n) = FlattenSeq(FilesSaid(n))
  BY <1>0, FirstFilesFacts
<1>2. /\ FilesSaid(n - 1) \in Seq(Seq(Seq(Words))) /\ Len(FilesSaid(n - 1)) = n - 1
      /\ FirstFiles(n - 1) = FlattenSeq(FilesSaid(n - 1))
  BY <1>0, FirstFilesFacts
<1>3. \A f \in 1 .. n : FilesSaid(n)[f] = IF files[f].exists THEN Sentences(Content(files[f].lines)) ELSE <<>>
  BY DEF FilesSaid
<1>4. \A f \in 1 .. n - 1 : FilesSaid(n - 1)[f] = IF files[f].exists THEN Sentences(Content(files[f].lines)) ELSE <<>>
  BY DEF FilesSaid
<1>5. said \in Seq(Seq(Words))
  <2>1. n \in 1 .. n /\ n \in 1 .. Len(FilesSaid(n))
    BY <1>0, <1>1
  <2>2. FilesSaid(n)[n] = said
    BY <1>3, <2>1
  <2> HIDE DEF said
  <2>3. FilesSaid(n)[n] \in Seq(Seq(Words))
    BY <1>1, <2>1, ElementOfSeq
  <2> QED BY <2>2, <2>3
<1>6. /\ j \in Seq(Seq(Seq(Words))) /\ Len(j) = n
      /\ \A f \in 1 .. n - 1 : j[f] = FilesSaid(n - 1)[f]
      /\ j[n] = said
  <2> HIDE DEF said
  <2>1. /\ j \in Seq(Seq(Seq(Words))) /\ Len(j) = Len(FilesSaid(n - 1)) + 1
        /\ \A f \in 1 .. Len(FilesSaid(n - 1)) : j[f] = FilesSaid(n - 1)[f]
        /\ j[Len(FilesSaid(n - 1)) + 1] = said
    BY <1>2, <1>5, AppendProperties
  <2> HIDE DEF j
  <2> QED BY <1>0, <1>2, <2>1
<1>7. \A f \in 1 .. n : FilesSaid(n)[f] = j[f]
  <2>1. \A f \in 1 .. n : f = n \/ f \in 1 .. n - 1
    BY <1>0
  <2>2. \A f \in 1 .. n - 1 : FilesSaid(n)[f] = FilesSaid(n - 1)[f]
    <3>1. \A f \in 1 .. n - 1 : f \in 1 .. n
      BY <1>0
    <3> QED BY <1>3, <1>4, <3>1
  <2>3. FilesSaid(n)[n] = said
    BY <1>0, <1>3
  <2> HIDE DEF j, said
  <2> QED BY <1>6, <2>1, <2>2, <2>3
<1> HIDE DEF said
<1>8. FilesSaid(n) = j
  <2> HIDE DEF j
  <2> QED BY <1>1, <1>6, <1>7, SeqEqual
<1>9. FlattenSeq(Append(FilesSaid(n - 1), said)) = FlattenSeq(FilesSaid(n - 1)) \o said
  BY <1>2, <1>5, FlattenAppend
<1>10. FirstFiles(n) = FirstFiles(n - 1) \o said
  BY <1>1, <1>2, <1>8, <1>9
<1> QED BY <1>10 DEF said

-----------------------------------------------------------------------------
(***************************************************************************)
(* The calls read on in the text of a file and return what it says.        *)
(***************************************************************************)
LEMMA CompleteConcat ==
  ASSUME NEW a \in Line, NEW b \in Line, Whole(a), Whole(b)
  PROVE  a \o b \in Line /\ Whole(a \o b)
<1> DEFINE c == a \o b
<1>0. Len(a) \in Nat /\ Len(b) \in Nat
  BY InsideFacts
<1>1. /\ c \in Line /\ Len(c) = Len(a) + Len(b)
      /\ \A p \in 1 .. Len(a) + Len(b) : c[p] = IF p <= Len(a) THEN a[p] ELSE b[p - Len(a)]
  BY ConcatProperties DEF Line
<1>2. CASE b = <<>>
  BY <1>1, <1>2, ConcatEmptySeq DEF Line
<1>3. CASE b # <<>>
  <2>1. Len(b) # 0
    BY <1>3, EmptySeq DEF Line
  <2>2. /\ Len(a) + Len(b) \in 1 .. Len(a) + Len(b) /\ ~(Len(a) + Len(b) <= Len(a))
        /\ (Len(a) + Len(b)) - Len(a) = Len(b)
    BY <1>0, <2>1
  <2> HIDE DEF c
  <2>3. c[Len(c)] = b[Len(b)]
    BY <1>1, <2>2
  <2>4. b[Len(b)] = Stop
    BY <1>3 DEF Whole
  <2>5. c \in Line /\ Whole(c)
    BY <1>1, <2>3, <2>4 DEF Whole
  <2> QED BY <2>5 DEF c
<1> QED BY <1>2, <1>3

\* Another sentence is said behind the others.
LEMMA SaysOne ==
  ASSUME NEW ss \in Seq(Seq(Words)), NEW s \in Seq(Words)
  PROVE  /\ Append(ss, s) \in Seq(Seq(Words)) /\ <<s>> \in Seq(Seq(Words))
         /\ Said(Append(ss, s)) = Said(ss) \o Said(<<s>>)
<1>1. <<s>> \in Seq(Seq(Words)) /\ Append(ss, s) \in Seq(Seq(Words)) /\ Append(ss, s) = ss \o <<s>>
  BY AppendIsConcat, AppendProperties
<1> QED BY <1>1, SaidConcat

LEMMA SaysNothing ==
  ASSUME NEW ss \in Seq(Seq(Words))
  PROVE  Said(Append(ss, <<>>)) = Said(ss) /\ Said(<<>>) = <<>>
<1>1. <<>> \in Seq(Words) /\ <<>> \in Seq({<<>>}) /\ <<<<>>>> \in Seq({<<>>})
  OBVIOUS
<1>2. Said(Append(ss, <<>>)) = Said(ss) \o Said(<<<<>>>>)
  BY <1>1, SaysOne
<1>3. Said(<<<<>>>>) = <<>> /\ Said(<<>>) = <<>>
  BY <1>1, SaidNothing
<1>4. Said(ss) \in Seq(Seq(Words))
  BY KeptFacts
<1>5. Said(ss) \o <<>> = Said(ss)
  BY <1>4, ConcatEmptySeq
<1> QED BY <1>2, <1>3, <1>5

\* The provers reason about strings that stand one behind the other when these
\* are hidden behind an operator.
Joined(a, b) == a \o b

LEMMA JoinedAssociative ==
  ASSUME NEW S
  PROVE  \A a, b, c \in Seq(S) :
           Joined(a, b) \in Seq(S) /\ Joined(Joined(a, b), c) = Joined(a, Joined(b, c))
<1> SUFFICES ASSUME NEW a \in Seq(S), NEW b \in Seq(S), NEW c \in Seq(S)
             PROVE  Joined(a, b) \in Seq(S) /\ Joined(Joined(a, b), c) = Joined(a, Joined(b, c))
  OBVIOUS
<1>1. a \o b \in Seq(S)
  BY ConcatProperties
<1>2. (a \o b) \o c = a \o (b \o c)
  BY ConcatAssociative
<1> QED BY <1>1, <1>2 DEF Joined

\* What a cut makes of the text of a file, whose part d is now done.
Moved(d, content, rest, before) ==
  /\ Whole(d) /\ content = d \o (leftOver' \o rest)
  /\ Said(returned') = before \o Said(Sentences(d))

\* A cut moves a phrase from the text that is left to what was said.
LEMMA CutSays ==
  ASSUME ReaderType, NEW text \in Line, Stops(text) # {}, Cut(text),
         NEW rest \in Line, NEW done \in Line, Whole(done), NEW before \in Seq(Seq(Words)),
         Said(returned) = before \o Said(Sentences(done))
  PROVE  /\ leftOver' \in Line
         /\ \E d \in Line : Moved(d, done \o (text \o rest), rest, before)
<1>1. PICK u, r \in Line :
        /\ u = SubSeq(text, 1, EndOfPhase(text)) /\ r = SubSeq(text, EndOfPhase(text) + 1, Len(text))
        /\ text = u \o r /\ Whole(u)
        /\ ExtractTokens(u) \in Seq(Words)
        /\ Said(Sentences(u)) = Said(<<ExtractTokens(u)>>)
  BY PhraseSays
<1> DEFINE t == ExtractTokens(u)
           d == done \o u
<1>2. returned' = Append(returned, t) /\ leftOver' = r
  BY <1>1 DEF Cut
<1>3. d \in Line /\ Whole(d)
  BY <1>1, CompleteConcat
<1>4. Sentences(d) = Sentences(done) \o Sentences(u)
  BY <1>1, SentencesConcat
<1>5. /\ Sentences(done) \in Seq(Seq(Words)) /\ Sentences(u) \in Seq(Seq(Words))
      /\ returned \in Seq(Seq(Words)) /\ t \in Seq(Words)
  BY <1>1, EndedFacts DEF ReaderType
<1> HIDE DEF t
<1>6. Said(Sentences(d)) = Said(Sentences(done)) \o Said(Sentences(u))
  <2>1. Said(Sentences(done) \o Sentences(u)) = Said(Sentences(done)) \o Said(Sentences(u))
    BY <1>5, SaidConcat
  <2> QED BY <1>4, <2>1
<1>7. Said(returned') = (before \o Said(Sentences(done))) \o Said(Sentences(u))
  <2>1. Said(Append(returned, t)) = Said(returned) \o Said(<<t>>)
    BY <1>5, SaysOne
  <2> QED BY <1>1, <1>2, <2>1 DEF t
<1>8. Said(Sentences(done)) \in Seq(Seq(Words)) /\ Said(Sentences(u)) \in Seq(Seq(Words))
  BY <1>5, KeptFacts
<1>9. (before \o Said(Sentences(done))) \o Said(Sentences(u)) = before \o (Said(Sentences(done)) \o Said(Sentences(u)))
  <2>1. Joined(Joined(before, Said(Sentences(done))), Said(Sentences(u)))
          = Joined(before, Joined(Said(Sentences(done)), Said(Sentences(u))))
    BY <1>8, JoinedAssociative
  <2> QED BY <2>1 DEF Joined
<1>10. done \o (text \o rest) = d \o (leftOver' \o rest)
  <2>1. done \in Seq(Undot) /\ u \in Seq(Undot) /\ r \in Seq(Undot) /\ rest \in Seq(Undot)
    BY DEF Line
  <2>2. Joined(r, rest) \in Seq(Undot)
    BY <2>1, JoinedAssociative
  <2>3. /\ Joined(Joined(u, r), rest) = Joined(u, Joined(r, rest))
        /\ Joined(Joined(done, u), Joined(r, rest)) = Joined(done, Joined(u, Joined(r, rest)))
    BY <2>1, <2>2, JoinedAssociative
  <2>4. Joined(done, Joined(text, rest)) = Joined(d, Joined(leftOver', rest))
    BY <1>1, <1>2, <2>3 DEF Joined
  <2> QED BY <2>4 DEF Joined
<1>11. Said(returned') = before \o Said(Sentences(d))
  BY <1>6, <1>7, <1>9
<1> HIDE DEF d
<1>12. Moved(d, done \o (text \o rest), rest, before)
  BY <1>3, <1>10, <1>11 DEF Moved
<1> QED BY <1>1, <1>2, <1>3, <1>12

\* Lines that are read move from the file to what is left over.
LEMMA ReadMoves ==
  ASSUME ReaderType, stream # Null, NEW n \in 0 .. Len(stream.lines)
  PROVE  /\ Read(n) \in Line /\ LeftOver \in Line
         /\ SubSeq(stream.lines, n + 1, Len(stream.lines)) \in Seq(Seq(Characters))
         /\ Content(SubSeq(stream.lines, n + 1, Len(stream.lines))) \in Line
         /\ LeftOver \o Content(stream.lines)
              = Read(n) \o Content(SubSeq(stream.lines, n + 1, Len(stream.lines)))
<1> DEFINE next == FlattenSeq([k \in 1 .. n |-> <<Space>> \o Undotted(stream.lines[k])])
           rest == Content(SubSeq(stream.lines, n + 1, Len(stream.lines)))
<1>1. stream.lines \in Seq(Seq(Characters))
  BY DEF ReaderType
<1>2. /\ next \in Line /\ Content(stream.lines) = next \o rest
      /\ SubSeq(stream.lines, n + 1, Len(stream.lines)) \in Seq(Seq(Characters))
  BY <1>1, ContentSplit
<1>3. LeftOver \in Line /\ Read(n) \in Line /\ Read(n) = LeftOver \o next
  BY ReadType DEF Read
<1>4. rest \in Line
  BY <1>2, LinedFacts
<1> HIDE DEF next, rest
<1>5. (LeftOver \o next) \o rest = LeftOver \o (next \o rest)
  <2>1. LeftOver \in Seq(Undot) /\ next \in Seq(Undot) /\ rest \in Seq(Undot)
    BY <1>2, <1>3, <1>4 DEF Line
  <2>2. Joined(Joined(LeftOver, next), rest) = Joined(LeftOver, Joined(next, rest))
    BY <2>1, JoinedAssociative
  <2> QED BY <2>2 DEF Joined
<1> QED BY <1>2, <1>3, <1>4, <1>5 DEF rest

LEMMA NotNull ==
  /\ \A s \in Line : s # Null
  /\ \A lines \in Seq(Seq(Characters)), good \in BOOLEAN : [lines |-> lines, good |-> good] # Null
<1>1. ASSUME NEW s \in Line PROVE s # Null
  <2>1. Len(s) \in Nat /\ \A p \in 1 .. Len(s) : s[p] \in Characters
    BY InsideFacts, ElementOfSeq DEF Line, Undot
  <2>2. SubSeq(s, 1, Len(s)) \in Seq(Characters)
    BY <2>1, SubSeqProperties
  <2>3. s \in Seq(Characters)
    BY <2>2, SubSeqFull DEF Line
  <2> QED BY <2>3, TextReaderAssumption
<1>2. \A lines \in Seq(Seq(Characters)), good \in BOOLEAN : [lines |-> lines, good |-> good] # Null
  BY TextReaderAssumption
<1> QED BY <1>1, <1>2

\* What was said of the file that is read: the text up to somewhere behind a
\* delimiter; the rest is still in what is left over and in the lines that follow.
ReadUpTo(done) ==
  /\ Whole(done)
  /\ Content(files[it].lines) = done \o (LeftOver \o Content(stream.lines))
  /\ Said(returned) = Said(FirstFiles(it - 1)) \o Said(Sentences(done))

\* Nothing was said of the next file.
Between == leftOver = Null /\ Said(returned) = Said(FirstFiles(it - 1))

ReaderInv ==
  /\ ReaderType /\ it <= Len(files) + 1
  /\ stream = Null => Between
  /\ finished => stream = Null /\ it = Len(files) + 1
  /\ stream # Null =>
       /\ it <= Len(files)
       /\ files[it].exists => /\ \E done \in Line : ReadUpTo(done)
                              /\ ~stream.good => stream.lines = <<>>
       /\ ~files[it].exists => ~stream.good /\ Between

LEMMA InitReaderInv == Init => ReaderInv
<1> SUFFICES ASSUME Init PROVE ReaderInv
  OBVIOUS
<1>1. ReaderType
  BY InitReaderType
<1>2. it = 1 /\ stream = Null /\ leftOver = Null /\ returned = <<>> /\ ~finished
  BY DEF Init, ReaderInit
<1>3. Len(files) \in Nat /\ it <= Len(files) + 1 /\ it - 1 = 0
  <2>1. Len(files) \in Nat
    BY <1>1, FileFacts
  <2> QED BY <1>2, <2>1
<1>4. Said(returned) = Said(FirstFiles(it - 1))
  <2>1. FirstFiles(0) = <<>>
    BY <1>1, FirstFilesNone
  <2> QED BY <1>2, <1>3, <2>1
<1> QED BY <1>1, <1>2, <1>3, <1>4 DEF ReaderInv, Between

\* What has been said of the files before the one that is read does not change.
LEMMA SameFiles ==
  ASSUME files' = files, it' = it
  PROVE  FirstFiles(it - 1)' = FirstFiles(it - 1)
BY DEF FirstFiles

\* A step that stays in a file that exists.
LEMMA StaysInFile ==
  ASSUME ReaderInv, ReaderType', UNCHANGED <<files, it, finished>>, ~finished,
         it \in 1 .. Len(files), files[it].exists, stream' # Null,
         ~stream'.good => stream'.lines = <<>>,
         NEW d \in Line, Whole(d),
         Content(files[it].lines) = d \o (LeftOver' \o Content(stream'.lines)),
         Said(returned') = Said(FirstFiles(it - 1)) \o Said(Sentences(d))
  PROVE  ReaderInv'
<1>1. FirstFiles(it - 1)' = FirstFiles(it - 1)
  BY SameFiles
<1>2. ReadUpTo(d)'
  BY <1>1 DEF ReadUpTo
<1>3. \E done \in Line : ReadUpTo(done)'
  BY <1>2
<1>4. it <= Len(files) /\ it <= Len(files) + 1
  BY FileFacts DEF ReaderInv
<1> QED BY <1>3, <1>4 DEF ReaderInv

LEMMA FromLeftOverReaderInv ==
  ASSUME ReaderInv, ReaderType', FromLeftOver
  PROVE  ReaderInv'
<1>0. ReaderType
  BY DEF ReaderInv
<1>1. Stops(LeftOver) # {} /\ Cut(leftOver) /\ UNCHANGED <<files, it, stream, finished>> /\ ~finished
  BY DEF FromLeftOver
<1>2. leftOver # Null
  <2>1. Stops(<<>>) = {}
    BY DEF Stops
  <2> QED BY <1>1, <2>1 DEF LeftOver
<1>3. stream # Null /\ leftOver \in Line /\ LeftOver = leftOver /\ Stops(leftOver) # {}
  BY <1>0, <1>1, <1>2 DEF ReaderInv, Between, LeftOver, ReaderType
<1>4. it \in 1 .. Len(files) /\ files[it].exists /\ (~stream.good => stream.lines = <<>>)
  <2>1. it <= Len(files) /\ files[it].exists /\ (~stream.good => stream.lines = <<>>)
    BY <1>2, <1>3 DEF ReaderInv, Between
  <2> QED BY <1>0, <2>1, FileFacts DEF ReaderType
<1>5. PICK done \in Line : ReadUpTo(done)
  BY <1>3, <1>4 DEF ReaderInv
<1> DEFINE before == Said(FirstFiles(it - 1))
           rest == Content(stream.lines)
<1>6. rest \in Line /\ before \in Seq(Seq(Words))
  <2>1. stream.lines \in Seq(Seq(Characters))
    BY <1>0, <1>3 DEF ReaderType
  <2>2. it - 1 \in 0 .. Len(files)
    BY <1>0, <1>4, FileFacts
  <2>3. FirstFiles(it - 1) \in Seq(Seq(Words))
    BY <1>0, <2>2, FirstFilesFacts
  <2> QED BY <2>1, <2>3, LinedFacts, KeptFacts
<1>7. /\ Whole(done) /\ Content(files[it].lines) = done \o (leftOver \o rest)
      /\ Said(returned) = before \o Said(Sentences(done))
  BY <1>3, <1>5 DEF ReadUpTo
<1>8. stream' = stream /\ stream'.lines = stream.lines
  BY <1>1
<1> HIDE DEF before, rest
<1>9. leftOver' \in Line
  BY <1>0, <1>1, <1>3, <1>6, <1>7, CutSays
<1>10. PICK d \in Line : Moved(d, done \o (leftOver \o rest), rest, before)
  BY <1>0, <1>1, <1>3, <1>6, <1>7, CutSays
<1>11. LeftOver' = leftOver'
  BY <1>9, NotNull DEF LeftOver
<1>12. Content(files[it].lines) = d \o (LeftOver' \o Content(stream'.lines))
  BY <1>7, <1>8, <1>10, <1>11 DEF rest, Moved
<1>13. Said(returned') = Said(FirstFiles(it - 1)) \o Said(Sentences(d))
  BY <1>10 DEF before, Moved
<1>14. Whole(d)
  BY <1>10 DEF Moved
<1> QED BY <1>1, <1>3, <1>4, <1>8, <1>12, <1>13, <1>14, StaysInFile

LEMMA ReadOnReaderInv ==
  ASSUME ReaderInv, ReaderType', ReadOn
  PROVE  ReaderInv'
<1>0. ReaderType
  BY DEF ReaderInv
<1>1. ~finished /\ stream # Null /\ stream.good /\ UNCHANGED <<files, it, finished>>
  BY DEF ReadOn
<1>2. it \in 1 .. Len(files) /\ files[it].exists
  <2>1. it <= Len(files) /\ files[it].exists
    BY <1>1 DEF ReaderInv
  <2> QED BY <1>0, <2>1, FileFacts DEF ReaderType
<1>3. PICK done \in Line : ReadUpTo(done)
  BY <1>1, <1>2 DEF ReaderInv
<1> DEFINE before == Said(FirstFiles(it - 1))
           lines == stream.lines
           Rest(n) == SubSeq(lines, n + 1, Len(lines))
<1>4. before \in Seq(Seq(Words))
  <2>1. it - 1 \in 0 .. Len(files)
    BY <1>0, <1>2, FileFacts
  <2>2. FirstFiles(it - 1) \in Seq(Seq(Words))
    BY <1>0, <2>1, FirstFilesFacts
  <2> QED BY <2>2, KeptFacts
<1>5. /\ Whole(done) /\ Content(files[it].lines) = done \o (LeftOver \o Content(lines))
      /\ Said(returned) = before \o Said(Sentences(done))
  BY <1>3 DEF ReadUpTo
<1>6. lines \in Seq(Seq(Characters)) /\ Len(lines) \in Nat /\ DOMAIN lines = 1 .. Len(lines)
  BY <1>0, <1>1, LenProperties DEF ReaderType
<1>7. \A n \in 0 .. Len(lines) :
        /\ Read(n) \in Line /\ Rest(n) \in Seq(Seq(Characters)) /\ Content(Rest(n)) \in Line
        /\ LeftOver \o Content(lines) = Read(n) \o Content(Rest(n))
  BY <1>0, <1>1, ReadMoves
<1>8. files[it].newline \in BOOLEAN
  BY <1>0, <1>2, FileFacts
<1> HIDE DEF before, lines
<1>9. ASSUME stream' = [lines |-> <<>>, good |-> FALSE], leftOver' = Read(Len(lines)),
             returned' = Append(returned, <<>>)
      PROVE  ReaderInv'
  <2>1. Len(lines) \in 0 .. Len(lines) /\ Rest(Len(lines)) = <<>>
    <3>1. Len(lines) + 1 \in Int /\ Len(lines) \in Int /\ Len(lines) < Len(lines) + 1
      BY <1>6
    <3> QED BY <1>6, <3>1, SubSeqEmpty
  <2>2. leftOver' \in Line /\ LeftOver \o Content(lines) = leftOver' \o Content(<<>>)
    BY <1>7, <1>9, <2>1
  <2>3. LeftOver' = leftOver'
    BY <2>2, NotNull DEF LeftOver
  <2>4. stream'.lines = <<>> /\ stream' # Null
    <3>1. <<>> \in Seq(Seq(Characters)) /\ FALSE \in BOOLEAN
      OBVIOUS
    <3> QED BY <1>9, <3>1, NotNull
  <2>5. Content(files[it].lines) = done \o (LeftOver' \o Content(stream'.lines))
    BY <1>5, <2>2, <2>3, <2>4
  <2>6. Said(returned') = Said(FirstFiles(it - 1)) \o Said(Sentences(done))
    <3>1. returned \in Seq(Seq(Words))
      BY <1>0 DEF ReaderType
    <3> QED BY <1>5, <1>9, <3>1, SaysNothing DEF before
  <2> QED BY <1>1, <1>2, <1>5, <2>4, <2>5, <2>6, StaysInFile
<1>10. ASSUME NEW n \in Enough,
              stream' = [lines |-> Rest(n), good |-> n < Len(lines) \/ files[it].newline],
              Cut(Read(n))
       PROVE  ReaderInv'
  <2>1. n \in 0 .. Len(lines) /\ Stops(Read(n)) # {}
    BY <1>6 DEF Enough, lines
  <2> DEFINE text == Read(n)
             rest == Content(Rest(n))
             good == n < Len(lines) \/ files[it].newline
  <2>2. /\ text \in Line /\ rest \in Line /\ Rest(n) \in Seq(Seq(Characters))
        /\ LeftOver \o Content(lines) = text \o rest
    BY <1>7, <2>1
  <2>3. stream'.lines = Rest(n) /\ stream' # Null /\ (~stream'.good => stream'.lines = <<>>)
    <3>1. good \in BOOLEAN
      BY <1>8
    <3>2. stream' = [lines |-> Rest(n), good |-> good]
      BY <1>10
    <3>3. ~good => Rest(n) = <<>>
      <4> SUFFICES ASSUME ~(n < Len(lines)) PROVE Rest(n) = <<>>
        OBVIOUS
      <4>1. n + 1 \in Int /\ Len(lines) \in Int /\ Len(lines) < n + 1
        BY <1>6, <2>1
      <4> QED BY <1>6, <4>1, SubSeqEmpty
    <3> HIDE DEF good, Rest
    <3>4. stream' # Null
      BY <2>2, <3>1, <3>2, NotNull
    <3> QED BY <3>2, <3>3, <3>4
  <2>4. Stops(text) # {} /\ Cut(text)
    BY <1>10, <2>1
  <2> HIDE DEF text, rest, good, Rest
  <2>5. leftOver' \in Line
    BY <1>0, <1>4, <1>5, <2>2, <2>4, CutSays
  <2>6. PICK d \in Line : Moved(d, done \o (text \o rest), rest, before)
    BY <1>0, <1>4, <1>5, <2>2, <2>4, CutSays
  <2>7. LeftOver' = leftOver'
    BY <2>5, NotNull DEF LeftOver
  <2>8. Content(files[it].lines) = d \o (LeftOver' \o Content(stream'.lines))
    BY <1>5, <2>2, <2>3, <2>6, <2>7 DEF rest, Moved
  <2>9. Said(returned') = Said(FirstFiles(it - 1)) \o Said(Sentences(d))
    BY <2>6 DEF before, Moved
  <2>10. Whole(d)
    BY <2>6 DEF Moved
  <2> QED BY <1>1, <1>2, <2>3, <2>8, <2>9, <2>10, StaysInFile
<1> QED BY <1>9, <1>10 DEF ReadOn, lines

LEMMA CloseFileReaderInv ==
  ASSUME ReaderInv, ReaderType', CloseFile
  PROVE  ReaderInv'
<1>0. ReaderType
  BY DEF ReaderInv
<1>1. /\ ~finished /\ Stops(LeftOver) = {} /\ stream # Null /\ ~stream.good
      /\ stream' = Null /\ it' = it + 1 /\ leftOver' = Null /\ UNCHANGED <<files, returned, finished>>
  BY DEF CloseFile
<1>2. Len(files) \in Nat /\ it \in 1 .. Len(files) /\ it \in Nat /\ it - 1 \in 0 .. Len(files)
  <2>1. it <= Len(files)
    BY <1>1 DEF ReaderInv
  <2> QED BY <1>0, <2>1, FileFacts DEF ReaderType
<1>3. FirstFiles(it - 1) \in Seq(Seq(Words)) /\ Said(FirstFiles(it - 1)) \in Seq(Seq(Words))
  <2>1. FirstFiles(it - 1) \in Seq(Seq(Words))
    BY <1>0, <1>2, FirstFilesFacts
  <2> QED BY <2>1, KeptFacts
<1>4. Said(returned) = Said(FirstFiles(it))
  <2>1. CASE files[it].exists
    <3>1. PICK done \in Line : ReadUpTo(done)
      BY <1>1, <2>1 DEF ReaderInv
    <3>2. stream.lines = <<>>
      BY <1>1, <2>1 DEF ReaderInv
    <3> DEFINE content == Content(files[it].lines)
    <3>3. LeftOver \in Line
      BY <1>0, ContentNone DEF LeftOver, ReaderType
    <3>4. content = done \o LeftOver
      <4>1. content = done \o (LeftOver \o <<>>)
        BY <3>1, <3>2, ContentNone DEF ReadUpTo
      <4>2. LeftOver \o <<>> = LeftOver
        BY <3>3, ConcatEmptySeq DEF Line
      <4> QED BY <4>1, <4>2
    <3> HIDE DEF content
    <3>5. Sentences(content) = Sentences(done)
      <4>1. Sentences(done \o LeftOver) = Sentences(done) \o Sentences(LeftOver)
        BY <3>1, <3>3, SentencesConcat DEF ReadUpTo
      <4>2. Sentences(LeftOver) = <<>>
        BY <1>1, <3>3, SentencesNone
      <4>3. Sentences(done) \in Seq(Seq(Words))
        BY EndedFacts
      <4>4. Sentences(done) \o <<>> = Sentences(done)
        BY <4>3, ConcatEmptySeq
      <4> QED BY <3>4, <4>1, <4>2, <4>4
    <3>6. FirstFiles(it) = FirstFiles(it - 1) \o Sentences(content)
      BY <1>0, <1>2, <2>1, NextFile DEF content
    <3>7. Sentences(content) \in Seq(Seq(Words))
      BY <3>5, EndedFacts
    <3>8. Said(FirstFiles(it)) = Said(FirstFiles(it - 1)) \o Said(Sentences(content))
      BY <1>3, <3>6, <3>7, SaidConcat
    <3> QED BY <3>1, <3>5, <3>8 DEF ReadUpTo
  <2>2. CASE ~files[it].exists
    <3>1. FirstFiles(it) = FirstFiles(it - 1) \o <<>>
      BY <1>0, <1>2, <2>2, NextFile
    <3>2. FirstFiles(it - 1) \o <<>> = FirstFiles(it - 1)
      BY <1>3, ConcatEmptySeq
    <3>3. Said(returned) = Said(FirstFiles(it - 1))
      BY <1>1, <2>2 DEF ReaderInv, Between
    <3> QED BY <3>1, <3>2, <3>3
  <2> QED BY <2>1, <2>2
<1>5. Between'
  <2>1. it' - 1 = it
    BY <1>1, <1>2
  <2>2. FirstFiles(it - 1)' = FirstFiles(it)
    BY <1>1, <2>1 DEF FirstFiles
  <2> QED BY <1>1, <1>4, <2>2 DEF Between
<1>6. it' <= Len(files) + 1
  BY <1>1, <1>2
<1> QED BY <1>1, <1>5, <1>6 DEF ReaderInv

LEMMA OpenFileReaderInv ==
  ASSUME ReaderInv, ReaderType', OpenFile
  PROVE  ReaderInv'
<1>0. ReaderType
  BY DEF ReaderInv
<1>1. /\ ~finished /\ stream = Null /\ it <= Len(files)
      /\ stream' = [lines |-> files[it].lines, good |-> files[it].exists]
      /\ UNCHANGED <<files, it, leftOver, returned, finished>>
  BY DEF OpenFile
<1>2. /\ Len(files) \in Nat /\ it \in 1 .. Len(files) /\ it - 1 \in 0 .. Len(files)
      /\ files[it].exists \in BOOLEAN /\ files[it].lines \in Seq(Seq(Characters))
  <2>1. Len(files) \in Nat /\ it \in 1 .. Len(files)
    BY <1>0, <1>1, FileFacts DEF ReaderType
  <2>2. it - 1 \in 0 .. Len(files)
    BY <2>1
  <2> QED BY <1>0, <2>1, <2>2, FileFacts
<1>3. stream' # Null /\ stream'.lines = files[it].lines /\ stream'.good = files[it].exists
  BY <1>1, <1>2, NotNull
<1>4. leftOver = Null /\ Said(returned) = Said(FirstFiles(it - 1))
  BY <1>1 DEF ReaderInv, Between
<1>5. CASE files[it].exists
  <2>1. <<>> \in Line /\ Whole(<<>>) /\ Stops(<<>>) = {}
    BY ContentNone DEF Whole, Stops
  <2>2. LeftOver' = <<>>
    BY <1>1, <1>4 DEF LeftOver
  <2>3. Content(files[it].lines) = <<>> \o (LeftOver' \o Content(stream'.lines))
    <3>1. Content(files[it].lines) \in Line
      BY <1>2, LinedFacts
    <3>2. <<>> \o Content(files[it].lines) = Content(files[it].lines)
      BY <3>1, ConcatEmptySeq DEF Line
    <3> QED BY <1>3, <2>2, <3>2
  <2>4. Said(returned') = Said(FirstFiles(it - 1)) \o Said(Sentences(<<>>))
    <3>1. Sentences(<<>>) = <<>>
      BY <2>1, SentencesNone
    <3>2. FirstFiles(it - 1) \in Seq(Seq(Words))
      BY <1>0, <1>2, FirstFilesFacts
    <3>3. Said(FirstFiles(it - 1)) \in Seq(Seq(Words)) /\ Said(<<>>) = <<>>
      BY <3>2, KeptFacts, SaysNothing
    <3>4. Said(FirstFiles(it - 1)) \o <<>> = Said(FirstFiles(it - 1))
      BY <3>3, ConcatEmptySeq
    <3> QED BY <1>1, <1>4, <3>1, <3>3, <3>4
  <2> QED BY <1>1, <1>2, <1>3, <1>5, <2>1, <2>3, <2>4, StaysInFile
<1>6. CASE ~files[it].exists
  <2>1. FirstFiles(it - 1)' = FirstFiles(it - 1)
    BY <1>1, SameFiles
  <2>2. Between'
    BY <1>1, <1>4, <2>1 DEF Between
  <2>3. it <= Len(files) + 1
    BY <1>2
  <2> QED BY <1>1, <1>3, <1>6, <2>2, <2>3 DEF ReaderInv
<1> QED BY <1>5, <1>6

LEMMA FinishReaderInv ==
  ASSUME ReaderInv, ReaderType', Finish
  PROVE  ReaderInv'
<1>1. /\ stream = Null /\ it = Len(files) + 1 /\ returned' = Append(returned, <<>>)
      /\ UNCHANGED <<files, it, stream, leftOver>>
  BY DEF Finish
<1>2. Said(returned') = Said(returned)
  <2>1. returned \in Seq(Seq(Words))
    BY DEF ReaderInv, ReaderType
  <2> QED BY <1>1, <2>1, SaysNothing
<1>3. FirstFiles(it - 1)' = FirstFiles(it - 1)
  BY <1>1, SameFiles
<1>4. Between'
  BY <1>1, <1>2, <1>3 DEF ReaderInv, Between
<1> QED BY <1>1, <1>4 DEF ReaderInv

LEMMA NextReaderInv == ReaderInv /\ [Next]_vars => ReaderInv'
<1> SUFFICES ASSUME ReaderInv, [Next]_vars PROVE ReaderInv'
  OBVIOUS
<1>1. CASE UNCHANGED readerVars
  <2>1. UNCHANGED <<files, it, stream, leftOver, returned, finished>>
    BY <1>1 DEF readerVars
  <2>2. FirstFiles(it - 1)' = FirstFiles(it - 1)
    BY <2>1, SameFiles
  <2>3. ReaderType'
    BY <2>1 DEF ReaderInv, ReaderType
  <2>4. Between => Between'
    BY <2>1, <2>2 DEF Between
  <2>5. ASSUME NEW done \in Line, ReadUpTo(done) PROVE ReadUpTo(done)'
    <3>1. LeftOver' = LeftOver
      BY <2>1 DEF LeftOver
    <3> QED BY <2>1, <2>2, <2>5, <3>1 DEF ReadUpTo
  <2>6. (\E done \in Line : ReadUpTo(done)) => \E done \in Line : ReadUpTo(done)'
    BY <2>5
  <2> QED BY <2>1, <2>3, <2>4, <2>6 DEF ReaderInv
<1>2. CASE ReadSentence
  <2>1. GetNextSentenceTokens
    BY <1>2 DEF ReadSentence
  <2>2. ReaderType'
    BY <2>1, CallReaderType DEF ReaderInv
  <2> QED BY <2>1, <2>2, FromLeftOverReaderInv, ReadOnReaderInv, CloseFileReaderInv,
             OpenFileReaderInv, FinishReaderInv DEF GetNextSentenceTokens
<1>3. UNCHANGED vars => UNCHANGED readerVars
  BY DEF vars
<1>4. ASSUME NEW symbols, NEW level, ProduceMapping(symbols, level) PROVE UNCHANGED readerVars
  BY <1>4 DEF ProduceMapping
<1> QED BY <1>1, <1>2, <1>3, <1>4 DEF Next, StoreSentence, Cleanup, AddToMapping

-----------------------------------------------------------------------------
(***************************************************************************)
(* What the first files say, all of them say first.                        *)
(***************************************************************************)
LEMMA PrefixOfConcat ==
  ASSUME NEW S, NEW s \in Seq(S), NEW t \in Seq(S)
  PROVE  IsPrefix(s, s \o t)
<1> DEFINE c == s \o t
<1>0. Len(s) \in Nat /\ Len(t) \in Nat
  BY LenProperties
<1>1. Len(c) = Len(s) + Len(t)
  BY ConcatProperties
<1>2. SubSeq(c, 1, Len(s)) = SubSeq(s, 1, Len(s))
  <2>1. CASE s = <<>>
    <3>1. Len(s) = 0 /\ 1 \in Int /\ 0 \in Int
      BY <2>1, EmptySeq
    <3> QED BY <3>1, SubSeqEmpty
  <2>2. CASE s # <<>>
    <3>1. 1 \in 1 .. Len(s) /\ Len(s) \in 1 .. Len(s)
      BY <1>0, <2>2, EmptySeq
    <3> QED BY <3>1, SubSeqOfConcat1
  <2> QED BY <2>1, <2>2
<1> HIDE DEF c
<1>3. Len(s) <= Len(c)
  BY <1>0, <1>1
<1>4. IsPrefix(s, c)
  BY <1>2, <1>3 DEF IsPrefix
<1> QED BY <1>4 DEF c

\* All the files say what the first n say and something behind it.
LEMMA FirstFilesFirst ==
  ASSUME ReaderType, NEW n \in 0 .. Len(files)
  PROVE  \E t \in Seq(Seq(Words)) : Said(FirstFiles(Len(files))) = Said(FirstFiles(n)) \o t
<1> DEFINE all == Said(FirstFiles(Len(files)))
           Fewer == {m \in Nat : m <= Len(files) =>
                       \E t \in Seq(Seq(Words)) : all = Said(FirstFiles(Len(files) - m)) \o t}
<1>0. Len(files) \in Nat
  BY FileFacts
<1>1. \A k \in 0 .. Len(files) : FirstFiles(k) \in Seq(Seq(Words)) /\ Said(FirstFiles(k)) \in Seq(Seq(Words))
  BY FirstFilesFacts, KeptFacts
<1>2. ASSUME NEW k \in 1 .. Len(files)
      PROVE  \E u \in Seq(Seq(Words)) : Said(FirstFiles(k)) = Said(FirstFiles(k - 1)) \o u
  <2> DEFINE ss == IF files[k].exists THEN Sentences(Content(files[k].lines)) ELSE <<>>
  <2>1. FirstFiles(k) = FirstFiles(k - 1) \o ss
    BY NextFile
  <2>2. ss \in Seq(Seq(Words))
    <3>1. Content(files[k].lines) \in Line
      BY FileFacts, LinedFacts
    <3>2. Sentences(Content(files[k].lines)) \in Seq(Seq(Words)) /\ <<>> \in Seq(Seq(Words))
      BY <3>1, EndedFacts
    <3> QED BY <3>2
  <2>3. FirstFiles(k - 1) \in Seq(Seq(Words))
    <3>1. k - 1 \in 0 .. Len(files)
      BY <1>0
    <3> QED BY <1>1, <3>1
  <2> HIDE DEF ss
  <2>4. Said(FirstFiles(k)) = Said(FirstFiles(k - 1)) \o Said(ss) /\ Said(ss) \in Seq(Seq(Words))
    BY <2>1, <2>2, <2>3, SaidConcat, KeptFacts
  <2> QED BY <2>4
<1>3. 0 \in Fewer
  <2>1. Len(files) - 0 = Len(files) /\ all \in Seq(Seq(Words)) /\ <<>> \in Seq(Seq(Words))
    <3>1. Len(files) \in 0 .. Len(files) /\ Len(files) - 0 = Len(files)
      BY <1>0
    <3> QED BY <1>1, <3>1
  <2>2. all = all \o <<>>
    BY <2>1, ConcatEmptySeq
  <2> QED BY <2>1, <2>2
<1>4. ASSUME NEW m \in Nat, m \in Fewer PROVE m + 1 \in Fewer
  <2>0. m + 1 \in Nat
    OBVIOUS
  <2> SUFFICES ASSUME m + 1 <= Len(files)
               PROVE  \E t \in Seq(Seq(Words)) : all = Said(FirstFiles(Len(files) - (m + 1))) \o t
    <3> HIDE DEF all
    <3> QED BY <2>0, Zenon
  <2> DEFINE k == Len(files) - m
  <2>1. m <= Len(files) /\ k \in 1 .. Len(files) /\ k - 1 = Len(files) - (m + 1) /\ k - 1 \in 0 .. Len(files)
    BY <1>0
  <2>2. PICK t \in Seq(Seq(Words)) : all = Said(FirstFiles(k)) \o t
    BY <1>4, <2>1
  <2> HIDE DEF k, Fewer, all
  <2>3. PICK u \in Seq(Seq(Words)) : Said(FirstFiles(k)) = Said(FirstFiles(k - 1)) \o u
    BY <1>2, <2>1
  <2>4. Said(FirstFiles(k - 1)) \in Seq(Seq(Words))
    BY <1>1, <2>1
  <2>5. /\ Joined(Joined(Said(FirstFiles(k - 1)), u), t) = Joined(Said(FirstFiles(k - 1)), Joined(u, t))
        /\ Joined(u, t) \in Seq(Seq(Words))
    BY <2>4, JoinedAssociative
  <2>6. all = Said(FirstFiles(k - 1)) \o Joined(u, t)
    BY <2>2, <2>3, <2>5 DEF Joined
  <2> QED BY <2>1, <2>5, <2>6
<1>5. \A m \in Nat : m \in Fewer
  <2> HIDE DEF Fewer
  <2> QED BY <1>3, <1>4, SimpleInduction
<1>6. Len(files) - n \in Nat /\ Len(files) - n <= Len(files) /\ Len(files) - (Len(files) - n) = n
  BY <1>0
<1>7. Len(files) - n \in Fewer
  <2> HIDE DEF Fewer
  <2> QED BY <1>5, <1>6
<1> QED BY <1>6, <1>7

LEMMA ReaderInvReads == ReaderInv => ReadsEverySentence
<1> SUFFICES ASSUME ReaderInv PROVE ReadsEverySentence
  OBVIOUS
<1> DEFINE all == Said(FirstFiles(Len(files)))
<1>0. ReaderType /\ Len(files) \in Nat /\ it \in Nat \ {0} /\ it <= Len(files) + 1
  BY FileFacts DEF ReaderInv, ReaderType
<1>1. finished => Said(returned) = all
  <2> SUFFICES ASSUME finished PROVE Said(returned) = all
    OBVIOUS
  <2>1. it - 1 = Len(files) /\ Said(returned) = Said(FirstFiles(it - 1))
    <3>1. it = Len(files) + 1 /\ Said(returned) = Said(FirstFiles(it - 1))
      BY DEF ReaderInv, Between
    <3> QED BY <1>0, <3>1
  <2> QED BY <2>1
<1>2. \E t \in Seq(Seq(Words)) : all = Said(returned) \o t
  <2>1. it - 1 \in 0 .. Len(files)
    BY <1>0
  <2>2. CASE Said(returned) = Said(FirstFiles(it - 1))
    BY <1>0, <2>1, <2>2, FirstFilesFirst
  <2>3. CASE Said(returned) # Said(FirstFiles(it - 1))
    <3>1. stream # Null /\ it <= Len(files) /\ files[it].exists
      BY <2>3 DEF ReaderInv, Between
    <3>2. PICK done \in Line : ReadUpTo(done)
      BY <3>1 DEF ReaderInv
    <3> DEFINE rest == LeftOver \o Content(stream.lines)
    <3>3. it \in 1 .. Len(files) /\ it \in 0 .. Len(files)
      BY <1>0, <3>1
    <3>4. rest \in Line
      <4>1. LeftOver \in Line
        BY <1>0, ContentNone DEF LeftOver, ReaderType
      <4>2. stream.lines \in Seq(Seq(Characters))
        BY <1>0, <3>1 DEF ReaderType
      <4>3. Content(stream.lines) \in Line
        BY <4>2, LinedFacts
      <4> QED BY <4>1, <4>3, ConcatProperties DEF Line
    <3>5. Whole(done) /\ Content(files[it].lines) = done \o rest
      BY <3>2 DEF ReadUpTo
    <3>6. Said(returned) = Said(FirstFiles(it - 1)) \o Said(Sentences(done))
      BY <3>2 DEF ReadUpTo
    <3> HIDE DEF rest, all
    <3>7. FirstFiles(it) = FirstFiles(it - 1) \o (Sentences(done) \o Sentences(rest))
      <4>1. FirstFiles(it) = FirstFiles(it - 1) \o Sentences(Content(files[it].lines))
        BY <1>0, <3>1, <3>3, NextFile
      <4> QED BY <3>4, <3>5, <4>1, SentencesConcat
    <3>8. /\ Sentences(done) \in Seq(Seq(Words)) /\ Sentences(rest) \in Seq(Seq(Words))
          /\ FirstFiles(it - 1) \in Seq(Seq(Words))
      BY <1>0, <2>1, <3>4, EndedFacts, FirstFilesFacts
    <3> DEFINE a == Said(FirstFiles(it - 1))
               b == Said(Sentences(done))
               c == Said(Sentences(rest))
    <3>9. a \in Seq(Seq(Words)) /\ b \in Seq(Seq(Words)) /\ c \in Seq(Seq(Words))
      BY <3>8, KeptFacts
    <3>10. Said(FirstFiles(it)) = a \o (b \o c)
      <4>1. /\ Sentences(done) \o Sentences(rest) \in Seq(Seq(Words))
            /\ Said(Sentences(done) \o Sentences(rest)) = b \o c
        BY <3>8, SaidConcat
      <4> QED BY <3>7, <3>8, <4>1, SaidConcat
    <3>11. PICK t \in Seq(Seq(Words)) : all = Said(FirstFiles(it)) \o t
      BY <1>0, <3>3, FirstFilesFirst DEF all
    <3>12. Said(returned) = a \o b
      BY <3>6
    <3> HIDE DEF a, b, c
    <3>13. /\ Joined(a, b) \in Seq(Seq(Words)) /\ Joined(c, t) \in Seq(Seq(Words))
           /\ Joined(Joined(a, b), c) = Joined(a, Joined(b, c))
      BY <3>9, JoinedAssociative
    <3>14. Joined(Joined(Joined(a, b), c), t) = Joined(Joined(a, b), Joined(c, t))
      BY <3>9, <3>13, JoinedAssociative
    <3>15. all = Joined(Joined(a, Joined(b, c)), t) /\ Said(returned) = Joined(a, b)
      BY <3>10, <3>11, <3>12 DEF Joined
    <3>16. all = Said(returned) \o Joined(c, t)
      BY <3>13, <3>14, <3>15 DEF Joined
    <3> QED BY <3>13, <3>16
  <2> QED BY <2>2, <2>3
<1>3. Said(returned) \in Seq(Seq(Words))
  BY <1>0, KeptFacts DEF ReaderType
<1> HIDE DEF all
<1>4. IsPrefix(Said(returned), all)
  BY <1>2, <1>3, PrefixOfConcat
<1> QED BY <1>1, <1>4 DEF ReadsEverySentence, all

\* GetNextSentenceTokens returns the sentences of the files that exist, each once,
\* whole and in the order of the text, wherever the lines, the words and the files
\* end, and all of them when it says that it has finished reading.
THEOREM SentencesAreRead == Spec => []ReadsEverySentence
<1>1. Init => ReaderInv
  BY InitReaderInv
<1>2. ReaderInv /\ [Next]_vars => ReaderInv'
  BY NextReaderInv
<1>3. ReaderInv => ReadsEverySentence
  BY ReaderInvReads
<1> QED BY <1>1, <1>2, <1>3, PTL DEF Spec

-----------------------------------------------------------------------------
(***************************************************************************)
(* The order of the keys.                                                  *)
(***************************************************************************)
\* k and l differ at m for the first time, and k comes first.
Before(k, l, m) ==
  /\ m \in Nat \ {0} /\ m <= Len(l) /\ m <= Len(k) + 1
  /\ \A j \in 1 .. (m - 1) : k[j] = l[j]
  /\ m <= Len(k) => k[m] < l[m]

LEMMA SameBeginning ==
  ASSUME NEW k \in Seq(Int), NEW l \in Seq(Int), NEW n \in Nat, n <= Len(k), n <= Len(l)
  PROVE  SubSeq(k, 1, n) = SubSeq(l, 1, n) <=> \A j \in 1 .. n : k[j] = l[j]
<1>0. Len(k) \in Nat /\ Len(l) \in Nat
  BY LenProperties
<1>1. ASSUME NEW s \in Seq(Int), n <= Len(s)
      PROVE  /\ SubSeq(s, 1, n) \in Seq(Int) /\ Len(SubSeq(s, 1, n)) = n
             /\ \A j \in 1 .. n : SubSeq(s, 1, n)[j] = s[j]
  <2>1. \A j \in 1 .. n : s[j] \in Int
    <3>1. Len(s) \in Nat /\ \A j \in 1 .. n : j \in 1 .. Len(s)
      BY <1>1, LenProperties
    <3> QED BY <3>1, ElementOfSeq
  <2>2. /\ SubSeq(s, 1, n) \in Seq(Int)
        /\ Len(SubSeq(s, 1, n)) = IF 1 <= n THEN n - 1 + 1 ELSE 0
        /\ \A j \in 1 .. (n - 1 + 1) : SubSeq(s, 1, n)[j] = s[1 + j - 1]
    <3>1. 1 \in Int /\ n \in Int
      OBVIOUS
    <3> QED BY <2>1, <3>1, SubSeqProperties
  <2> QED BY <2>2
<1> DEFINE a == SubSeq(k, 1, n)
           b == SubSeq(l, 1, n)
<1>2. /\ a \in Seq(Int) /\ Len(a) = n /\ \A j \in 1 .. n : a[j] = k[j]
      /\ b \in Seq(Int) /\ Len(b) = n /\ \A j \in 1 .. n : b[j] = l[j]
  BY <1>1
<1> HIDE DEF a, b
<1>3. (\A j \in 1 .. n : a[j] = b[j]) => a = b
  BY <1>2, SeqEqual
<1>4. a = b <=> \A j \in 1 .. n : k[j] = l[j]
  BY <1>2, <1>3
<1> QED BY <1>4 DEF a, b

LEMMA PrecedesBefore ==
  ASSUME NEW k \in Seq(Int), NEW l \in Seq(Int)
  PROVE  N!Precedes(k, l) <=> \E m : Before(k, l, m)
<1>0. /\ Len(k) \in Nat /\ Len(l) \in Nat
      /\ DOMAIN k = 1 .. Len(k) /\ DOMAIN l = 1 .. Len(l)
  BY LenProperties
<1>1. ASSUME k # l, N!IsPrefix(k, l) PROVE \E m : Before(k, l, m)
  <2>1. Len(k) <= Len(l) /\ SubSeq(k, 1, Len(k)) = SubSeq(l, 1, Len(k))
    BY <1>1 DEF N!IsPrefix
  <2>2. \A j \in 1 .. Len(k) : k[j] = l[j]
    <3>1. Len(k) <= Len(k)
      BY <1>0
    <3> QED BY <1>0, <2>1, <3>1, SameBeginning
  <2>3. Len(k) # Len(l)
    BY <1>1, <2>2, SeqEqual
  <2>4. /\ Len(k) + 1 \in Nat \ {0} /\ Len(k) + 1 <= Len(l) /\ (Len(k) + 1) - 1 = Len(k)
        /\ ~(Len(k) + 1 <= Len(k)) /\ Len(k) + 1 <= Len(k) + 1
    <3>1. \A x, y \in Nat : x <= y /\ x # y =>
            /\ x + 1 \in Nat \ {0} /\ x + 1 <= y /\ (x + 1) - 1 = x
            /\ ~(x + 1 <= x) /\ x + 1 <= x + 1
      OBVIOUS
    <3> QED BY <1>0, <2>1, <2>3, <3>1
  <2>5. Before(k, l, Len(k) + 1)
    BY <2>2, <2>4 DEF Before
  <2> QED BY <2>5
<1>2. ASSUME NEW i \in DOMAIN k \cap DOMAIN l,
             SubSeq(k, 1, i - 1) = SubSeq(l, 1, i - 1), k[i] < l[i]
      PROVE  Before(k, l, i)
  <2>1. /\ i \in Nat \ {0} /\ i <= Len(k) /\ i <= Len(l) /\ i <= Len(k) + 1
        /\ i - 1 \in Nat /\ i - 1 <= Len(k) /\ i - 1 <= Len(l)
    BY <1>0
  <2>2. \A j \in 1 .. (i - 1) : k[j] = l[j]
    BY <1>2, <2>1, SameBeginning
  <2> QED BY <1>2, <2>1, <2>2 DEF Before
<1>3. ASSUME NEW m, Before(k, l, m), m <= Len(k) PROVE N!Precedes(k, l)
  <2>1. /\ m \in DOMAIN k \cap DOMAIN l /\ k[m] < l[m]
        /\ m - 1 \in Nat /\ m - 1 <= Len(k) /\ m - 1 <= Len(l)
        /\ \A j \in 1 .. (m - 1) : k[j] = l[j]
    BY <1>0, <1>3 DEF Before
  <2>2. SubSeq(k, 1, m - 1) = SubSeq(l, 1, m - 1)
    BY <2>1, SameBeginning
  <2> QED BY <2>1, <2>2 DEF N!Precedes
<1>4. ASSUME NEW m, Before(k, l, m), ~(m <= Len(k)) PROVE N!Precedes(k, l)
  <2>1. m = Len(k) + 1 /\ m - 1 = Len(k) /\ Len(k) <= Len(l) /\ Len(k) <= Len(k) /\ Len(k) # Len(l)
        /\ \A j \in 1 .. Len(k) : k[j] = l[j]
    <3>1. \A x, y \in Nat : m \in Nat /\ ~(m <= x) /\ m <= x + 1 /\ m <= y =>
            m = x + 1 /\ m - 1 = x /\ x <= y /\ x <= x /\ x # y
      OBVIOUS
    <3>2. /\ m \in Nat /\ ~(m <= Len(k)) /\ m <= Len(k) + 1 /\ m <= Len(l)
          /\ \A j \in 1 .. (m - 1) : k[j] = l[j]
      BY <1>4 DEF Before
    <3>3. m = Len(k) + 1 /\ m - 1 = Len(k) /\ Len(k) <= Len(l) /\ Len(k) <= Len(k) /\ Len(k) # Len(l)
      BY <1>0, <3>1, <3>2
    <3> QED BY <3>2, <3>3
  <2>2. SubSeq(k, 1, Len(k)) = SubSeq(l, 1, Len(k))
    BY <1>0, <2>1, SameBeginning
  <2>3. k # l /\ N!IsPrefix(k, l)
    BY <2>1, <2>2 DEF N!IsPrefix
  <2> QED BY <2>3 DEF N!Precedes
<1>5. N!Precedes(k, l) => \E m : Before(k, l, m)
  BY <1>1, <1>2 DEF N!Precedes
<1> QED BY <1>3, <1>4, <1>5

\* The keys are in a total order, as strcmp gives it.
LEMMA KeyOrder ==
  ASSUME NEW keys \in SUBSET Seq(Int)
  PROVE  /\ \A k \in keys : ~N!Precedes(k, k)
         /\ \A k, l, h \in keys : N!Precedes(k, l) /\ N!Precedes(l, h) => N!Precedes(k, h)
         /\ \A k, l \in keys : k # l => N!Precedes(k, l) \/ N!Precedes(l, k)
<1>0. \A k \in keys : /\ k \in Seq(Int) /\ Len(k) \in Nat
                      /\ \A i \in 1 .. Len(k) : k[i] \in Int
  BY LenProperties, ElementOfSeq
<1>1. ASSUME NEW k \in keys, N!Precedes(k, k) PROVE FALSE
  <2>1. PICK m : Before(k, k, m)
    BY <1>0, <1>1, PrecedesBefore
  <2>2. m \in 1 .. Len(k) /\ k[m] < k[m]
    BY <1>0, <2>1 DEF Before
  <2>3. k[m] \in Int
    BY <1>0, <2>2
  <2> QED BY <2>2, <2>3
<1>2. ASSUME NEW k \in keys, NEW l \in keys, NEW h \in keys, N!Precedes(k, l), N!Precedes(l, h)
      PROVE  N!Precedes(k, h)
  <2>1. PICK m : Before(k, l, m)
    BY <1>0, <1>2, PrecedesBefore
  <2>2. PICK n : Before(l, h, n)
    BY <1>0, <1>2, PrecedesBefore
  <2>3. /\ m \in Nat \ {0} /\ m <= Len(l) /\ m <= Len(k) + 1
        /\ (\A j \in 1 .. (m - 1) : k[j] = l[j]) /\ (m <= Len(k) => k[m] < l[m])
        /\ n \in Nat \ {0} /\ n <= Len(h) /\ n <= Len(l) + 1
        /\ (\A j \in 1 .. (n - 1) : l[j] = h[j]) /\ (n <= Len(l) => l[n] < h[n])
        /\ Len(k) \in Nat /\ Len(l) \in Nat /\ Len(h) \in Nat
    BY <1>0, <2>1, <2>2 DEF Before
  <2>4. \E p : Before(k, h, p)
    <3>1. CASE m < n
      <4>1. /\ m <= Len(h) /\ m \in 1 .. (n - 1)
            /\ \A j \in 1 .. (m - 1) : j \in 1 .. (n - 1)
        <5>1. \A x \in Nat : n <= x => m <= x
          BY <2>3, <3>1
        <5>2. m \in 1 .. (n - 1) /\ \A j \in 1 .. (m - 1) : j \in 1 .. (n - 1)
          BY <2>3, <3>1
        <5> QED BY <2>3, <5>1, <5>2
      <4>2. l[m] = h[m] /\ \A j \in 1 .. (m - 1) : k[j] = h[j]
        BY <2>3, <4>1
      <4>3. Before(k, h, m)
        BY <2>3, <4>1, <4>2 DEF Before
      <4> QED BY <4>3
    <3>2. CASE n < m
      <4>1. /\ n <= Len(l) /\ n <= Len(k) + 1 /\ n \in 1 .. (m - 1)
            /\ \A j \in 1 .. (n - 1) : j \in 1 .. (m - 1)
        <5>1. \A x, y \in Nat : m <= x + 1 /\ m <= y => n <= y /\ n <= x + 1
          BY <2>3, <3>2
        <5>2. n \in 1 .. (m - 1) /\ \A j \in 1 .. (n - 1) : j \in 1 .. (m - 1)
          BY <2>3, <3>2
        <5> QED BY <2>3, <5>1, <5>2
      <4>2. k[n] = l[n] /\ l[n] < h[n] /\ \A j \in 1 .. (n - 1) : k[j] = h[j]
        BY <2>3, <4>1
      <4>3. Before(k, h, n)
        BY <2>3, <4>1, <4>2 DEF Before
      <4> QED BY <4>3
    <3>3. CASE m = n
      <4>1. \A j \in 1 .. (m - 1) : k[j] = h[j]
        BY <2>3, <3>3
      <4>2. m <= Len(k) => k[m] < h[m]
        <5> SUFFICES ASSUME m <= Len(k) PROVE k[m] < h[m]
          OBVIOUS
        <5>1. m \in 1 .. Len(k) /\ m \in 1 .. Len(l) /\ m \in 1 .. Len(h)
          BY <2>3, <3>3
        <5>2. k[m] \in Int /\ l[m] \in Int /\ h[m] \in Int
          BY <1>0, <5>1
        <5>3. k[m] < l[m] /\ l[m] < h[m]
          BY <2>3, <3>3
        <5> QED BY <5>2, <5>3
      <4>3. Before(k, h, m)
        BY <2>3, <3>3, <4>1, <4>2 DEF Before
      <4> QED BY <4>3
    <3> QED BY <2>3, <3>1, <3>2, <3>3
  <2> QED BY <1>0, <2>4, PrecedesBefore
<1>3. ASSUME NEW k \in keys, NEW l \in keys, k # l
      PROVE  N!Precedes(k, l) \/ N!Precedes(l, k)
  <2> DEFINE Other(m) == \/ m = Len(k) + 1 \/ m = Len(l) + 1
                         \/ m \in 1 .. Len(k) /\ m \in 1 .. Len(l) /\ k[m] # l[m]
             T == {m \in Nat \ {0} : Other(m)}
  <2>0. Len(k) \in Nat /\ Len(l) \in Nat /\ k \in Seq(Int) /\ l \in Seq(Int)
    BY <1>0
  <2>1. T \in SUBSET Nat /\ T # {}
    <3>1. Len(k) + 1 \in T
      BY <2>0
    <3> QED BY <3>1
  <2>2. PICK m \in T : \A n \in T : m <= n
    <3> HIDE DEF T
    <3> QED BY <2>1, LeastNatural
  <2>3. m \in Nat \ {0} /\ m <= Len(k) + 1 /\ m <= Len(l) + 1
    <3>1. Len(k) + 1 \in T /\ Len(l) + 1 \in T
      BY <2>0
    <3> HIDE DEF Other
    <3> QED BY <2>2, <3>1
  <2>4. ASSUME NEW j \in 1 .. (m - 1) PROVE k[j] = l[j]
    <3>1. j \in Nat \ {0} /\ ~(m <= j) /\ j \in 1 .. Len(k) /\ j \in 1 .. Len(l)
      BY <2>0, <2>3
    <3>2. j \notin T
      <4> HIDE DEF T
      <4> QED BY <2>2, <3>1
    <3> QED BY <3>1, <3>2
  <2>5. Other(m)
    BY <2>2
  <2>6. ~(m = Len(k) + 1 /\ m = Len(l) + 1)
    <3> SUFFICES ASSUME m = Len(k) + 1, m = Len(l) + 1 PROVE FALSE
      OBVIOUS
    <3>1. m - 1 = Len(k) /\ Len(k) = Len(l)
      BY <2>0
    <3>2. \A j \in 1 .. Len(k) : k[j] = l[j]
      BY <2>4, <3>1
    <3> QED BY <1>3, <2>0, <3>1, <3>2, SeqEqual
  <2> HIDE DEF T
  <2>7. Before(k, l, m) \/ Before(l, k, m)
    <3>1. CASE m = Len(k) + 1
      <4>1. m <= Len(l) /\ ~(m <= Len(k))
        BY <2>0, <2>3, <2>6, <3>1
      <4>2. Before(k, l, m)
        BY <2>3, <2>4, <4>1 DEF Before
      <4> QED BY <4>2
    <3>2. CASE m # Len(k) + 1 /\ m = Len(l) + 1
      <4>1. m <= Len(k) /\ ~(m <= Len(l))
        BY <2>0, <2>3, <3>2
      <4>2. Before(l, k, m)
        BY <2>3, <2>4, <4>1 DEF Before
      <4> QED BY <4>2
    <3>3. CASE m # Len(k) + 1 /\ m # Len(l) + 1
      <4>1. m \in 1 .. Len(k) /\ m \in 1 .. Len(l) /\ k[m] # l[m] /\ m <= Len(k) /\ m <= Len(l)
        BY <2>0, <2>5, <3>3
      <4>2. k[m] \in Int /\ l[m] \in Int
        BY <1>0, <4>1
      <4>3. k[m] < l[m] \/ l[m] < k[m]
        BY <4>1, <4>2
      <4> QED BY <2>3, <2>4, <4>1, <4>3 DEF Before
    <3> QED BY <3>1, <3>2, <3>3
  <2> QED BY <2>0, <2>7, PrecedesBefore
<1> QED BY <1>1, <1>2, <1>3

-----------------------------------------------------------------------------
(***************************************************************************)
(* There are finitely many keys, and they consist of letters.              *)
(***************************************************************************)
KeysOf(map) == IsFiniteSet(DOMAIN map) /\ DOMAIN map \subseteq Seq(Letters)

KeysInv == \A n \in N!Sizes : KeysOf(maps[n])

LEMMA GramOfWords ==
  ASSUME NEW n \in Nat, NEW g, IsGram(g, n), NEW W, \A i \in 1 .. n : g[i] \in W
  PROVE  g \in Seq(W) /\ Len(g) = n /\ DOMAIN g = 1 .. n
<1>1. g \in [1 .. n -> W]
  BY DEF IsGram
<1>2. g \in Seq(W) /\ DOMAIN g = 1 .. n
  BY <1>1
<1> QED BY <1>2, GramLength

LEMMA KeyType ==
  ASSUME NEW n \in Nat, NEW g, IsGram(g, n), \A i \in 1 .. n : g[i] \in Seq(Letters)
  PROVE  N!Key(g) \in Seq(Letters)
<1>1. g \in Seq(Seq(Letters))
  BY GramOfWords
<1>2. FlattenSeq(g) \in Seq(Letters)
  BY <1>1, FlattenType
<1> QED BY <1>2, InstanceFlattenSeq DEF N!Key

\* The words that are left are words of the text, and not empty.
LEMMA WordKeys ==
  ASSUME CountsInv
  PROVE  DOMAIN maps[1] \subseteq Words \ {<<>>}
<1> SUFFICES ASSUME NEW word \in DOMAIN maps[1] PROVE word \in Words \ {<<>>}
  OBVIOUS
<1>1. <<word>> \in N!Grams(1) /\ ReaderType /\ read \in 0 .. Len(returned)
  BY DEF CountsInv
<1>2. PICK k \in 1 .. read : Shows(returned[k], 1, <<word>>)
  BY <1>1, GramsShown
<1>3. returned[k] \in Seq(Words)
  <2>1. Len(returned) \in Nat /\ returned \in Seq(Seq(Words))
    BY <1>1, LenProperties DEF ReaderType
  <2>2. k \in 1 .. Len(returned)
    BY <1>1, <2>1
  <2> QED BY <2>1, <2>2, ElementOfSeq
<1> DEFINE s == returned[k]
<1>4. PICK i \in N!Starts(s, 1) : <<word>> = N!Gram(s, 1, i)
  BY <1>2 DEF Shows
<1>5. /\ i \in 1 .. (Len(s) - 1 + 1)
      /\ \A l \in 1 .. 1 : N!Gram(s, 1, i)[l] = s[i + l - 1]
      /\ Len(s) \in Nat
  BY <1>3, <1>4, StartsFacts, LenProperties
<1>6. i \in 1 .. Len(s) /\ i + 1 - 1 = i /\ 1 \in 1 .. 1
  BY <1>5
<1>7. s[i] # <<>>
  BY <1>4 DEF N!Starts, N!Hole
<1> HIDE DEF s
<1>8. s[i] = word
  <2>1. N!Gram(s, 1, i)[1] = s[i]
    BY <1>5, <1>6
  <2>2. <<word>>[1] = word
    OBVIOUS
  <2> QED BY <1>4, <2>1, <2>2
<1>9. s[i] \in Words
  BY <1>3, <1>6, ElementOfSeq DEF s
<1> QED BY <1>7, <1>8, <1>9

\* One more sentence has finitely many n-grams.
LEMMA CountedKeys ==
  ASSUME NEW map, KeysOf(map), NEW s \in Seq(Words), NEW n \in Nat \ {0}
  PROVE  KeysOf(N!Counted(map, s, n))
<1> DEFINE KeyAt(i) == N!Key(N!Gram(s, n, i))
           new == {KeyAt(i) : i \in N!Starts(s, n)}
           f == [i \in N!Starts(s, n) |-> KeyAt(i)]
<1>1. DOMAIN N!Counted(map, s, n) = DOMAIN map \cup new
  BY DEF N!Counted
<1>2. IsFiniteSet(N!Starts(s, n))
  BY StartsFacts
<1>3. new = {f[i] : i \in N!Starts(s, n)}
  OBVIOUS
<1>4. IsFiniteSet(new)
  <2> HIDE DEF f, new
  <2> QED BY <1>2, <1>3, ImageFacts
<1>5. ASSUME NEW i \in N!Starts(s, n) PROVE KeyAt(i) \in Seq(Letters)
  <2> DEFINE g == N!Gram(s, n, i)
  <2>1. /\ i \in 1 .. (Len(s) - n + 1) /\ IsGram(g, n) /\ Len(s) \in Nat
        /\ \A k \in 1 .. n : g[k] = s[i + k - 1]
    BY StartsFacts, LenProperties
  <2> HIDE DEF g
  <2>2. ASSUME NEW k \in 1 .. n PROVE g[k] \in Seq(Letters)
    <3>1. i + k - 1 \in 1 .. Len(s)
      BY <2>1
    <3>2. s[i + k - 1] \in Words
      BY <3>1, ElementOfSeq
    <3> QED BY <2>1, <3>2, WordsType
  <2>3. N!Key(g) \in Seq(Letters)
    BY <2>1, <2>2, KeyType
  <2> QED BY <2>3 DEF g
<1>6. new \subseteq Seq(Letters)
  BY <1>5
<1> HIDE DEF new
<1>7. IsFiniteSet(DOMAIN map \cup new)
  BY <1>4, FS_Union DEF KeysOf
<1> QED BY <1>1, <1>6, <1>7 DEF KeysOf

\* The beginnings that stage VI makes entries for are finitely many.
LEMMA ReducedKeys ==
  ASSUME GramsInv, CountsInv, KeysInv, stage = 6, NEW m \in 2 .. MaxMultiWords
  PROVE  KeysOf(N!Reduced(m))
<1> DEFINE made == {N!Key(N!Beginning(maps[nk[1]][nk[2]].gram, m)) : nk \in N!Longer(m)}
           f == [nk \in N!Longer(m) |-> N!Key(N!Beginning(maps[nk[1]][nk[2]].gram, m))]
           words == DOMAIN maps[1]
<1>0. /\ m \in Nat \ {0} /\ m \in N!Sizes /\ MaxMultiWords \in Nat
      /\ \A n \in 2 .. MaxMultiWords : n \in N!Sizes /\ n \in Nat
  BY SizesFacts
<1>1. ASSUME NEW n \in 2 .. MaxMultiWords
      PROVE  Entries(maps[n], n) /\ WordsIn(maps[n], n, words) /\ KeysOf(maps[n])
  BY <1>0, <1>1 DEF GramsInv, KeysInv
<1>2. DOMAIN N!Reduced(m) = DOMAIN maps[m] \cup made
  <2> HIDE DEF made, words
  <2> QED BY <1>1, ReducedFacts DEF made
<1>3. \A nk \in N!Longer(m) : \E n \in 2 .. MaxMultiWords :
        /\ m <= n /\ nk[1] = n /\ nk[2] \in DOMAIN maps[n]
        /\ nk \in PhrasePairs
  <2> SUFFICES ASSUME NEW nk \in N!Longer(m)
               PROVE  \E n \in 2 .. MaxMultiWords : /\ m <= n /\ nk[1] = n /\ nk[2] \in DOMAIN maps[n]
                                                    /\ nk \in PhrasePairs
    OBVIOUS
  <2>1. PICK n \in (m + 1) .. MaxMultiWords : nk \in {n} \X DOMAIN maps[n]
    BY DEF N!Longer
  <2>2. n \in 2 .. MaxMultiWords /\ m <= n
    BY <1>0, <2>1
  <2> QED BY <2>1, <2>2 DEF PhrasePairs
<1>4. IsFiniteSet(N!Longer(m))
  <2>1. IsFiniteSet(PhrasePairs)
    BY <1>1, PhrasePairsFacts DEF KeysOf
  <2>2. N!Longer(m) \subseteq PhrasePairs
    BY <1>3
  <2> QED BY <2>1, <2>2, FS_Subset
<1>5. made = {f[nk] : nk \in N!Longer(m)}
  OBVIOUS
<1>6. IsFiniteSet(made)
  <2> HIDE DEF f, made
  <2> QED BY <1>4, <1>5, ImageFacts
<1>7. ASSUME NEW nk \in N!Longer(m)
      PROVE  N!Key(N!Beginning(maps[nk[1]][nk[2]].gram, m)) \in Seq(Letters)
  <2>1. PICK n \in 2 .. MaxMultiWords : m <= n /\ nk[1] = n /\ nk[2] \in DOMAIN maps[n]
    BY <1>3
  <2> DEFINE g == maps[n][nk[2]].gram
             b == N!Beginning(g, m)
  <2>2. \A i \in 1 .. n : g[i] \in words
    BY <1>1, <2>1 DEF WordsIn
  <2> HIDE DEF g
  <2>3. IsGram(b, m) /\ \A k \in 1 .. m : b[k] = g[k]
    BY <1>0, BeginningFacts
  <2> HIDE DEF b
  <2>4. \A k \in 1 .. m : b[k] \in Seq(Letters)
    <3>1. \A k \in 1 .. m : k \in 1 .. n
      BY <1>0, <2>1
    <3>2. words \subseteq Seq(Letters)
      BY WordKeys, WordsType
    <3> QED BY <2>2, <2>3, <3>1, <3>2
  <2>5. N!Key(b) \in Seq(Letters)
    BY <1>0, <2>3, <2>4, KeyType
  <2> QED BY <2>1, <2>5 DEF b, g
<1>8. made \subseteq Seq(Letters)
  BY <1>7
<1> HIDE DEF made
<1>9. IsFiniteSet(DOMAIN maps[m] \cup made)
  BY <1>1, <1>6, FS_Union DEF KeysOf
<1> QED BY <1>1, <1>2, <1>8, <1>9 DEF KeysOf

LEMMA OnlyKeys == \A map, keys : KeysOf(map) => KeysOf(N!Only(map, keys))
<1> SUFFICES ASSUME NEW map, NEW keys, KeysOf(map) PROVE KeysOf(N!Only(map, keys))
  OBVIOUS
<1>1. DOMAIN N!Only(map, keys) = DOMAIN map \cap keys
  BY DEF N!Only
<1>2. IsFiniteSet(DOMAIN map \cap keys)
  BY FS_Subset DEF KeysOf
<1> QED BY <1>1, <1>2 DEF KeysOf

\* The other stages only remove entries.
LEMMA CleanupRemoves ==
  ASSUME GramsInv, N!CleanupNGrams, stage # 6, NEW n \in N!Sizes
  PROVE  maps'[n] = maps[n] \/ \E keys : maps'[n] = N!Only(maps[n], keys)
<1> USE SizesFacts
<1>0. maps = [m \in N!Sizes |-> maps[m]]
  BY DEF GramsInv
<1>1. CASE N!RareWords \/ N!LimitWords
  <2>1. PICK keys : maps' = [maps EXCEPT ![1] = N!Only(@, keys)]
    <3>1. CASE N!RareWords
      BY <3>1 DEF N!RareWords
    <3>2. CASE N!LimitWords
      BY <3>2, Zenon DEF N!LimitWords
    <3> QED BY <1>1, <3>1, <3>2
  <2> QED BY <1>0, <2>1
<1>2. CASE N!RarePhrases
  BY <1>2 DEF N!RarePhrases
<1>3. CASE N!PhrasesOfRareWords
  BY <1>3 DEF N!PhrasesOfRareWords
<1>4. CASE N!PhrasesOfRarePrefixes
  BY <1>4, PrefixedFacts DEF N!PhrasesOfRarePrefixes
<1>5. CASE N!FavorLargerPhrases
  BY <1>5 DEF N!FavorLargerPhrases, N!Step
<1>6. CASE N!LimitPhrases
  <2> DEFINE counts == [nk \in UNION {{m} \X DOMAIN maps[m] : m \in 2 .. MaxMultiWords} |->
                          maps[nk[1]][nk[2]].count]
             Left(K) == [m \in N!Sizes |->
                           IF m = 1 THEN maps[1]
                           ELSE N!Only(maps[m], {nk[2] : nk \in {e \in K : e[1] = m}})]
  <2>1. \E K \in N!Limited(counts, MaxMultiSymbols) : maps' = Left(K)
    BY <1>6, Zenon DEF N!LimitPhrases
  <2> HIDE DEF counts, Left
  <2>2. PICK K : maps' = Left(K)
    BY <2>1
  <2> QED BY <2>2 DEF Left
<1> QED BY <1>1, <1>2, <1>3, <1>4, <1>5, <1>6 DEF N!CleanupNGrams

LEMMA InitKeysInv == Init => KeysInv
<1> SUFFICES ASSUME Init, NEW n \in N!Sizes PROVE KeysOf(maps[n])
  BY DEF KeysInv
<1>1. maps[n] = <<>> /\ DOMAIN <<>> = {}
  BY DEF Init, N!Init
<1> QED BY <1>1, FS_EmptySet DEF KeysOf

LEMMA NextKeysInv == GramsInv /\ CountsInv /\ KeysInv /\ [Next]_vars => KeysInv'
<1> SUFFICES ASSUME GramsInv, CountsInv, KeysInv, [Next]_vars, NEW n \in N!Sizes
             PROVE  KeysOf(maps'[n])
  BY DEF KeysInv, N!Sizes
<1>0. KeysOf(maps[n]) /\ n \in Nat \ {0}
  BY SizesFacts DEF KeysInv
<1>1. CASE maps' = maps
  BY <1>0, <1>1
<1>2. CASE ReadSentence \/ AddToMapping \/ UNCHANGED vars
  BY <1>1, <1>2 DEF ReadSentence, AddToMapping, vars, handlerVars
<1>3. ASSUME NEW symbols, NEW level, ProduceMapping(symbols, level) PROVE maps' = maps
  BY <1>3 DEF ProduceMapping, handlerVars
<1>4. CASE StoreSentence
  <2>1. /\ read < Len(returned)
        /\ maps' = [m \in N!Sizes |-> N!Counted(maps[m], returned[read + 1], m)]
    BY <1>4 DEF StoreSentence, N!ExtractAndStoreNGrams
  <2>2. returned[read + 1] \in Seq(Words)
    <3>1. returned \in Seq(Seq(Words)) /\ Len(returned) \in Nat /\ read \in 0 .. Len(returned)
      BY LenProperties DEF CountsInv, ReaderType
    <3>2. read + 1 \in 1 .. Len(returned)
      BY <2>1, <3>1
    <3> QED BY <3>1, <3>2, ElementOfSeq
  <2>3. KeysOf(N!Counted(maps[n], returned[read + 1], n))
    BY <1>0, <2>2, CountedKeys
  <2> QED BY <2>1, <2>3
<1>5. CASE N!FinishReading
  BY <1>1, <1>5 DEF N!FinishReading
<1>6. CASE N!CleanupNGrams /\ stage # 6
  <2>1. maps'[n] = maps[n] \/ \E keys : maps'[n] = N!Only(maps[n], keys)
    BY <1>6, CleanupRemoves
  <2>2. \A keys : KeysOf(N!Only(maps[n], keys))
    BY <1>0, OnlyKeys
  <2> QED BY <1>0, <2>1, <2>2
<1>7. CASE N!FavorLargerPhrases
  <2>1. /\ stage = 6
        /\ maps' = [m \in N!Sizes |-> IF m = 1 THEN maps[1] ELSE N!Reduced(m)]
    BY <1>7 DEF N!FavorLargerPhrases, N!Step
  <2>2. n # 1 => n \in 2 .. MaxMultiWords
    BY SizesFacts
  <2>3. n # 1 => KeysOf(N!Reduced(n))
    BY <2>1, <2>2, ReducedKeys
  <2>4. maps'[n] = IF n = 1 THEN maps[1] ELSE N!Reduced(n)
    BY <2>1
  <2> QED BY <1>0, <2>3, <2>4
<1>8. CASE Cleanup
  <2>1. N!CleanupNGrams => stage # 6 \/ N!FavorLargerPhrases
    BY DEF N!CleanupNGrams, N!RareWords, N!LimitWords, N!RarePhrases, N!PhrasesOfRareWords,
           N!PhrasesOfRarePrefixes, N!LimitPhrases, N!Step
  <2> QED BY <1>5, <1>6, <1>7, <1>8, <2>1 DEF Cleanup
<1>9. CASE ProduceMapping(N!GetSingleWordSymbols, 0) \/ ProduceMapping(N!GetMultiWordSymbols, 1)
  BY <1>1, <1>3, <1>9
<1> QED BY <1>2, <1>4, <1>8, <1>9 DEF Next

-----------------------------------------------------------------------------
(***************************************************************************)
(* What the handler returns are the n-grams that were left.                *)
(***************************************************************************)
Held(s) == {s[i] : i \in DOMAIN s}

LEMMA SymbolsFacts ==
  ASSUME KeysInv, NEW n \in N!Sizes
  PROVE  N!Symbols(n) \in Seq(N!Left(n)) /\ Held(N!Symbols(n)) = N!Left(n)
<1> DEFINE keys == DOMAIN maps[n]
           R == {p \in keys \X keys : N!Precedes(p[1], p[2])}
           Lower(k) == {l \in keys : N!Precedes(l, k)}
           At(i) == CHOOSE k \in keys : N!Cardinality(Lower(k)) = i - 1
           c == Cardinality(keys)
           symbols == N!Symbols(n)
<1>1. IsFiniteSet(keys) /\ keys \in SUBSET Seq(Int)
  <2>1. IsFiniteSet(keys) /\ keys \subseteq Seq(Letters) /\ Letters \subseteq Int
    BY TextReaderAssumption DEF KeysInv, KeysOf
  <2>2. \A k \in Seq(Letters) : k \in Seq(Int)
    <3> SUFFICES ASSUME NEW k \in Seq(Letters) PROVE k \in Seq(Int)
      OBVIOUS
    <3>1. Len(k) \in Nat /\ k \in [1 .. Len(k) -> Letters]
      BY LenProperties
    <3>2. k \in [1 .. Len(k) -> Int]
      BY <2>1, <3>1
    <3> QED BY <3>1, <3>2
  <2> QED BY <2>1, <2>2
<1>2. symbols = [i \in 1 .. c |-> maps[n][At(i)].gram]
  <2>1. symbols = [i \in 1 .. N!Cardinality(keys) |-> maps[n][At(i)].gram]
    BY DEF N!Symbols
  <2> HIDE DEF symbols, At, keys
  <2> QED BY <2>1, InstanceCardinality
<1>3. N!Left(n) = {maps[n][k].gram : k \in keys}
  BY DEF N!Left
<1> HIDE DEF keys, symbols
<1>4. \A k, l \in keys : <<k, l>> \in R <=> N!Precedes(k, l)
  OBVIOUS
<1>5. \A k \in keys : N!Cardinality(Lower(k)) = Rank(R, keys, k)
  <2> SUFFICES ASSUME NEW k \in keys PROVE N!Cardinality(Lower(k)) = Rank(R, keys, k)
    OBVIOUS
  <2>1. Lower(k) = {l \in keys : <<l, k>> \in R}
    BY <1>4
  <2> HIDE DEF Lower, R
  <2> QED BY <2>1, InstanceCardinality DEF Rank
<1>6. StrictOrder(R, keys)
  <2> HIDE DEF R
  <2>1. /\ \A k \in keys : ~N!Precedes(k, k)
        /\ \A k, l, h \in keys : N!Precedes(k, l) /\ N!Precedes(l, h) => N!Precedes(k, h)
        /\ \A k, l \in keys : k # l => N!Precedes(k, l) \/ N!Precedes(l, k)
    BY <1>1, KeyOrder
  <2> QED BY <1>4, <2>1 DEF StrictOrder
<1> HIDE DEF R, Lower
<1>7. /\ c \in Nat /\ \A k \in keys : Rank(R, keys, k) + 1 \in 1 .. c /\ Rank(R, keys, k) \in Nat
      /\ \A k, h \in keys : Rank(R, keys, k) = Rank(R, keys, h) => k = h
      /\ \A i \in 1 .. c : \E k \in keys : Rank(R, keys, k) = i - 1
  BY <1>1, <1>6, Ranks
<1> HIDE DEF c
<1>8. ASSUME NEW i \in 1 .. c PROVE At(i) \in keys /\ Rank(R, keys, At(i)) = i - 1
  BY <1>5, <1>7
<1>9. ASSUME NEW k \in keys PROVE \E i \in 1 .. c : At(i) = k
  <2> DEFINE i == Rank(R, keys, k) + 1
  <2>1. i \in 1 .. c /\ i - 1 = Rank(R, keys, k)
    BY <1>7
  <2> HIDE DEF i, At
  <2>2. At(i) \in keys /\ Rank(R, keys, At(i)) = Rank(R, keys, k)
    BY <1>8, <2>1
  <2> QED BY <1>7, <2>1, <2>2
<1> HIDE DEF At
<1>10. symbols \in [1 .. c -> N!Left(n)]
  BY <1>2, <1>3, <1>8
<1>11. symbols \in Seq(N!Left(n)) /\ DOMAIN symbols = 1 .. c
  BY <1>7, <1>10
<1>12. Held(symbols) = N!Left(n)
  BY <1>2, <1>3, <1>8, <1>9, <1>11 DEF Held
<1> QED BY <1>11, <1>12 DEF symbols

LEMMA HandlerSymbols ==
  ASSUME KeysInv
  PROVE  /\ N!GetSingleWordSymbols \in Seq(N!WordSymbols)
         /\ Held(N!GetSingleWordSymbols) = N!WordSymbols
         /\ N!GetMultiWordSymbols \in Seq(N!PhraseSymbols)
         /\ Held(N!GetMultiWordSymbols) = N!PhraseSymbols
<1> DEFINE P == N!PhraseSymbols
           m == MaxMultiWords - 1
           ss == [i \in 1 .. m |-> N!Symbols(i + 1)]
           s == FlattenSeq(ss)
<1>1. m \in Nat /\ \A i \in 1 .. m : i + 1 \in 2 .. MaxMultiWords /\ i + 1 \in N!Sizes
  BY SizesFacts
<1>2. ASSUME NEW i \in 1 .. m
      PROVE  N!Symbols(i + 1) \in Seq(P) /\ Held(N!Symbols(i + 1)) = N!Left(i + 1)
  <2>1. N!Symbols(i + 1) \in Seq(N!Left(i + 1)) /\ Held(N!Symbols(i + 1)) = N!Left(i + 1)
    BY <1>1, SymbolsFacts
  <2>2. N!Left(i + 1) \subseteq P
    BY <1>1 DEF N!PhraseSymbols
  <2> HIDE DEF P
  <2>3. \A t \in Seq(N!Left(i + 1)) : t \in Seq(P)
    BY <2>2
  <2> QED BY <2>1, <2>3
<1>3. P = UNION {N!Left(i + 1) : i \in 1 .. m}
  <2>1. \A n \in 2 .. MaxMultiWords : n - 1 \in 1 .. m /\ (n - 1) + 1 = n
    BY SizesFacts
  <2> HIDE DEF m
  <2> QED BY <1>1, <2>1 DEF N!PhraseSymbols
<1> HIDE DEF P, m
<1>4. ss \in Seq(Seq(P)) /\ Len(ss) = m /\ \A i \in 1 .. m : ss[i] = N!Symbols(i + 1)
  BY <1>1, <1>2
<1> HIDE DEF ss
<1>5. s \in Seq(P)
  BY <1>4, FlattenType
<1>6. PICK e : Ends(e, ss, s)
  BY <1>4, FlattenEnds
<1> HIDE DEF s
<1>7. DOMAIN s = 1 .. Len(s) /\ Len(s) \in Nat
  BY <1>5, LenProperties
<1>8. ASSUME NEW p \in P PROVE p \in Held(s)
  <2>1. PICK i \in 1 .. m : p \in N!Left(i + 1)
    BY <1>3
  <2>2. p \in Held(ss[i])
    BY <1>2, <1>4, <2>1
  <2>3. PICK j \in DOMAIN ss[i] : ss[i][j] = p
    BY <2>2 DEF Held
  <2>4. ss[i] \in Seq(P) /\ DOMAIN ss[i] = 1 .. Len(ss[i]) /\ Len(ss[i]) \in Nat
    BY <1>2, <1>4, LenProperties
  <2>5. /\ e[i] = e[i - 1] + Len(ss[i]) /\ s[e[i - 1] + j] = ss[i][j]
        /\ e[i - 1] \in Nat /\ e[i] <= e[m] /\ e[m] = Len(s) /\ e[i] \in Nat
    <3>1. i - 1 \in 0 .. m /\ i \in 0 .. m /\ m \in 0 .. m /\ i <= m
      BY <1>1
    <3>2. j \in 1 .. Len(ss[i])
      BY <2>4
    <3>3. e[i] <= e[m]
      BY <1>4, <1>6, <3>1, EndsFacts
    <3> QED BY <1>4, <1>6, <3>1, <3>2, <3>3 DEF Ends
  <2>6. e[i - 1] + j \in 1 .. Len(s)
    <3>1. \A x, y, z, l, k \in Nat : y = x + l /\ k \in 1 .. l /\ y <= z => x + k \in 1 .. z
      OBVIOUS
    <3>2. j \in 1 .. Len(ss[i]) /\ j \in Nat
      BY <2>4
    <3> QED BY <1>7, <2>4, <2>5, <3>1, <3>2
  <2> QED BY <1>7, <2>3, <2>5, <2>6 DEF Held
<1>9. Held(s) \subseteq P
  <2>1. \A i \in 1 .. Len(s) : s[i] \in P
    BY <1>5, ElementOfSeq
  <2> QED BY <1>7, <2>1 DEF Held
<1>10. Held(s) = P
  BY <1>8, <1>9
<1>11. N!GetMultiWordSymbols = s
  BY InstanceFlattenSeq DEF N!GetMultiWordSymbols, s, ss, m
<1>12. /\ N!Symbols(1) \in Seq(N!Left(1)) /\ Held(N!Symbols(1)) = N!Left(1)
  BY SizesFacts, SymbolsFacts
<1> QED BY <1>5, <1>10, <1>11, <1>12 DEF N!GetSingleWordSymbols, N!WordSymbols, P

-----------------------------------------------------------------------------
(***************************************************************************)
(* The words of an n-gram are not empty and have no space inside, so the   *)
(* spaces of its symbol are where one word ends and the next begins.       *)
(***************************************************************************)
Phrases == Seq(Seq(Letters) \ {<<>>}) \ {<<>>}

\* The i-th word of g lies in s between E[i - 1] and E[i], where s has a space,
\* or its end.
Laid(E, g, s) ==
  /\ E \in [0 .. Len(g) -> Nat] /\ E[0] = 0
  /\ \A i \in 1 .. Len(g) : /\ E[i] = E[i - 1] + Len(g[i]) + 1
                            /\ \A j \in 1 .. Len(g[i]) : s[E[i - 1] + j] = g[i][j]
  /\ s \in Seq(Characters) /\ Len(s) + 1 = E[Len(g)]
  /\ \A p \in 1 .. Len(s) : s[p] = Space <=> \E i \in 1 .. (Len(g) - 1) : p = E[i]

LEMMA PhrasesFacts ==
  ASSUME NEW g \in Phrases
  PROVE  /\ Len(g) \in Nat \ {0} /\ DOMAIN g = 1 .. Len(g)
         /\ \A i \in 1 .. Len(g) : /\ g[i] \in Seq(Letters) /\ Len(g[i]) \in Nat \ {0}
                                   /\ \A j \in 1 .. Len(g[i]) : g[i][j] \in Letters
         /\ Space \notin Letters /\ Letters \subseteq Characters /\ Space \in Characters
<1>1. Len(g) \in Nat /\ Len(g) # 0 /\ DOMAIN g = 1 .. Len(g)
  BY LenProperties, EmptySeq DEF Phrases
<1>2. ASSUME NEW i \in 1 .. Len(g)
      PROVE  /\ g[i] \in Seq(Letters) /\ Len(g[i]) \in Nat \ {0}
             /\ \A j \in 1 .. Len(g[i]) : g[i][j] \in Letters
  <2>1. g[i] \in Seq(Letters) \ {<<>>}
    <3>1. g \in Seq(Seq(Letters) \ {<<>>})
      BY DEF Phrases
    <3> QED BY <3>1, ElementOfSeq
  <2> QED BY <2>1, LenProperties, ElementOfSeq, EmptySeq
<1>3. Space \notin Letters /\ Letters \subseteq Characters /\ Space \in Characters
  BY TextReaderAssumption DEF Letters
<1> QED BY <1>1, <1>2, <1>3

LEMMA PhraseLaid ==
  ASSUME NEW g \in Phrases
  PROVE  \E E : Laid(E, g, VectorSymbolToSymbol(g))
<1> DEFINE n == Len(g)
           parts == [i \in DOMAIN g |-> IF i < Len(g) THEN Append(g[i], Space) ELSE g[i]]
           s == FlattenSeq(parts)
<1>0. /\ n \in Nat \ {0} /\ DOMAIN g = 1 .. n
      /\ \A i \in 1 .. n : /\ g[i] \in Seq(Letters) /\ Len(g[i]) \in Nat \ {0}
                           /\ \A j \in 1 .. Len(g[i]) : g[i][j] \in Letters
      /\ Space \notin Letters /\ Letters \subseteq Characters /\ Space \in Characters
  BY PhrasesFacts
<1>1. ASSUME NEW i \in 1 .. n
      PROVE  /\ parts[i] \in Seq(Characters) /\ Len(parts[i]) \in Nat
             /\ Len(parts[i]) = IF i < n THEN Len(g[i]) + 1 ELSE Len(g[i])
             /\ \A j \in 1 .. Len(g[i]) : parts[i][j] = g[i][j]
             /\ i < n => parts[i][Len(g[i]) + 1] = Space
  <2>1. parts[i] = IF i < n THEN Append(g[i], Space) ELSE g[i]
    BY <1>0
  <2> DEFINE w == g[i]
             L == Letters
  <2>2. w \in Seq(L) /\ L \subseteq Characters /\ Space \in Characters
    BY <1>0
  <2> HIDE DEF w, L, parts, n
  <2>3. w \in Seq(Characters)
    <3>1. Len(w) \in Nat /\ w \in [1 .. Len(w) -> L]
      BY <2>2, LenProperties
    <3>2. w \in [1 .. Len(w) -> Characters]
      BY <2>2, <3>1
    <3> QED BY <3>1, <3>2
  <2>4. /\ Append(w, Space) \in Seq(Characters) /\ Len(Append(w, Space)) = Len(w) + 1
        /\ \A j \in 1 .. Len(w) : Append(w, Space)[j] = w[j]
        /\ Append(w, Space)[Len(w) + 1] = Space /\ Len(w) \in Nat
    BY <2>2, <2>3, AppendProperties, LenProperties
  <2>5. parts[i] = IF i < n THEN Append(w, Space) ELSE w
    BY <2>1 DEF w
  <2>6. /\ parts[i] \in Seq(Characters) /\ Len(parts[i]) \in Nat
        /\ Len(parts[i]) = IF i < n THEN Len(w) + 1 ELSE Len(w)
        /\ \A j \in 1 .. Len(w) : parts[i][j] = w[j]
        /\ i < n => parts[i][Len(w) + 1] = Space
    BY <2>3, <2>4, <2>5
  <2> QED BY <2>6 DEF w
<1>2. VectorSymbolToSymbol(g) = s
  BY DEF VectorSymbolToSymbol
<1>3. parts = [i \in 1 .. n |-> parts[i]]
  BY <1>0
<1> HIDE DEF parts, n
<1>4. parts \in Seq(Seq(Characters)) /\ Len(parts) = n
  <2>1. parts \in [1 .. n -> Seq(Characters)]
    BY <1>1, <1>3
  <2> QED BY <1>0, <2>1
<1>5. s \in Seq(Characters)
  BY <1>4, FlattenType
<1>6. PICK e : Ends(e, parts, s)
  BY <1>4, FlattenEnds
<1> HIDE DEF s
<1> DEFINE E == [i \in 0 .. n |-> IF i < n THEN e[i] ELSE e[n] + 1]
<1>7. /\ e \in [0 .. n -> Nat] /\ e[0] = 0 /\ e[n] = Len(s)
      /\ \A i \in 1 .. n : /\ e[i] = e[i - 1] + Len(parts[i])
                           /\ \A j \in 1 .. Len(parts[i]) : s[e[i - 1] + j] = parts[i][j]
      /\ \A p \in 1 .. Len(s) : \E i \in 1 .. n : \E j \in 1 .. Len(parts[i]) :
           p = e[i - 1] + j /\ s[p] = parts[i][j]
  <2>1. Pieces(e, parts, s)
    BY <1>4, <1>6, EndsFacts
  <2> QED BY <1>4, <1>6, <2>1 DEF Ends, Pieces
<1>8. /\ E \in [0 .. n -> Nat] /\ E[0] = 0 /\ E[n] = Len(s) + 1
      /\ \A i \in 0 .. n : i < n => E[i] = e[i]
  <2>1. \A i \in 0 .. n : e[i] \in Nat /\ e[n] + 1 \in Nat
    BY <1>0, <1>7
  <2> QED BY <1>0, <1>7, <2>1
<1> HIDE DEF E
<1>9. ASSUME NEW i \in 1 .. n
      PROVE  /\ E[i] = E[i - 1] + Len(g[i]) + 1 /\ E[i - 1] = e[i - 1]
             /\ \A j \in 1 .. Len(g[i]) : s[E[i - 1] + j] = g[i][j]
  <2>1. i - 1 \in 0 .. n /\ i - 1 < n /\ i \in 0 .. n /\ (i < n \/ i = n)
    BY <1>0
  <2>2. E[i - 1] = e[i - 1] /\ e[i - 1] \in Nat
    BY <1>7, <1>8, <2>1
  <2>3. \A j \in 1 .. Len(g[i]) : j \in 1 .. Len(parts[i])
    BY <1>0, <1>1
  <2>4. \A j \in 1 .. Len(g[i]) : s[E[i - 1] + j] = g[i][j]
    BY <1>1, <1>7, <2>2, <2>3
  <2>5. CASE i < n
    <3>1. E[i] = e[i] /\ e[i] = e[i - 1] + Len(parts[i]) /\ Len(parts[i]) = Len(g[i]) + 1
      BY <1>1, <1>7, <1>8, <2>1, <2>5
    <3>2. Len(g[i]) \in Nat
      BY <1>0
    <3> QED BY <2>2, <2>4, <3>1, <3>2
  <2>6. CASE i = n
    <3>1. E[i] = e[i] + 1 /\ e[i] = e[i - 1] + Len(parts[i]) /\ Len(parts[i]) = Len(g[i])
      BY <1>1, <1>7, <1>8, <2>1, <2>6
    <3>2. Len(g[i]) \in Nat
      BY <1>0
    <3> QED BY <2>2, <2>4, <3>1, <3>2
  <2> QED BY <2>1, <2>5, <2>6
<1>10. ASSUME NEW p \in 1 .. Len(s), NEW i \in 1 .. (n - 1), p = E[i] PROVE s[p] = Space
  <2>1. i \in 1 .. n /\ i < n /\ Len(g[i]) \in Nat /\ Len(g[i]) + 1 \in 1 .. (Len(g[i]) + 1)
    BY <1>0
  <2>2. Len(parts[i]) = Len(g[i]) + 1 /\ parts[i][Len(g[i]) + 1] = Space
    BY <1>1, <2>1
  <2>3. s[e[i - 1] + (Len(g[i]) + 1)] = Space
    BY <1>7, <2>1, <2>2
  <2>4. p = E[i - 1] + Len(g[i]) + 1 /\ E[i - 1] = e[i - 1]
    BY <1>9, <1>10, <2>1
  <2>5. E[i - 1] \in Nat
    <3>1. i - 1 \in 0 .. n
      BY <1>0
    <3> QED BY <1>8, <3>1
  <2>6. e[i - 1] + (Len(g[i]) + 1) = p
    <3>1. \A x, l \in Nat : x + l + 1 = x + (l + 1)
      OBVIOUS
    <3> QED BY <2>1, <2>4, <2>5, <3>1
  <2> QED BY <2>3, <2>6
<1>11. ASSUME NEW p \in 1 .. Len(s), s[p] = Space PROVE \E i \in 1 .. (n - 1) : p = E[i]
  <2>0. PICK i \in 1 .. n : \E j \in 1 .. Len(parts[i]) : p = e[i - 1] + j /\ s[p] = parts[i][j]
    BY <1>7
  <2>1. PICK j \in 1 .. Len(parts[i]) : p = e[i - 1] + j /\ s[p] = parts[i][j]
    BY <2>0
  <2>2. j \notin 1 .. Len(g[i])
    <3>1. parts[i][j] = Space
      BY <1>11, <2>1
    <3>2. \A k \in 1 .. Len(g[i]) : parts[i][k] = g[i][k]
      BY <1>1
    <3>3. \A k \in 1 .. Len(g[i]) : g[i][k] # Space
      BY <1>0
    <3> QED BY <3>1, <3>2, <3>3
  <2>3. i < n /\ j = Len(g[i]) + 1
    <3>1. Len(parts[i]) = IF i < n THEN Len(g[i]) + 1 ELSE Len(g[i])
      BY <1>1
    <3>2. Len(g[i]) \in Nat
      BY <1>0
    <3> QED BY <2>2, <3>1, <3>2
  <2>4. p = E[i]
    <3>1. E[i] = E[i - 1] + Len(g[i]) + 1 /\ E[i - 1] = e[i - 1]
      BY <1>9
    <3>2. i - 1 \in 0 .. n /\ Len(g[i]) \in Nat
      BY <1>0
    <3>3. E[i - 1] \in Nat
      BY <1>8, <3>2
    <3> QED BY <2>1, <2>3, <3>1, <3>2, <3>3
  <2>5. i \in 1 .. (n - 1)
    BY <1>0, <2>3
  <2> QED BY <2>4, <2>5
<1>12. Laid(E, g, s)
  BY <1>5, <1>8, <1>9, <1>10, <1>11 DEF Laid, n
<1> QED BY <1>2, <1>12

\* Where the words end increases from word to word.
LEMMA LaidRises ==
  ASSUME NEW g \in Phrases, NEW s, NEW E, Laid(E, g, s)
  PROVE  /\ \A i \in 0 .. Len(g) : E[i] \in Nat
         /\ \A i, j \in 0 .. Len(g) : i < j => E[i] < E[j]
<1> DEFINE n == Len(g)
<1>0. /\ n \in Nat \ {0} /\ E \in [0 .. n -> Nat]
      /\ \A i \in 1 .. n : E[i] = E[i - 1] + Len(g[i]) + 1 /\ Len(g[i]) \in Nat
  BY PhrasesFacts DEF Laid
<1> HIDE DEF n
<1>1. ASSUME NEW i \in 0 .. n, i + 1 <= n PROVE E[i] < E[i + 1]
  <2>1. i + 1 \in 1 .. n /\ (i + 1) - 1 = i
    BY <1>0, <1>1
  <2>2. E[i + 1] = E[i] + Len(g[i + 1]) + 1 /\ Len(g[i + 1]) \in Nat /\ E[i] \in Nat
    BY <1>0, <2>1
  <2> QED BY <2>2
<1>2. ASSUME NEW i \in 0 .. n, NEW j \in 0 .. n, i < j PROVE E[i] < E[j]
  <2> DEFINE T == {k \in Nat : i + k + 1 <= n => E[i] < E[i + k + 1]}
  <2>1. 0 \in T
    <3>1. i + 0 + 1 = i + 1
      BY <1>0
    <3> QED BY <1>1, <3>1
  <2>2. ASSUME NEW k \in Nat, k \in T PROVE k + 1 \in T
    <3> SUFFICES ASSUME i + (k + 1) + 1 <= n PROVE E[i] < E[i + (k + 1) + 1]
      BY <2>2
    <3> DEFINE m == i + k + 1
    <3>1. m \in 0 .. n /\ m + 1 \in 0 .. n /\ m + 1 = i + (k + 1) + 1 /\ m <= n /\ m + 1 <= n
      BY <1>0
    <3>2. E[i] < E[m]
      BY <2>2, <3>1
    <3> HIDE DEF m
    <3>3. E[m] < E[m + 1]
      BY <1>1, <3>1
    <3>4. E[i] \in Nat /\ E[m] \in Nat /\ E[m + 1] \in Nat
      BY <1>0, <3>1
    <3>5. E[i] < E[m + 1]
      BY <3>2, <3>3, <3>4
    <3> QED BY <3>1, <3>5
  <2>3. \A k \in Nat : k \in T
    <3> HIDE DEF T
    <3> QED BY <2>1, <2>2, SimpleInduction
  <2>4. (j - i) - 1 \in Nat /\ i + ((j - i) - 1) + 1 = j
    BY <1>0, <1>2
  <2>5. (j - i) - 1 \in T
    BY <2>3, <2>4
  <2> QED BY <1>0, <2>4, <2>5
<1>3. \A i \in 0 .. n : E[i] \in Nat
  BY <1>0
<1> QED BY <1>2, <1>3 DEF n

\* The organizer gets the words of an n-gram back.
LEMMA TakenApart ==
  ASSUME NEW g \in Phrases, NEW s, NEW E, Laid(E, g, s)
  PROVE  SymbolToVectorSymbol(s) = g
<1> DEFINE n == Len(g)
           delimiters == {i \in DOMAIN s : s[i] = Space}
           ends == IF Len(s) \in delimiters THEN delimiters ELSE delimiters \cup {Len(s) + 1}
           Rank1(x) == Cardinality({d \in ends : d < x})
           End(k) == CHOOSE x \in ends : Rank1(x) = k - 1
           Begin(k) == IF k = 1 THEN 1 ELSE End(k - 1) + 1
<1>0. /\ n \in Nat \ {0} /\ DOMAIN g = 1 .. n
      /\ \A i \in 1 .. n : /\ g[i] \in Seq(Letters) /\ Len(g[i]) \in Nat \ {0}
                           /\ \A j \in 1 .. Len(g[i]) : g[i][j] \in Letters
      /\ Space \notin Letters /\ Letters \subseteq Characters /\ Space \in Characters
  BY PhrasesFacts
<1>1. /\ E[0] = 0 /\ s \in Seq(Characters) /\ Len(s) + 1 = E[n]
      /\ \A i \in 1 .. n : /\ E[i] = E[i - 1] + Len(g[i]) + 1
                           /\ \A j \in 1 .. Len(g[i]) : s[E[i - 1] + j] = g[i][j]
      /\ \A p \in 1 .. Len(s) : s[p] = Space <=> \E i \in 1 .. (n - 1) : p = E[i]
  BY DEF Laid
<1>2. /\ \A i \in 0 .. n : E[i] \in Nat
      /\ \A i, j \in 0 .. n : i < j => E[i] < E[j]
  BY LaidRises
<1>3. SymbolToVectorSymbol(s) = IF s = <<>> THEN <<>>
        ELSE [k \in 1 .. Cardinality(ends) |-> SubSeq(s, Begin(k), End(k) - 1)]
  BY DEF SymbolToVectorSymbol
<1>4. DOMAIN s = 1 .. Len(s) /\ Len(s) \in Nat
  BY <1>1, LenProperties
<1> HIDE DEF n
<1>5. Len(s) # 0 /\ s # <<>> /\ s[Len(s)] # Space
  <2>1. n \in 1 .. n /\ n - 1 \in 0 .. n /\ Len(g[n]) \in Nat \ {0} /\ Len(g[n]) \in 1 .. Len(g[n])
    BY <1>0
  <2>2. /\ E[n] = E[n - 1] + Len(g[n]) + 1 /\ s[E[n - 1] + Len(g[n])] = g[n][Len(g[n])]
        /\ g[n][Len(g[n])] \in Letters /\ E[n - 1] \in Nat
    BY <1>0, <1>1, <1>2, <2>1
  <2>3. Len(s) = E[n - 1] + Len(g[n]) /\ Len(s) # 0
    <3>1. \A l, x, y \in Nat : l + 1 = x + y + 1 /\ y # 0 => l = x + y /\ l # 0
      OBVIOUS
    <3>2. Len(s) + 1 = E[n - 1] + Len(g[n]) + 1
      BY <1>1, <2>2
    <3> QED BY <1>4, <2>1, <2>2, <3>1, <3>2
  <2>4. s[Len(s)] # Space /\ Len(s) # 0
    BY <1>0, <2>2, <2>3
  <2>5. s # <<>>
    BY <2>4, EmptySeq
  <2> QED BY <2>4, <2>5
<1>6. delimiters = {E[i] : i \in 1 .. (n - 1)}
  <2>1. ASSUME NEW i \in 1 .. (n - 1) PROVE E[i] \in 1 .. Len(s)
    <3>1. i \in 0 .. n /\ 0 \in 0 .. n /\ n \in 0 .. n /\ 0 < i /\ i < n
      BY <1>0
    <3>2. E[0] < E[i] /\ E[i] < E[n] /\ E[i] \in Nat
      BY <1>2, <3>1
    <3> QED BY <1>1, <1>4, <3>2
  <2>2. ASSUME NEW p \in 1 .. Len(s) PROVE s[p] = Space <=> p \in {E[i] : i \in 1 .. (n - 1)}
    BY <1>1
  <2> QED BY <1>4, <2>1, <2>2
<1>7. ends = {E[i] : i \in 1 .. n}
  <2>1. Len(s) \notin delimiters
    BY <1>5
  <2>2. 1 .. n = 1 .. (n - 1) \cup {n}
    BY <1>0
  <2>3. ends = {E[i] : i \in 1 .. (n - 1)} \cup {E[n]}
    <3> HIDE DEF delimiters
    <3> QED BY <1>1, <1>6, <2>1
  <2> HIDE DEF ends
  <2> QED BY <2>2, <2>3
<1> HIDE DEF delimiters, ends
<1>8. ASSUME NEW k \in 0 .. n
      PROVE  Cardinality({E[i] : i \in 1 .. k}) = k
  <2>1. \A i, j \in 1 .. k : E[i] = E[j] => i = j
    <3> SUFFICES ASSUME NEW i \in 1 .. k, NEW j \in 1 .. k, i # j PROVE E[i] # E[j]
      OBVIOUS
    <3>1. i \in 0 .. n /\ j \in 0 .. n /\ (i < j \/ j < i)
      BY <1>0
    <3>2. (E[i] < E[j] \/ E[j] < E[i]) /\ E[i] \in Nat /\ E[j] \in Nat
      BY <1>2, <3>1
    <3> QED BY <3>2
  <2>2. IsFiniteSet(1 .. k) /\ Cardinality(1 .. k) = IF 1 > k THEN 0 ELSE k - 1 + 1
    BY FS_Interval
  <2> DEFINE D == 1 .. k
  <2>3. IsFiniteSet(D) /\ Cardinality(D) = k /\ \A i, j \in D : E[i] = E[j] => i = j
    BY <1>0, <2>1, <2>2
  <2> HIDE DEF D
  <2>4. Cardinality({E[i] : i \in D}) = k
    BY <2>3, ImageFacts
  <2> QED BY <2>4 DEF D
<1>9. ASSUME NEW k \in 1 .. n PROVE Rank1(E[k]) = k - 1
  <2>1. {d \in ends : d < E[k]} = {E[i] : i \in 1 .. (k - 1)}
    <3>1. ASSUME NEW i \in 1 .. n PROVE E[i] < E[k] <=> i \in 1 .. (k - 1)
      <4>1. i \in 0 .. n /\ k \in 0 .. n /\ E[i] \in Nat /\ E[k] \in Nat
        BY <1>0, <1>2
      <4>2. CASE i < k
        BY <1>0, <1>2, <4>1, <4>2
      <4>3. CASE i = k
        BY <1>0, <4>1, <4>3
      <4>4. CASE k < i
        BY <1>0, <1>2, <4>1, <4>4
      <4> QED BY <1>0, <4>2, <4>3, <4>4
    <3>2. \A i \in 1 .. (k - 1) : i \in 1 .. n
      BY <1>0
    <3> QED BY <1>7, <3>1, <3>2
  <2>2. k - 1 \in 0 .. n
    BY <1>0
  <2> QED BY <1>8, <2>1, <2>2
<1> HIDE DEF Rank1
<1>10. ASSUME NEW k \in 1 .. n PROVE End(k) = E[k]
  <2>1. E[k] \in ends /\ Rank1(E[k]) = k - 1
    BY <1>7, <1>9
  <2>2. End(k) \in ends /\ Rank1(End(k)) = k - 1
    BY <2>1
  <2> HIDE DEF End
  <2>3. PICK i \in 1 .. n : End(k) = E[i]
    BY <1>7, <2>2
  <2>4. i - 1 = k - 1
    BY <1>9, <2>2, <2>3
  <2>5. i = k
    BY <1>0, <2>4
  <2> QED BY <2>3, <2>5
<1> HIDE DEF End
<1>11. Cardinality(ends) = n
  <2>1. n \in 0 .. n
    BY <1>0
  <2> QED BY <1>7, <1>8, <2>1
<1>12. ASSUME NEW k \in 1 .. n PROVE SubSeq(s, Begin(k), End(k) - 1) = g[k]
  <2>1. Begin(k) = E[k - 1] + 1 /\ k - 1 \in 0 .. n
    <3>1. CASE k = 1
      BY <1>0, <1>1, <3>1
    <3>2. CASE k # 1
      <4>1. k - 1 \in 1 .. n
        BY <1>0, <3>2
      <4> QED BY <1>10, <3>2, <4>1
    <3> QED BY <3>1, <3>2
  <2> HIDE DEF Begin
  <2> DEFINE w == g[k]
             a == E[k - 1] + 1
             b == E[k] - 1
             sub == SubSeq(s, a, b)
  <2>2. E[k - 1] \in Nat /\ E[k] = E[k - 1] + Len(w) + 1 /\ Len(w) \in Nat \ {0}
    <3>1. E[k - 1] \in Nat
      BY <1>2, <2>1
    <3>2. Len(w) \in Nat \ {0}
      BY <1>0
    <3>3. E[k] = E[k - 1] + Len(w) + 1
      BY <1>1
    <3> QED BY <3>1, <3>2, <3>3
  <2>3. w \in Seq(Letters) /\ \A j \in 1 .. Len(w) : s[E[k - 1] + j] = w[j]
    BY <1>0, <1>1
  <2> HIDE DEF w
  <2>4. a \in Nat /\ b \in Nat /\ a <= b /\ b - a + 1 = Len(w)
    <3>1. \A x, y, l \in Nat : y = x + l + 1 /\ l # 0 =>
            x + 1 \in Nat /\ y - 1 \in Nat /\ x + 1 <= y - 1 /\ (y - 1) - (x + 1) + 1 = l
      OBVIOUS
    <3> DEFINE x == E[k - 1]
               l == Len(w)
    <3>2. x \in Nat /\ l \in Nat /\ E[k] = x + l + 1 /\ l # 0
      BY <2>2
    <3>3. E[k] \in Nat
      BY <3>2
    <3> HIDE DEF x, l
    <3>4. x + 1 \in Nat /\ E[k] - 1 \in Nat /\ x + 1 <= E[k] - 1 /\ (E[k] - 1) - (x + 1) + 1 = l
      BY <3>1, <3>2, <3>3
    <3> QED BY <3>4 DEF x, l
  <2>5. \A i \in a .. b : s[i] \in Letters
    <3> SUFFICES ASSUME NEW i \in a .. b PROVE s[i] \in Letters
      OBVIOUS
    <3> DEFINE j == i - E[k - 1]
    <3>1. j \in 1 .. Len(w) /\ E[k - 1] + j = i
      BY <2>2
    <3> HIDE DEF j
    <3>2. s[i] = w[j] /\ w[j] \in Letters
      BY <2>3, <3>1, ElementOfSeq
    <3> QED BY <3>2
  <2>6. /\ sub \in Seq(Letters) /\ Len(sub) = Len(w)
        /\ \A j \in 1 .. Len(w) : sub[j] = s[a + j - 1]
    <3> HIDE DEF a, b
    <3>1. /\ sub \in Seq(Letters) /\ Len(sub) = IF a <= b THEN b - a + 1 ELSE 0
          /\ \A j \in 1 .. b - a + 1 : sub[j] = s[a + j - 1]
      BY <2>4, <2>5, SubSeqProperties
    <3> QED BY <2>4, <3>1
  <2>7. \A j \in 1 .. Len(w) : a + j - 1 = E[k - 1] + j
    BY <2>2
  <2>8. \A j \in 1 .. Len(w) : sub[j] = w[j]
    BY <2>3, <2>6, <2>7
  <2> HIDE DEF sub
  <2>9. sub = w
    BY <2>3, <2>6, <2>8, SeqEqual
  <2> QED BY <1>10, <2>1, <2>9 DEF sub, a, b, w
<1> HIDE DEF Begin
<1>13. SymbolToVectorSymbol(s) = [k \in 1 .. n |-> g[k]]
  BY <1>3, <1>5, <1>11, <1>12
<1>14. g = [k \in 1 .. n |-> g[k]]
  <2>1. g \in Seq(Seq(Letters) \ {<<>>})
    BY DEF Phrases
  <2> QED BY <1>0, <2>1
<1> QED BY <1>13, <1>14

LEMMA PhrasesComeBack ==
  ASSUME NEW g \in Phrases
  PROVE  SymbolToVectorSymbol(VectorSymbolToSymbol(g)) = g
<1> DEFINE s == VectorSymbolToSymbol(g)
<1>1. PICK E : Laid(E, g, s)
  BY PhraseLaid
<1> HIDE DEF s
<1>2. SymbolToVectorSymbol(s) = g
  BY <1>1, TakenApart
<1> QED BY <1>2 DEF s

-----------------------------------------------------------------------------
(***************************************************************************)
(* The two mappings.  Once a mapping is begun the handler is done, and what *)
(* it still has to get is the rest of the n-grams that were left.          *)
(***************************************************************************)
GramsOf(level) == IF level = 1 THEN N!WordSymbols ELSE N!PhraseSymbols

StringsOf(level) == {VectorSymbolToSymbol(g) : g \in GramsOf(level)}

Waiting(level) == IF level = Len(result) THEN Held(toAdd) ELSE {}

MappingInv ==
  /\ \E T : toAdd \in Seq(T)
  /\ Len(result) \in 0 .. 2
  /\ Len(result) > 0 => N!Cleaned
  /\ \A level \in 1 .. Len(result) :
       result[level].symbols \cup Waiting(level) = StringsOf(level)

LEMMA HeldFacts ==
  ASSUME NEW T, NEW s \in Seq(T)
  PROVE  /\ Held(<<>>) = {}
         /\ s # <<>> => Held(s) = {Head(s)} \cup Held(Tail(s)) /\ Tail(s) \in Seq(T)
<1>1. Held(<<>>) = {}
  <2>1. DOMAIN <<>> = {}
    OBVIOUS
  <2> QED BY <2>1 DEF Held
<1>2. ASSUME s # <<>> PROVE Held(s) = {Head(s)} \cup Held(Tail(s)) /\ Tail(s) \in Seq(T)
  <2>1. /\ Len(s) \in Nat \ {0} /\ DOMAIN s = 1 .. Len(s) /\ Head(s) = s[1]
        /\ Tail(s) \in Seq(T) /\ DOMAIN Tail(s) = 1 .. (Len(s) - 1)
        /\ \A i \in 1 .. (Len(s) - 1) : Tail(s)[i] = s[i + 1]
    BY <1>2
  <2>2. ASSUME NEW i \in 1 .. Len(s) PROVE s[i] \in {s[1]} \cup Held(Tail(s))
    <3>1. i # 1 => i - 1 \in 1 .. (Len(s) - 1) /\ (i - 1) + 1 = i
      BY <2>1
    <3>2. i # 1 => s[i] = Tail(s)[i - 1]
      BY <2>1, <3>1
    <3> QED BY <2>1, <3>1, <3>2 DEF Held
  <2>3. ASSUME NEW i \in 1 .. (Len(s) - 1) PROVE Tail(s)[i] \in Held(s)
    <3>1. i + 1 \in 1 .. Len(s)
      BY <2>1
    <3> QED BY <2>1, <3>1 DEF Held
  <2>4. s[1] \in Held(s)
    BY <2>1 DEF Held
  <2>5. \A x : x \in Held(s) <=> x \in {s[1]} \cup Held(Tail(s))
    BY <2>1, <2>2, <2>3, <2>4 DEF Held
  <2> QED BY <2>1, <2>5
<1> QED BY <1>1, <1>2

\* The n-grams that are left consist of words that are not empty.
LEMMA GramsArePhrases ==
  ASSUME GramsInv, CountsInv, N!Cleaned
  PROVE  N!WordSymbols \subseteq Phrases /\ N!PhraseSymbols \subseteq Phrases
<1> DEFINE W == Seq(Letters) \ {<<>>}
<1>0. /\ DOMAIN maps[1] \subseteq W /\ Entries(maps[1], 1)
      /\ \A n \in 2 .. MaxMultiWords : /\ n \in Nat \ {0}
                                       /\ Entries(maps[n], n) /\ WordsIn(maps[n], n, DOMAIN maps[1])
  <2>1. DOMAIN maps[1] \subseteq W
    BY WordKeys, WordsType
  <2>2. stage >= 5
    BY DEF N!Cleaned
  <2>3. Entries(maps[1], 1)
    BY SizesFacts DEF GramsInv
  <2>4. ASSUME NEW n \in 2 .. MaxMultiWords
        PROVE  n \in Nat \ {0} /\ Entries(maps[n], n) /\ WordsIn(maps[n], n, DOMAIN maps[1])
    <3>1. n \in N!Sizes /\ n \in Nat \ {0}
      BY SizesFacts
    <3> QED BY <2>2, <3>1 DEF GramsInv
  <2> QED BY <2>1, <2>3, <2>4
<1>1. \A g \in Seq(W) : Len(g) \in Nat \ {0} => g \in Phrases
  BY DEF Phrases
<1> HIDE DEF W
<1>2. ASSUME NEW key \in DOMAIN maps[1] PROVE maps[1][key].gram \in Phrases
  <2>1. key \in W /\ maps[1][key].gram = <<key>>
    BY <1>0 DEF Entries
  <2>2. <<key>> \in Seq(W) /\ Len(<<key>>) \in Nat \ {0}
    BY <2>1
  <2> QED BY <1>1, <2>1, <2>2
<1>3. ASSUME NEW n \in 2 .. MaxMultiWords, NEW key \in DOMAIN maps[n]
      PROVE  maps[n][key].gram \in Phrases
  <2> DEFINE g == maps[n][key].gram
  <2>1. n \in Nat \ {0} /\ IsGram(g, n) /\ \A i \in 1 .. n : g[i] \in W
    BY <1>0 DEF Entries, WordsIn
  <2> HIDE DEF g
  <2>2. g \in Seq(W) /\ Len(g) = n
    BY <2>1, GramOfWords
  <2> QED BY <1>1, <2>1, <2>2 DEF g
<1>4. N!WordSymbols \subseteq Phrases
  BY <1>2 DEF N!WordSymbols, N!Left
<1>5. N!PhraseSymbols \subseteq Phrases
  BY <1>3 DEF N!PhraseSymbols, N!Left
<1> QED BY <1>4, <1>5

\* After the cleanup the handler changes no more.
LEMMA HandlerStays ==
  ASSUME N!Cleaned, [Next]_vars
  PROVE  UNCHANGED handlerVars \/ UNCHANGED <<maps, stage>>
<1>1. stage = 8
  BY DEF N!Cleaned
<1>2. ~StoreSentence
  BY <1>1 DEF StoreSentence, N!ExtractAndStoreNGrams
<1>3. ~Cleanup
  BY <1>1 DEF Cleanup, N!FinishReading, N!CleanupNGrams, N!RareWords, N!LimitWords, N!RarePhrases,
              N!PhrasesOfRareWords, N!PhrasesOfRarePrefixes, N!FavorLargerPhrases,
              N!LimitPhrases, N!Step
<1>4. ASSUME NEW symbols, NEW level, ProduceMapping(symbols, level) PROVE UNCHANGED handlerVars
  BY <1>4 DEF ProduceMapping
<1>5. CASE ReadSentence \/ AddToMapping \/ UNCHANGED vars
  BY <1>5 DEF ReadSentence, AddToMapping, vars
<1> QED BY <1>2, <1>3, <1>4, <1>5 DEF Next

LEMMA InitMappingInv == Init => MappingInv
<1> SUFFICES ASSUME Init PROVE MappingInv
  OBVIOUS
<1>1. result = <<>> /\ toAdd = <<>> /\ Len(<<>>) = 0 /\ 1 .. 0 = {} /\ ~(0 > 0) /\ <<>> \in Seq({})
  BY DEF Init
<1> QED BY <1>1 DEF MappingInv

\* A mapping is begun for the n-grams that were left.
LEMMA BeginsMapping ==
  ASSUME KeysInv, IInv, MappingInv, NEW symbols, NEW level, ProduceMapping(symbols, level),
         \/ level = 0 /\ symbols = N!GetSingleWordSymbols
         \/ level = 1 /\ symbols = N!GetMultiWordSymbols
  PROVE  MappingInv'
<1> DEFINE T == {VectorSymbolToSymbol(symbols[k]) : k \in DOMAIN symbols}
<1>1. /\ N!Cleaned /\ Len(result) = level /\ toAdd = <<>>
      /\ result' = Append(result, EmptyMapping)
      /\ toAdd' = [k \in DOMAIN symbols |-> VectorSymbolToSymbol(symbols[k])]
      /\ UNCHANGED handlerVars
  BY DEF ProduceMapping
<1>2. PICK S : result \in Seq(S)
  BY DEF IInv
<1>3. /\ Len(result) \in Nat /\ Len(result') = level + 1 /\ level \in 0 .. 1
      /\ \A l \in 1 .. level : result'[l] = result[l]
      /\ result'[level + 1] = EmptyMapping
  <2>1. result \in Seq(S \cup {EmptyMapping})
    BY <1>2
  <2>2. level \in 0 .. 1
    OBVIOUS
  <2> QED BY <1>1, <2>1, <2>2, AppendProperties
<1>4. \E G : symbols \in Seq(G) /\ Held(symbols) = G /\ G = GramsOf(level + 1)
  BY HandlerSymbols DEF GramsOf
<1>5. toAdd' \in Seq(T) /\ Held(toAdd') = StringsOf(level + 1)
  <2>1. PICK G : symbols \in Seq(G) /\ Held(symbols) = G /\ G = GramsOf(level + 1)
    BY <1>4
  <2>2. DOMAIN symbols = 1 .. Len(symbols) /\ Len(symbols) \in Nat
    BY <2>1, LenProperties
  <2>3. toAdd' \in Seq(T) /\ DOMAIN toAdd' = DOMAIN symbols
    BY <1>1, <2>2
  <2>4. G = {symbols[k] : k \in DOMAIN symbols}
    BY <2>1 DEF Held
  <2>5. Held(toAdd') = {VectorSymbolToSymbol(symbols[k]) : k \in DOMAIN symbols}
    BY <1>1, <2>3 DEF Held
  <2>6. StringsOf(level + 1) = {VectorSymbolToSymbol(g) : g \in G}
    BY <2>1 DEF StringsOf
  <2> QED BY <2>3, <2>4, <2>5, <2>6
<1>6. \A l : StringsOf(l)' = StringsOf(l)
  <2>1. maps' = maps
    BY <1>1 DEF handlerVars
  <2> QED BY <2>1 DEF StringsOf, GramsOf, N!WordSymbols, N!PhraseSymbols, N!Left
<1>7. ASSUME NEW l \in 1 .. Len(result')
      PROVE  result'[l].symbols \cup Waiting(l)' = StringsOf(l)'
  <2>1. CASE l = level + 1
    <3>1. Waiting(l)' = StringsOf(l) /\ result'[l].symbols = {}
      BY <1>3, <1>5, <2>1 DEF Waiting, EmptyMapping
    <3> QED BY <1>6, <3>1
  <2>2. CASE l # level + 1
    <3>1. l \in 1 .. level /\ l \in 1 .. Len(result)
      BY <1>1, <1>3, <2>2
    <3>2. Waiting(l) = {} /\ Waiting(l)' = {}
      <4>1. Held(toAdd) = {}
        <5>1. <<>> \in Seq({})
          OBVIOUS
        <5> QED BY <1>1, <5>1, HeldFacts
      <4> QED BY <1>3, <2>2, <4>1 DEF Waiting
    <3> QED BY <1>3, <1>6, <3>1, <3>2 DEF MappingInv
  <2> QED BY <2>1, <2>2
<1>8. N!Cleaned' /\ Len(result') \in 0 .. 2
  <2>1. stage' = stage
    BY <1>1 DEF handlerVars
  <2> QED BY <1>1, <1>3, <2>1 DEF N!Cleaned
<1> QED BY <1>5, <1>7, <1>8 DEF MappingInv

\* A symbol that was waiting is one of the mapping.
LEMMA FillsMapping ==
  ASSUME IInv, MappingInv, AddToMapping
  PROVE  MappingInv'
<1> DEFINE n == Len(result)
           m == AddSymbol(result[n], Head(toAdd))
<1>1. /\ toAdd # <<>> /\ result' = [result EXCEPT ![n] = m] /\ toAdd' = Tail(toAdd)
      /\ UNCHANGED handlerVars
  BY DEF AddToMapping
<1>2. PICK S : result \in Seq(S)
  BY DEF IInv
<1>3. PICK T : toAdd \in Seq(T)
  BY DEF MappingInv
<1>4. /\ n \in Nat /\ n > 0 /\ n \in 1 .. n /\ DOMAIN result = 1 .. n
  BY <1>1, <1>2, LenProperties DEF IInv
<1>5. m.symbols = result[n].symbols \cup {Head(toAdd)}
  BY DEF AddSymbol, HasSymbol
<1> HIDE DEF m
<1>6. /\ Len(result') = n /\ result'[n] = m
      /\ \A l \in 1 .. n : l # n => result'[l] = result[l]
  <2>1. result' = [l \in 1 .. n |-> IF l = n THEN m ELSE result[l]]
    BY <1>1, <1>4
  <2> HIDE DEF n
  <2>2. result' \in Seq({m} \cup {result[l] : l \in 1 .. n}) /\ Len(result') = n
    BY <1>4, <2>1
  <2> QED BY <1>4, <2>1, <2>2
<1>7. \A l : StringsOf(l)' = StringsOf(l)
  <2>1. maps' = maps
    BY <1>1 DEF handlerVars
  <2> QED BY <2>1 DEF StringsOf, GramsOf, N!WordSymbols, N!PhraseSymbols, N!Left
<1>8. /\ Held(toAdd) = {Head(toAdd)} \cup Held(toAdd') /\ toAdd' \in Seq(T)
  BY <1>1, <1>3, HeldFacts
<1>9. ASSUME NEW l \in 1 .. n
      PROVE  result'[l].symbols \cup Waiting(l)' = StringsOf(l)'
  <2>1. result[l].symbols \cup Waiting(l) = StringsOf(l)
    BY DEF MappingInv
  <2>2. CASE l = n
    <3>1. Waiting(l) = Held(toAdd) /\ Waiting(l)' = Held(toAdd')
      BY <1>6, <2>2 DEF Waiting
    <3> QED BY <1>5, <1>6, <1>7, <1>8, <2>1, <2>2, <3>1
  <2>3. CASE l # n
    <3>1. Waiting(l) = {} /\ Waiting(l)' = {}
      BY <1>6, <2>3 DEF Waiting
    <3> QED BY <1>6, <1>7, <2>1, <2>3, <3>1
  <2> QED BY <2>2, <2>3
<1>10. N!Cleaned' /\ n \in 0 .. 2
  <2>1. stage' = stage
    BY <1>1 DEF handlerVars
  <2> QED BY <1>4, <2>1 DEF MappingInv, N!Cleaned
<1> HIDE DEF n
<1> QED BY <1>6, <1>8, <1>9, <1>10 DEF MappingInv

LEMMA NextMappingInv == KeysInv /\ IInv /\ MappingInv /\ [Next]_vars => MappingInv'
<1> SUFFICES ASSUME KeysInv, IInv, MappingInv, [Next]_vars PROVE MappingInv'
  OBVIOUS
<1>1. ASSUME UNCHANGED resultVars PROVE MappingInv'
  <2>1. result' = result /\ toAdd' = toAdd
    BY <1>1 DEF resultVars
  <2>2. Len(result) > 0 => maps' = maps /\ stage' = stage
    BY HandlerStays DEF MappingInv, handlerVars
  <2>3. ASSUME NEW level \in 1 .. Len(result)
        PROVE  result'[level].symbols \cup Waiting(level)' = StringsOf(level)'
    <3>1. maps' = maps
      BY <2>2
    <3>2. StringsOf(level)' = StringsOf(level)
      BY <3>1 DEF StringsOf, GramsOf, N!WordSymbols, N!PhraseSymbols, N!Left
    <3>3. Waiting(level)' = Waiting(level)
      BY <2>1 DEF Waiting
    <3> QED BY <2>1, <3>2, <3>3 DEF MappingInv
  <2>4. Len(result') > 0 => N!Cleaned'
    BY <2>1, <2>2 DEF MappingInv, N!Cleaned
  <2> QED BY <2>1, <2>3, <2>4 DEF MappingInv
<1>2. CASE ReadSentence \/ StoreSentence \/ Cleanup \/ UNCHANGED vars
  BY <1>1, <1>2 DEF ReadSentence, StoreSentence, Cleanup, vars
<1>3. CASE AddToMapping
  BY <1>3, FillsMapping
<1>4. CASE ProduceMapping(N!GetSingleWordSymbols, 0) \/ ProduceMapping(N!GetMultiWordSymbols, 1)
  BY <1>4, BeginsMapping
<1> QED BY <1>2, <1>3, <1>4 DEF Next

\* Whatever the texts and limits, a finished mapping has a symbol for each n-gram
\* that the handler was left with and none for another, and the organizer gets the
\* n-gram back from it: the handler returns its entries in the order of the keys,
\* all of them, no word of an n-gram is empty or has a space inside, so that no two
\* n-grams have the same string, and the handler changes no more once a mapping is
\* begun (GetSingleWordSymbols, GetMultiWordSymbols, VectorSymbolToSymbol,
\* SymbolToVectorSymbol).
THEOREM MappingsHoldTheGrams == Spec => []SymbolsOfGrams
<1>1. ASSUME GramsInv, CountsInv, IInv, MappingInv, toAdd = <<>>, NEW level \in DOMAIN result
      PROVE  LET symbols == GetAllSymbols(result[level])
                 grams == {SymbolToVectorSymbol(s) : s \in symbols}
             IN  /\ grams = (IF level = 1 THEN N!WordSymbols ELSE N!PhraseSymbols)
                 /\ Cardinality(grams) = Cardinality(symbols)
  <2> DEFINE symbols == result[level].symbols
             grams == {SymbolToVectorSymbol(s) : s \in symbols}
             G == GramsOf(level)
             f == [s \in symbols |-> SymbolToVectorSymbol(s)]
  <2>1. level \in 1 .. Len(result) /\ Len(result) \in Nat
    <3>1. PICK S : result \in Seq(S)
      BY <1>1 DEF IInv
    <3> QED BY <3>1, LenProperties
  <2>2. N!Cleaned /\ symbols = StringsOf(level) /\ IsFiniteSet(symbols)
    <3>1. Held(toAdd) = {}
      <4>1. <<>> \in Seq({})
        OBVIOUS
      <4> QED BY <1>1, <4>1, HeldFacts
    <3>2. Waiting(level) = {}
      BY <3>1 DEF Waiting
    <3>3. Len(result) > 0
      BY <2>1
    <3> QED BY <1>1, <2>1, <3>2, <3>3 DEF MappingInv, IInv, Indexed
  <2>3. G \subseteq Phrases
    BY <1>1, <2>2, GramsArePhrases DEF GramsOf
  <2>4. symbols = {VectorSymbolToSymbol(g) : g \in G}
    BY <2>2 DEF StringsOf
  <2> HIDE DEF symbols, G
  <2>5. \A g \in G : SymbolToVectorSymbol(VectorSymbolToSymbol(g)) = g
    BY <2>3, PhrasesComeBack
  <2>6. grams = G
    BY <2>4, <2>5
  <2>7. \A s \in symbols : f[s] = SymbolToVectorSymbol(s)
    OBVIOUS
  <2>8. \A s, t \in symbols : f[s] = f[t] => s = t
    BY <2>4, <2>5
  <2>9. grams = {f[s] : s \in symbols}
    OBVIOUS
  <2> HIDE DEF f, grams
  <2>10. Cardinality(grams) = Cardinality(symbols)
    BY <2>2, <2>8, <2>9, ImageFacts
  <2> QED BY <2>6, <2>10 DEF GetAllSymbols, grams, symbols, G, GramsOf
<1>2. GramsInv /\ CountsInv /\ IInv /\ MappingInv => SymbolsOfGrams
  BY <1>1 DEF SymbolsOfGrams
<1> QED BY <1>2, InitGramsInv, NextGramsInv, InitCountsInv, NextCountsInv, InitKeysInv, NextKeysInv,
           InitIInv, NextIInv, InitMappingInv, NextMappingInv, PTL DEF Spec
=============================================================================
