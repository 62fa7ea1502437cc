------------------------------- MODULE NGrams -------------------------------
(***************************************************************************)
(* NGramHandler, as ProduceSymbolMappings uses it: the n-grams of every    *)
(* sentence are counted, then cleaned up in seven stages; what is left are *)
(* the symbols of the two levels.                                          *)
(*                                                                         *)
(* A word is a sequence of letters and Hole the empty one, because the     *)
(* maps of the handler order n-grams by their words strung together: two   *)
(* n-grams with the same Key share one entry.                              *)
(***************************************************************************)
EXTENDS Integers, FiniteSets, Sequences, SequencesExt, FiniteSetsExt

CONSTANTS MaxMultiWords,     \* max_multi_words_
          MinSingle,         \* min_single_occurences_
          MinMulti,          \* min_multi_occurences_
          MaxSingleSymbols,  \* Globals::kMaxSingleWordSymbols
          MaxMultiSymbols,   \* Globals::kMaxMultiWordSymbols
          SizeT              \* the modulus of size_t

Hole == <<>>
Key(gram) == FlattenSeq(gram)
Sizes == 1 .. MaxMultiWords

VARIABLES text,   \* what the text reader has returned
          read,   \* how many sentences were read
          maps,   \* occurrence_counts_: for each size, key -> [gram, count]
          stage   \* the next stage of the cleanup; 0 while reading, 8 at the end

vars == <<text, read, maps, stage>>

Init == read = 0 /\ maps = [n \in Sizes |-> <<>>] /\ stage = 0

-----------------------------------------------------------------------------
\* The n-gram at position i, and the positions that are counted: the first word
\* is not empty, and phrases are only looked for in long sentences.
Gram(s, n, i) == SubSeq(s, i, i + n - 1)

Starts(s, n) ==
  {i \in 1 .. (Len(s) - n + 1) : s[i] # Hole /\ (n = 1 \/ Len(s) >= MaxMultiWords)}

\* The map of size n with the n-grams of s: an entry keeps the n-gram it was
\* made for.
Counted(map, s, n) ==
  LET At(key) == {i \in Starts(s, n) : Key(Gram(s, n, i)) = key}
      Old(key) == key \in DOMAIN map
  IN  [key \in DOMAIN map \cup {Key(Gram(s, n, i)) : i \in Starts(s, n)} |->
         [gram  |-> IF Old(key) THEN map[key].gram ELSE Gram(s, n, Min(At(key))),
          count |-> (IF Old(key) THEN map[key].count ELSE 0) + Cardinality(At(key))]]

ExtractAndStoreNGrams ==
  /\ stage = 0 /\ read < Len(text)
  /\ read' = read + 1
  /\ maps' = [n \in Sizes |-> Counted(maps[n], text[read + 1], n)]
  /\ UNCHANGED <<text, stage>>

FinishReading ==
  /\ stage = 0 /\ read = Len(text)
  /\ stage' = 1 /\ UNCHANGED <<text, read, maps>>

-----------------------------------------------------------------------------
\* CleanupNGrams.
Only(map, keys) == [key \in DOMAIN map \cap keys |-> map[key]]

Frequent(map, min) == {key \in DOMAIN map : map[key].count >= min}

Step(n) == stage = n /\ stage' = n + 1 /\ UNCHANGED <<text, read>>

\* I: words that are too rare.
RareWords ==
  Step(1) /\ maps' = [maps EXCEPT ![1] = Only(@, Frequent(@, MinSingle))]

\* The entries that may stay when the least frequent ones go until there are at
\* most max: std::sort leaves the order of equals open.
\* Mutant: the most frequent ones go.
LimitedWrongEnd(count, max) ==
  {K \in SUBSET DOMAIN count :
     /\ Cardinality(K) = Min({Cardinality(DOMAIN count), max})
     /\ \A k \in K, l \in DOMAIN count \ K : count[k] <= count[l]}

Limited(count, max) ==
  {K \in SUBSET DOMAIN count :
     /\ Cardinality(K) = Min({Cardinality(DOMAIN count), max})
     /\ \A k \in K, l \in DOMAIN count \ K : count[k] >= count[l]}

\* II: more words than indices.
LimitWords ==
  /\ Step(2)
  /\ \E K \in Limited([key \in DOMAIN maps[1] |-> maps[1][key].count], MaxSingleSymbols) :
       maps' = [maps EXCEPT ![1] = Only(@, K)]

\* III: phrases that are too rare.
RarePhrases ==
  Step(3) /\ maps' = [n \in Sizes |->
                        IF n = 1 THEN maps[1]
                        ELSE Only(maps[n], Frequent(maps[n], MinMulti))]

\* IV: phrases with a word that was removed or is too rare.
\* Mutant: the first word only.
FirstWordFrequent(gram) == Key(<<gram[1]>>) \in Frequent(maps[1], MinMulti)

WordsFrequent(gram) ==
  \A i \in DOMAIN gram : Key(<<gram[i]>>) \in Frequent(maps[1], MinMulti)

PhrasesOfRareWords ==
  Step(4) /\ maps' = [n \in Sizes |->
                        IF n = 1 THEN maps[1]
                        ELSE Only(maps[n], {key \in DOMAIN maps[n] :
                                              WordsFrequent(maps[n][key].gram)})]

\* V: phrases whose beginning, one word shorter, is too rare or was removed
\* in this stage.
Beginning(gram, n) == SubSeq(gram, 1, n)

Prefixed ==
  LET Kept[n \in Sizes] ==
        IF n = 1 THEN DOMAIN maps[1]
        ELSE {key \in DOMAIN maps[n] :
                Key(Beginning(maps[n][key].gram, n - 1)) \in
                  Kept[n - 1] \cap Frequent(maps[n - 1], MinMulti)}
  IN  [n \in Sizes |-> Only(maps[n], Kept[n])]

PhrasesOfRarePrefixes == Step(5) /\ maps' = Prefixed

\* VI, kFavorLargerPhrases: each phrase takes its count from all of its
\* beginnings of two words and more, in size_t; a beginning without entry gets
\* one.
Longer(m) == {nk \in UNION {{n} \X DOMAIN maps[n] : n \in (m + 1) .. MaxMultiWords} :
                maps[nk[1]][nk[2]].count >= MinMulti}

TakersOf(m, key) ==
  {nk \in Longer(m) : Key(Beginning(maps[nk[1]][nk[2]].gram, m)) = key}

Taken(m, key) == MapThenSumSet(LAMBDA nk : maps[nk[1]][nk[2]].count, TakersOf(m, key))

\* Mutant: a phrase whose count is used up is erased.
ReducedErasing(m) ==
  Only(maps[m], {key \in DOMAIN maps[m] : maps[m][key].count - Taken(m, key) >= MinMulti})

Reduced(m) ==
  LET made == {Key(Beginning(maps[nk[1]][nk[2]].gram, m)) : nk \in Longer(m)}
      First(key) == CHOOSE nk \in TakersOf(m, key) :
                      \A other \in TakersOf(m, key) : nk[1] <= other[1]
  IN  [key \in DOMAIN maps[m] \cup made |->
         IF key \in DOMAIN maps[m]
         THEN [maps[m][key] EXCEPT !.count = (@ - Taken(m, key)) % SizeT]
         ELSE [gram  |-> Beginning(maps[First(key)[1]][First(key)[2]].gram, m),
               count |-> (0 - Taken(m, key)) % SizeT]]

FavorLargerPhrases ==
  Step(6) /\ maps' = [n \in Sizes |-> IF n = 1 THEN maps[1] ELSE Reduced(n)]

\* VII: more phrases than indices.
LimitPhrases ==
  /\ Step(7)
  /\ LET phrases == UNION {{n} \X DOMAIN maps[n] : n \in 2 .. MaxMultiWords}
     IN  \E K \in Limited([nk \in phrases |-> maps[nk[1]][nk[2]].count], MaxMultiSymbols) :
           maps' = [n \in Sizes |-> IF n = 1 THEN maps[1]
                                    ELSE Only(maps[n], {nk[2] : nk \in {e \in K : e[1] = n}})]

CleanupNGrams ==
  \/ RareWords \/ LimitWords \/ RarePhrases \/ PhrasesOfRareWords
  \/ PhrasesOfRarePrefixes \/ FavorLargerPhrases \/ LimitPhrases

-----------------------------------------------------------------------------
\* GetSingleWordSymbols and GetMultiWordSymbols: size by size, in the order of
\* the keys in a map, which is that of strcmp.
Precedes(k, l) ==
  \/ k # l /\ IsPrefix(k, l)
  \/ \E i \in DOMAIN k \cap DOMAIN l : SubSeq(k, 1, i - 1) = SubSeq(l, 1, i - 1) /\ k[i] < l[i]

Symbols(n) ==
  LET keys == DOMAIN maps[n]
      At(i) == CHOOSE k \in keys : Cardinality({l \in keys : Precedes(l, k)}) = i - 1
  IN  [i \in 1 .. Cardinality(keys) |-> maps[n][At(i)].gram]

GetSingleWordSymbols == Symbols(1)
GetMultiWordSymbols == FlattenSeq([i \in 1 .. (MaxMultiWords - 1) |-> Symbols(i + 1)])

\* What they hold, as sets.
Left(n) == {maps[n][key].gram : key \in DOMAIN maps[n]}
WordSymbols == Left(1)
PhraseSymbols == UNION {Left(n) : n \in 2 .. MaxMultiWords}

\* How often the sentences read so far show an n-gram where it is counted.
Occurrences(gram) ==
  LET n == Len(gram)
      In(s) == Cardinality({i \in Starts(s, n) : Gram(s, n, i) = gram})
  IN  SumFunctionOnSet([k \in DOMAIN text |-> In(text[k])], 1 .. read)

Grams(n) == UNION {{Gram(text[k], n, i) : i \in Starts(text[k], n)} : k \in 1 .. read}

\* No two n-grams of the text share an entry.
Apart == \A n \in Sizes : \A g, h \in Grams(n) : Key(g) = Key(h) => g = h

Cleaned == stage = 8

\* Every word of a phrase symbol is itself a word symbol, whatever the limits and
\* whatever n-grams share an entry: the phrase modules and the word modules of
\* the architecture speak of the same words.
PhrasesOfWords ==
  Cleaned => \A p \in PhraseSymbols : \A i \in DOMAIN p : <<p[i]>> \in WordSymbols

\* The word symbols are the words that are frequent enough, and if there are more
\* than indices, ones that no other is more frequent than.
MostFrequentWords ==
  Cleaned =>
    LET frequent == {w \in Grams(1) : Occurrences(w) >= MinSingle}
    IN  /\ WordSymbols \subseteq frequent
        /\ \A v \in frequent \ WordSymbols :
             /\ Cardinality(WordSymbols) = MaxSingleSymbols
             /\ \A w \in WordSymbols : Occurrences(w) >= Occurrences(v)

\* The phrase symbols are the frequent n-grams of frequent words, all of them
\* unless there are more than indices: none is lost or made by the stages that
\* look at words and prefixes or change the counts.
FrequentPhrases ==
  Cleaned /\ Apart =>
    LET frequent == {g \in UNION {Grams(n) : n \in 2 .. MaxMultiWords} :
                       /\ Occurrences(g) >= MinMulti
                       /\ \A i \in DOMAIN g : <<g[i]>> \in WordSymbols}
    IN  /\ PhraseSymbols \subseteq frequent
        /\ PhraseSymbols # frequent => Cardinality(PhraseSymbols) = MaxMultiSymbols

\* The comment on ExtractAndStoreNGrams, "Counts occurences of n-grams": the count
\* of an entry is how often its n-gram occurs.
CountsOccurrences ==
  stage = 0 => \A n \in Sizes : \A key \in DOMAIN maps[n] :
                 maps[n][key].count = Occurrences(maps[n][key].gram)
=============================================================================
