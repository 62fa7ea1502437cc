------------------------------ MODULE Symbols -------------------------------
(***************************************************************************)
(* ConfabulationBase::ProduceSymbolMappings: TextReader returns a sentence *)
(* at a time, NGramHandler counts its n-grams before the next one is read, *)
(* and what its cleanup leaves becomes a SymbolMapping for each level.     *)
(***************************************************************************)
EXTENDS TextReader, SymbolMapping

CONSTANTS MaxMultiWords, MinSingle, MinMulti, MaxSingleSymbols, MaxMultiSymbols,
          SizeT    \* of NGrams

ASSUME SymbolsAssumption ==
  /\ MaxMultiWords \in Nat /\ MaxMultiWords >= 2 /\ SizeT \in Nat \ {0}
  /\ {MinSingle, MinMulti, MaxSingleSymbols, MaxMultiSymbols} \subseteq Nat

VARIABLES read, maps, stage,   \* of the NGramHandler
          result,              \* the mappings made so far
          toAdd                \* the symbols that the last one still has to get

handlerVars == <<read, maps, stage>>

resultVars == <<result, toAdd>>

vars == <<readerVars, handlerVars, resultVars>>

N == INSTANCE NGrams WITH text <- returned

Init == ReaderInit /\ N!Init /\ result = <<>> /\ toAdd = <<>>

\* A call of the reader, and what its caller does with the sentence it gets.
ReadSentence ==
  read = Len(returned) /\ GetNextSentenceTokens /\ UNCHANGED <<handlerVars, resultVars>>

StoreSentence ==
  N!ExtractAndStoreNGrams /\ UNCHANGED <<readerVars, resultVars>>

Cleanup ==
  \/ finished /\ N!FinishReading /\ UNCHANGED <<readerVars, resultVars>>
  \/ N!CleanupNGrams /\ UNCHANGED <<readerVars, resultVars>>

\* Mutant of VectorSymbolToSymbol: the words are strung together.
StrungTogether(gram) == FlattenSeq(gram)

\* VectorSymbolToSymbol, the string that stands for an n-gram in a mapping, and
\* SymbolToVectorSymbol, with which the organizer takes it apart: getline leaves
\* out an empty word at the end.
VectorSymbolToSymbol(gram) ==
  FlattenSeq([i \in DOMAIN gram |-> IF i < Len(gram) THEN Append(gram[i], Space) ELSE gram[i]])

SymbolToVectorSymbol(s) ==
  LET delimiters == {i \in DOMAIN s : s[i] = Space}
      ends == IF Len(s) \in delimiters THEN delimiters ELSE delimiters \cup {Len(s) + 1}
      End(k) == CHOOSE e \in ends : Cardinality({d \in ends : d < e}) = k - 1
      Begin(k) == IF k = 1 THEN 1 ELSE End(k - 1) + 1
  IN  IF s = <<>> THEN <<>>
      ELSE [k \in 1 .. Cardinality(ends) |-> SubSeq(s, Begin(k), End(k) - 1)]

\* The two push_backs, words first, and the loop of the constructor.
ProduceMapping(symbols, level) ==
  /\ N!Cleaned /\ Len(result) = level /\ toAdd = <<>>
  /\ result' = Append(result, EmptyMapping) /\ toAdd' = [k \in DOMAIN symbols |-> VectorSymbolToSymbol(symbols[k])]
  /\ UNCHANGED <<readerVars, handlerVars>>

AddToMapping ==
  /\ toAdd # <<>>
  /\ result' = [result EXCEPT ![Len(result)] = AddSymbol(@, Head(toAdd))]
  /\ toAdd' = Tail(toAdd)
  /\ UNCHANGED <<readerVars, handlerVars>>

Next ==
  \/ ReadSentence \/ StoreSentence \/ Cleanup
  \/ ProduceMapping(N!GetSingleWordSymbols, 0)
  \/ ProduceMapping(N!GetMultiWordSymbols, 1)
  \/ AddToMapping

\* One thread runs to the end of the function.
Spec == Init /\ [][Next]_vars /\ WF_vars(Next)

-----------------------------------------------------------------------------
\* The function returns, even if no file has a sentence delimiter or the stream is
\* at its end while text is left over.
Finishes == <>(Len(result) = 2 /\ toAdd = <<>>)

\* Every word of a phrase symbol is itself a word symbol, whatever the limits and
\* whatever n-grams share an entry (stages IV to VII of CleanupNGrams).
PhrasesOfWords == N!PhrasesOfWords

\* The word symbols are the most frequent words of the sentences that were read
\* (stages I and II).
MostFrequentWords == N!MostFrequentWords

\* The phrase symbols are the frequent n-grams of frequent words, as many as there
\* are indices (stages III to VII).
FrequentPhrases == N!FrequentPhrases

\* The comment on ExtractAndStoreNGrams, "Counts occurences of n-grams".
CountsOccurrences == N!CountsOccurrences

\* Each level has a symbol for each n-gram that was left and none for another, and
\* the organizer gets the n-gram back from it.
SymbolsOfGrams ==
  toAdd = <<>> => \A level \in DOMAIN result :
    LET symbols == GetAllSymbols(result[level])
        grams == {SymbolToVectorSymbol(s) : s \in symbols}
    IN  /\ grams = (IF level = 1 THEN N!WordSymbols ELSE N!PhraseSymbols)
        /\ Cardinality(grams) = Cardinality(symbols)

\* While and after a mapping is filled, the indices that size the excitation vectors
\* and matrices run from zero without a gap, no two symbols share one, and the two
\* maps of AddSymbol are each the inverse of the other.
IndicesOfSymbols ==
  \A level \in DOMAIN result :
    LET m == result[level]
    IN  /\ DOMAIN m.toIndex = GetAllSymbols(m)
        /\ DOMAIN m.toSymbol = 0 .. (Cardinality(GetAllSymbols(m)) - 1)
        /\ \A s \in GetAllSymbols(m) : /\ IndexOf(m, s) \in DOMAIN m.toSymbol
                                       /\ GetSymbol(m, IndexOf(m, s)) = s
        /\ \A i \in DOMAIN m.toSymbol : /\ GetSymbol(m, i) \in GetAllSymbols(m)
                                        /\ IndexOf(m, GetSymbol(m, i)) = i
=============================================================================
