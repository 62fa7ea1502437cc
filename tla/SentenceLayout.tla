--------------------------- MODULE SentenceLayout ---------------------------
(***************************************************************************)
(* The life of a MultiLevelOrganizer.  Its constructor fills the phrase    *)
(* trie symbol by symbol; then the layout of a sentence changes while the  *)
(* sentence grows at its end, as it does while the engine completes it:    *)
(* Organize is called again on the whole sentence in every round.          *)
(*                                                                         *)
(* Here Phrases are the phrases a vocabulary may have: what has been added *)
(* when the sentence begins is the vocabulary, any set of them.            *)
(***************************************************************************)
EXTENDS Organizer, HashTrie

CONSTANT MaxSentence   \* bound on the length of a sentence

ASSUME SentenceLayoutAssumption == Tokens = Words /\ Phrases \subseteq Sequence

-----------------------------------------------------------------------------
VARIABLE sentence

layoutVars == <<trie, added, sentence>>

LayoutInit == Init /\ sentence = <<>>

\* The constructor.
AddSymbol(p) == sentence = <<>> /\ AddSequence(p) /\ UNCHANGED sentence

\* One more token at the end.
Extend(token) ==
  /\ Len(sentence) < MaxSentence
  /\ sentence' = Append(sentence, token)
  /\ UNCHANGED <<trie, added>>

LayoutNext ==
  \/ \E p \in Phrases : AddSymbol(p)
  \/ \E token \in Words \cup {Unknown, Hole} : Extend(token)

LayoutSpec == LayoutInit /\ [][LayoutNext]_layoutVars

-----------------------------------------------------------------------------
\* The words of the sentence that phrase p would stand for at position k.
Stretch(k, p) ==
  IF k + Len(p) <= Len(sentence) THEN SubSeq(sentence, k + 1, k + Len(p)) ELSE None

\* The layout that the comment above Organize draws: a phrase sits where its
\* first word is, over exactly its words, and no two phrases share a word.
PhrasesInPlace ==
  LET phrases == Level(trie, sentence)
      set     == {k \in Positions : phrases[k] # None}
  IN  /\ \A k \in set : phrases[k] \in added /\ Stretch(k, phrases[k]) = phrases[k]
      /\ \A k, l \in set : k < l => k + Len(phrases[k]) <= l

\* Best match: a phrase symbol that occurs at k is only passed over for one that
\* covers its first word, and then for an earlier or a longer one.
NothingMissed ==
  LET phrases == Level(trie, sentence)
  IN  \A k \in Positions, p \in added :
        Stretch(k, p) = p =>
          \E j \in 0 .. k : /\ phrases[j] # None /\ k < j + Len(phrases[j])
                            /\ j = k => Len(p) <= Len(phrases[j])

\* The word modules show the sentence itself, holes and unknown words left out.
WordsInPlace ==
  LET words == Level(WordTrie, sentence)
  IN  \A k \in Positions :
        words[k] = IF k < Len(sentence) /\ sentence[k + 1] \in Words
                   THEN <<sentence[k + 1]>> ELSE None

\* A word added at the end only revises the phrases that it could be part of:
\* the activations the engine computes again in every round agree with those of
\* the round before except for the last MaxMultiWordSize - 1 words.
PastIsSettled ==
  [][\A k \in Positions :
       k + MaxMultiWordSize <= Len(sentence) =>
         Level(trie', sentence')[k] = Level(trie, sentence)[k]]_layoutVars
=============================================================================
