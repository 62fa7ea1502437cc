------------------------------ MODULE Organizer -----------------------------
(***************************************************************************)
(* MultiLevelOrganizer: which symbol a sentence activates on each module   *)
(* of the two levels, words and phrases.                                   *)
(*                                                                         *)
(* A sentence is a sequence of tokens; Hole is the empty string.  A layout *)
(* gives each position its symbol, a sequence of tokens, or <<>> when it   *)
(* has none.                                                               *)
(***************************************************************************)
EXTENDS Trie

CONSTANTS NumWordModules,    \* the size of each level
          MaxMultiWordSize,  \* Globals::kMaxMultiWordSize
          Words,             \* single-word symbols
          Phrases,           \* multi-word symbols, sequences of words
          Unknown,           \* a word that is no symbol
          Hole               \* the empty string

ASSUME OrganizerAssumption ==
  /\ NumWordModules \in Nat \ {0} /\ MaxMultiWordSize \in Nat \ {0}
  /\ IsFiniteSet(Words) /\ IsFiniteSet(Phrases)
  /\ \A p \in Phrases : Len(p) \in 2 .. MaxMultiWordSize
  /\ Hole \notin Words /\ Unknown \notin Words \cup {Hole}

Positions == 0 .. (NumWordModules - 1)
None == <<>>   \* a position without symbol

\* The tries of the two levels, filled by the constructor.
TrieOf(symbols) == FoldSet(LAMBDA s, trie : Add(trie, s), EmptyTrie, symbols)
WordTrie   == TrieOf({<<w>> : w \in Words})
PhraseTrie == TrieOf(Phrases)

-----------------------------------------------------------------------------
\* What is matched at position k: the longest symbol the rest begins with.
Match(trie, sentence, k) == FindLongest(trie, SubSeq(sentence, k + 1, Len(sentence)))

\* Mutants: a matched symbol is not removed; one token too many is removed.
StrideOne(trie, sentence, k) == 1

StrideBeyond(trie, sentence, k) == Len(Match(trie, sentence, k)) + 1

\* How many tokens the scan removes at k: the match, or one if there is none.
Stride(trie, sentence, k) ==
  IF Match(trie, sentence, k) = None THEN 1 ELSE Len(Match(trie, sentence, k))

\* The positions at which the scan of one level looks for a match.
Visited(trie, sentence) ==
  LET visited[k \in Positions] ==
        \/ k = 0
        \/ \E j \in 0 .. (k - 1) : visited[j] /\ j + Stride(trie, sentence, j) = k
  IN  {k \in Positions : visited[k]}

\* Mutant of Level: the sentence is laid out against the end of the level.
LevelFromTheRight(trie, sentence) ==
  LET gap == NumWordModules - Len(sentence)
  IN  [k \in Positions |->
         IF k >= gap /\ k - gap \in Visited(trie, sentence)
         THEN Match(trie, sentence, k - gap) ELSE None]

\* One level of Organize.
Level(trie, sentence) ==
  [k \in Positions |->
     IF k \in Visited(trie, sentence) THEN Match(trie, sentence, k) ELSE None]

Organize(sentence) ==
  [words |-> Level(WordTrie, sentence), phrases |-> Level(PhraseTrie, sentence)]
=============================================================================
