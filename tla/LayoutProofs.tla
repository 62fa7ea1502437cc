---------------------------- MODULE LayoutProofs ----------------------------
(***************************************************************************)
(* The trie stores exactly what was added and finds what was stored, and   *)
(* the layout of a sentence is the one its symbols call for, for any       *)
(* vocabulary, any sentence and any number of modules.  The invariant is   *)
(* that the nodes of the trie are closed under beginnings (Holds).         *)
(***************************************************************************)
EXTENDS SentenceLayout, OrganizerProofs

TypeOK == IsFiniteSet(trie.leaves)

IInv == TypeOK /\ Holds(trie, Tokens, added) /\ StoresWhatWasAdded

\* What a sentence may consist of.
AllTokens == Words \cup {Unknown, Hole}

LayoutInv == IInv /\ added \subseteq Phrases /\ sentence \in Seq(AllTokens)

-----------------------------------------------------------------------------
LEMMA InitIInv == Init => IInv
BY FS_EmptySet, EmptyTrieHolds DEF Init, EmptyTrie, IInv, TypeOK, StoresWhatWasAdded

\* Adding a sequence keeps the nodes closed, and adds it as the only new leaf.
LEMMA AddIInv ==
  ASSUME IInv, NEW s \in Seq(Tokens), AddSequence(s)
  PROVE  IInv'
<1>1. Holds(trie', Tokens, added')
  BY AddHolds DEF IInv, AddSequence
<1>2. CASE s = <<>>
  <2>1. trie' = trie /\ added' \ {<<>>} = added \ {<<>>}
    BY <1>2 DEF AddSequence, Add
  <2> QED BY <1>1, <2>1 DEF IInv, TypeOK, StoresWhatWasAdded
<1>3. CASE s # <<>>
  <2>1. /\ trie'.leaves = trie.leaves \cup {s}
        /\ trie'.size = IF s \in trie.leaves THEN trie.size ELSE trie.size + 1
        /\ added' = added \cup {s}
    BY <1>3 DEF AddSequence, Add
  <2>2. IsFiniteSet(trie'.leaves) /\ trie'.size = Cardinality(trie'.leaves)
    <3>1. IsFiniteSet(trie.leaves) /\ trie.size = Cardinality(trie.leaves)
      BY DEF IInv, TypeOK, StoresWhatWasAdded
    <3>2. IsFiniteSet(trie.leaves \cup {s})
      BY <3>1, FS_AddElement
    <3>3. s \notin trie.leaves =>
            Cardinality(trie.leaves \cup {s}) = Cardinality(trie.leaves) + 1
      BY <3>1, FS_AddElement
    <3>4. s \in trie.leaves => trie.leaves \cup {s} = trie.leaves
      OBVIOUS
    <3> QED BY <2>1, <3>1, <3>2, <3>3, <3>4
  <2>3. StoresWhatWasAdded'
    BY <1>3, <2>1, <2>2 DEF IInv, StoresWhatWasAdded
  <2> QED BY <1>1, <2>2, <2>3 DEF IInv, TypeOK
<1> QED BY <1>2, <1>3

LEMMA SequencesAreSequences == Sequence \in SUBSET Seq(Tokens)
<1>1. ASSUME NEW s \in Sequence PROVE s \in Seq(Tokens)
  <2>1. PICK n \in 0 .. MaxLength : s \in [1 .. n -> Tokens]
    BY HashTrieAssumption DEF Sequence, BoundedSeq, SeqOf
  <2> QED BY <2>1, HashTrieAssumption
<1> QED BY <1>1

THEOREM Invariance == Spec => []IInv
<1>1. IInv /\ [Next]_vars => IInv'
  <2> SUFFICES ASSUME IInv, [Next]_vars PROVE IInv'
    OBVIOUS
  <2>1. CASE Next
    BY <2>1, AddIInv, SequencesAreSequences DEF Next
  <2>2. CASE UNCHANGED vars
    BY <2>2 DEF vars, IInv, TypeOK, Holds, StoresWhatWasAdded
  <2> QED BY <2>1, <2>2
<1> QED BY InitIInv, <1>1, PTL DEF Spec

\* Add stores every sequence once and makes no symbol of a shared prefix.
THEOREM Stored == Spec => []StoresWhatWasAdded
<1>1. IInv => StoresWhatWasAdded
  BY DEF IInv
<1> QED BY <1>1, Invariance, PTL

\* FindLongest never misses a longer symbol and never returns what was not added.
THEOREM FindsLongest == Spec => []LongestMatch
<1>1. IInv => LongestMatch
  <2> SUFFICES ASSUME IInv, NEW s \in Sequence PROVE
        LET m       == FindLongest(trie, s)
            matches == {p \in added \ {<<>>} : IsPrefix(p, s)}
        IN  /\ matches = {} => m = <<>>
            /\ matches # {} => m \in matches /\ \A p \in matches : Len(p) <= Len(m)
    BY DEF LongestMatch
  <2> DEFINE m == FindLongest(trie, s)
  <2>1. s \in Seq(Tokens)
    BY SequencesAreSequences
  <2>2. /\ m # <<>> => m \in added /\ IsPrefix(m, s)
        /\ \A p \in added \ {<<>>} : IsPrefix(p, s) => m # <<>> /\ Len(p) <= Len(m)
    BY <2>1, FindLongestFacts DEF IInv
  <2> HIDE DEF m
  <2> DEFINE matches == {p \in added \ {<<>>} : IsPrefix(p, s)}
  <2>3. /\ matches = {} => m = <<>>
        /\ matches # {} => m \in matches /\ \A p \in matches : Len(p) <= Len(m)
    BY <2>2
  <2> QED BY <2>3 DEF m
<1> QED BY <1>1, Invariance, PTL

\* FindAll finds every symbol the sequence begins with and nothing that is not a
\* symbol, as long as no symbol is a single token.
THEOREM FindsAll == Spec => []AllMatches
<1>1. IInv => AllMatches
  <2> SUFFICES ASSUME IInv, \A p \in added : Len(p) > 1, NEW s \in Sequence
               PROVE  LET found == ToSet(FindAll(trie, s))
                      IN  {p \in added : IsPrefix(p, s)} \subseteq found /\ found \subseteq added
    BY DEF AllMatches
  <2> QED BY SequencesAreSequences, FindAllFacts DEF IInv
<1> QED BY <1>1, Invariance, PTL

-----------------------------------------------------------------------------
LEMMA LayoutInitInv == LayoutInit => LayoutInv
BY InitIInv DEF LayoutInit, LayoutInv, Init

\* Only the constructor adds symbols, and a sentence grows token by token.
LEMMA LayoutNextInv == LayoutInv /\ [LayoutNext]_layoutVars => LayoutInv'
<1> SUFFICES ASSUME LayoutInv, [LayoutNext]_layoutVars PROVE LayoutInv'
  OBVIOUS
<1>1. ASSUME NEW p \in Phrases, AddSymbol(p) PROVE LayoutInv'
  <2>1. AddSequence(p) /\ sentence' = sentence /\ p \in Seq(Tokens)
    BY <1>1, SentenceLayoutAssumption, SequencesAreSequences DEF AddSymbol
  <2>2. IInv'
    BY <2>1, AddIInv DEF LayoutInv
  <2> QED BY <2>1, <2>2 DEF LayoutInv, AddSequence
<1>2. ASSUME UNCHANGED <<trie, added>> PROVE IInv'
  BY <1>2 DEF LayoutInv, IInv, TypeOK, StoresWhatWasAdded, Holds
<1>3. ASSUME NEW token \in Words \cup {Unknown, Hole}, Extend(token) PROVE LayoutInv'
  <2>1. sentence' \in Seq(AllTokens)
    BY <1>3, AppendProperties DEF Extend, LayoutInv, AllTokens
  <2> QED BY <1>2, <1>3, <2>1 DEF Extend, LayoutInv
<1>4. CASE UNCHANGED layoutVars
  BY <1>2, <1>4 DEF layoutVars, LayoutInv
<1> QED BY <1>1, <1>3, <1>4 DEF LayoutNext

\* The organizer changes its trie as HashTrie does: what is proved of every trie
\* holds for the trie of an organizer.
THEOREM LayoutUsesTrie == LayoutSpec => Spec
<1>1. LayoutInit => Init
  BY DEF LayoutInit
<1>2. [LayoutNext]_layoutVars => [Next]_vars
  BY SentenceLayoutAssumption DEF LayoutNext, AddSymbol, Extend, layoutVars, Next, vars
<1> QED BY <1>1, <1>2, PTL DEF LayoutSpec, Spec

THEOREM LayoutInvariance == LayoutSpec => []LayoutInv
BY LayoutInitInv, LayoutNextInv, PTL DEF LayoutSpec

\* The tries of an organizer, over all the tokens of a sentence.
LEMMA LayoutTries ==
  ASSUME LayoutInv
  PROVE  /\ Holds(trie, AllTokens, added)
         /\ Holds(WordTrie, AllTokens, {<<w>> : w \in Words})
         /\ Words \in SUBSET AllTokens
<1>1. Holds(trie, AllTokens, added)
  <2>1. Tokens \subseteq AllTokens
    BY SentenceLayoutAssumption DEF AllTokens
  <2> QED BY <2>1, HoldsMonotonic DEF LayoutInv, IInv
<1>2. Holds(WordTrie, AllTokens, {<<w>> : w \in Words})
  BY WordTrieHolds DEF AllTokens
<1> QED BY <1>1, <1>2 DEF AllTokens

\* No phrase is empty.
LEMMA PhraseLengths ==
  ASSUME NEW p \in Phrases
  PROVE  Len(p) \in Nat /\ Len(p) \in 2 .. MaxMultiWordSize /\ p # None
<1>1. Len(p) \in 2 .. MaxMultiWordSize
  BY OrganizerAssumption
<1>2. Len(None) = 0
  BY EmptySeq DEF None
<1> QED BY <1>1, <1>2, OrganizerAssumption

-----------------------------------------------------------------------------
\* A position shows a phrase only where its words are in the sentence, and no two
\* phrases share a word, whatever the vocabulary.
THEOREM PhrasesStayInPlace == LayoutSpec => []PhrasesInPlace
<1>1. LayoutInv => PhrasesInPlace
  <2> SUFFICES ASSUME LayoutInv PROVE PhrasesInPlace
    OBVIOUS
  <2> DEFINE phrases == Level(trie, sentence)
  <2>1. sentence \in Seq(AllTokens)
    BY DEF LayoutInv
  <2>2. /\ \A k \in Positions : /\ phrases[k] \in added \cup {None}
                                /\ phrases[k] # None => StandsAt(sentence, k, phrases[k])
        /\ \A k, l \in Positions : phrases[k] # None /\ phrases[l] # None /\ k < l =>
                                     k + Len(phrases[k]) <= l
    BY <2>1, LayoutTries, LevelFacts
  <2> HIDE DEF phrases
  <2>3. \A k \in Positions : phrases[k] # None => Stretch(k, phrases[k]) = phrases[k]
    BY <2>2 DEF StandsAt, Stretch
  <2> DEFINE set == {k \in Positions : phrases[k] # None}
  <2>4. /\ \A k \in set : phrases[k] \in added /\ Stretch(k, phrases[k]) = phrases[k]
        /\ \A k, l \in set : k < l => k + Len(phrases[k]) <= l
    BY <2>2, <2>3
  <2> QED BY <2>4 DEF PhrasesInPlace, phrases
<1> QED BY <1>1, LayoutInvariance, PTL

\* A phrase that occurs in the sentence is only passed over for an earlier or a
\* longer one over its first word.
THEOREM NothingIsMissed == LayoutSpec => []NothingMissed
<1>1. LayoutInv => NothingMissed
  <2> SUFFICES ASSUME LayoutInv, NEW k \in Positions, NEW p \in added, Stretch(k, p) = p
               PROVE  \E j \in 0 .. k :
                        LET phrases == Level(trie, sentence)
                        IN  /\ phrases[j] # None /\ k < j + Len(phrases[j])
                            /\ j = k => Len(p) <= Len(phrases[j])
    BY DEF NothingMissed
  <2>1. sentence \in Seq(AllTokens) /\ p \in added \ {None}
    BY PhraseLengths DEF LayoutInv
  <2>2. StandsAt(sentence, k, p)
    BY <2>1 DEF Stretch, StandsAt
  <2> QED BY <2>1, <2>2, LayoutTries, LevelFacts
<1> QED BY <1>1, LayoutInvariance, PTL

\* The word modules show the words of the sentence, each at its own position.
THEOREM WordsStayInPlace == LayoutSpec => []WordsInPlace
<1>1. LayoutInv => WordsInPlace
  <2> SUFFICES ASSUME LayoutInv, NEW k \in Positions
               PROVE  Level(WordTrie, sentence)[k] =
                        IF k < Len(sentence) /\ sentence[k + 1] \in Words
                        THEN <<sentence[k + 1]>> ELSE None
    BY DEF WordsInPlace
  <2>1. sentence \in Seq(AllTokens)
    BY DEF LayoutInv
  <2> DEFINE A == {<<w>> : w \in Words}
  <2>2. Holds(WordTrie, AllTokens, A) /\ Words \in SUBSET AllTokens
    BY LayoutTries
  <2>3. A = {<<w>> : w \in Words}
    OBVIOUS
  <2> HIDE DEF A
  <2>4. ASSUME NEW s \in Seq(AllTokens)
        PROVE  Level(WordTrie, s)[k] =
                 IF k < Len(s) /\ s[k + 1] \in Words THEN <<s[k + 1]>> ELSE None
    BY <2>2, <2>3, SingleWordLevel
  <2> QED BY <2>1, <2>4
<1> QED BY <1>1, LayoutInvariance, PTL

\* Extending the sentence leaves the phrases alone that are further from its end
\* than a phrase can reach.
THEOREM PastStaysSettled == LayoutSpec => PastIsSettled
<1> DEFINE Settled == \A k \in Positions :
                        k + MaxMultiWordSize <= Len(sentence) =>
                          Level(trie', sentence')[k] = Level(trie, sentence)[k]
<1>1. LayoutInv /\ [LayoutNext]_layoutVars => [Settled]_layoutVars
  <2> SUFFICES ASSUME LayoutInv, LayoutNext, NEW k \in Positions,
                      k + MaxMultiWordSize <= Len(sentence)
               PROVE  Level(trie', sentence')[k] = Level(trie, sentence)[k]
    OBVIOUS
  <2>1. CASE \E p \in Phrases : AddSymbol(p)
    <3>1. Len(sentence) = 0
      BY <2>1, EmptySeq DEF AddSymbol
    <3> QED BY <3>1, OrganizerAssumption, PositionFacts
  <2>2. ASSUME NEW token \in AllTokens, Extend(token)
        PROVE  Level(trie', sentence')[k] = Level(trie, sentence)[k]
    <3>1. sentence \in Seq(AllTokens) /\ <<token>> \in Seq(AllTokens)
      BY DEF LayoutInv
    <3>2. sentence' = sentence \o <<token>> /\ trie' = trie
      BY <2>2, <3>1, AppendIsConcat DEF Extend
    <3>3. MaxMultiWordSize \in Nat /\ \A p \in added : Len(p) <= MaxMultiWordSize
      BY OrganizerAssumption, PhraseLengths DEF LayoutInv
    <3>4. Holds(trie, AllTokens, added)
      BY LayoutTries
    <3> DEFINE n == MaxMultiWordSize
               t == <<token>>
    <3> HIDE DEF n, t
    <3>5. Level(trie, sentence \o t)[k] = Level(trie, sentence)[k]
      <4>1. n \in Nat /\ (\A p \in added : Len(p) <= n) /\ k + n <= Len(sentence)
        BY <3>3 DEF n
      <4>2. t \in Seq(AllTokens)
        BY <3>1 DEF t
      <4> QED BY <3>1, <3>4, <4>1, <4>2, LevelSettled
    <3> QED BY <3>2, <3>5 DEF t
  <2> QED BY <2>1, <2>2 DEF LayoutNext, AllTokens
<1> QED BY <1>1, LayoutInvariance, PTL DEF LayoutSpec, PastIsSettled
=============================================================================
