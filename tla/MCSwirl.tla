------------------------------ MODULE MCSwirl -------------------------------
(***************************************************************************)
(* Small instances of Swirl.  The links are those a tiny corpus gives: a   *)
(* sentence is a sequence of word symbols, its phrases a sequence with the *)
(* phrase symbol that starts at a position, or -1; it is no longer than a  *)
(* window of Learn, and linked under every shift that Learn gives it.      *)
(***************************************************************************)
EXTENDS Swirl, TLC

CONSTANT Corpus, Starts

\* The pairs of positions of a sentence where source symbol s and target
\* symbol t are learned between module i and module j.
Cooccurrences(text, i, j, s, t) ==
  LET Layout(m) == IF m < N THEN text.words ELSE text.phrases
      Offset    == (j % N) - (i % N)
  IN  {p \in DOMAIN text.words :
         /\ (i % N) - (p - 1) \in (3 - N) .. (N - 2)
         /\ p + Offset \in DOMAIN text.words
         /\ Layout(i)[p] = s
         /\ Layout(j)[p + Offset] = t}

Count(i, j, s, t) ==
  MapThenSumSet(LAMBDA text : Cardinality(Cooccurrences(text, i, j, s, t)), Corpus)

\* ComputeLinkStrength, BandGap + log2(p) - log2(0.0001), to a whole unit.
Strength(c, n) ==
  CASE c = 0     -> 0
    [] c = n     -> BandGap + 13
    [] 2 * c >= n -> BandGap + 12
    [] OTHER     -> BandGap + 11

MCLink ==
  [ij \in Modules \X Modules |->
     [t \in Symbols |-> [s \in Symbols |->
        IF HasKb(ij[1], ij[2])
        THEN Strength(Count(ij[1], ij[2], s, t),
                      MapThenSumSet(LAMBDA r : Count(ij[1], ij[2], r, t), Symbols))
        ELSE 0]]]

\* What Activate leaves for an observed beginning of a sentence.
Activated(text) ==
  [m \in Modules |->
     LET layout == IF m < N THEN text.words ELSE text.phrases
         p      == (m % N) + 1
     IN  IF p \in DOMAIN layout /\ layout[p] # Dummy
         THEN SingleElement(layout[p], BandGap) ELSE ZeroVector]

MCInputs == {Activated(text) : text \in Starts}

Text(words, phrases) == [words |-> words, phrases |-> phrases]

\* "0 1" and "1 0 0"; phrases 0 = "0 1" and 1 = "1 0".  From "0", a thread
\* alone samples the result sizes 4, 3, 3.
ShrinkingCorpus == {Text(<<0, 1>>, <<0, Dummy>>),
                    Text(<<1, 0, 0>>, <<1, Dummy, Dummy>>)}

\* "2 2 0 0", in two windows of three, and "0 1"; phrases 0 = "0 0", 1 = "0 1"
\* and 2 = "2 2".
PairsCorpus == {Text(<<2, 2, 0>>, <<2, Dummy, Dummy>>),
                Text(<<2, 0, 0>>, <<Dummy, 0, Dummy>>),
                Text(<<0, 1>>, <<1, Dummy>>)}

\* "1 0 0 1"; phrases 0 = "0 1" and 1 = "1 0".  The swirl of one thread from "1"
\* tightens both modules at the index empty.
PalindromeCorpus == {Text(<<1, 0, 0, 1>>, <<1, Dummy, 0, Dummy>>)}

FromZero == {Text(<<0>>, <<Dummy>>)}
FromTwo == {Text(<<2>>, <<Dummy>>)}
FromOneWord == {Text(<<s>>, <<Dummy>>) : s \in Symbols}

Symmetry == Permutations(Threads)
=============================================================================
