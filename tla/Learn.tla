-------------------------------- MODULE Learn -------------------------------
(***************************************************************************)
(* ConfabulationBase::Learn: the text is read sentence by sentence; a      *)
(* sentence longer than the architecture is learned window by window; each *)
(* window is laid out over the modules, shifted over the architecture, and *)
(* every two symbols that are active together are linked.                  *)
(*                                                                         *)
(* The text reader is an input: text is what it returns, sentence after    *)
(* sentence.                                                               *)
(***************************************************************************)
EXTENDS Organizer, KnowledgeBase, Integers

CONSTANTS ReferenceFrameSize,  \* Globals::kReferenceFrameSize
          Texts                \* sequences of sentences

A == INSTANCE Architecture

\* The code loops for ever on a sentence of more than NumWordModules words
\* when the window is not longer than its overlap; from 128 on the number of all
\* modules, a uint8_t, wraps and the constructor writes past kb_specs.
ASSUME LearnAssumption ==
  /\ NumWordModules > MaxMultiWordSize /\ NumWordModules \in 2 .. 127
  /\ ReferenceFrameSize \in Nat
  /\ Phrases \in SUBSET Seq(Words)
  /\ Texts \subseteq Seq(Seq(Words \cup {Unknown, Hole}))

VARIABLES text,    \* what the reader returns
          read,    \* how many sentences were read
          buffer,  \* read_sentence_buffer
          kbs,     \* the knowledge bases
          pc

vars == <<text, read, buffer, kbs, pc>>

\* Build: a matrix of knowledge bases for each type, and a module pair of the
\* specification in the matrix of its type.
Matrix(type) ==
  {p \in A!Modules \X A!Modules :
     A!HasKb(p[1], p[2]) /\ A!KnowledgeBaseType(p[1], p[2]) = type}

KbPairs == UNION {Matrix(type) : type \in A!KnowledgeBaseTypes}

\* Initialize after Build.
Init ==
  /\ text \in Texts /\ read = 0 /\ buffer = <<>> /\ pc = "sentence"
  /\ kbs = [p \in KbPairs |-> EmptyKb]

-----------------------------------------------------------------------------
\* One sentence; those of fewer than two words are skipped.
ReadSentence ==
  /\ pc = "sentence" /\ read < Len(text)
  /\ read' = read + 1
  /\ IF Len(text[read + 1]) < 2
     THEN UNCHANGED <<buffer, pc>>
     ELSE buffer' = text[read + 1] /\ pc' = "window"
  /\ UNCHANGED <<text, kbs>>

FinishReading ==
  /\ pc = "sentence" /\ read = Len(text)
  /\ pc' = "strengths"
  /\ UNCHANGED <<text, read, buffer, kbs>>

Large == Len(buffer) > NumWordModules

Window == IF Large THEN SubSeq(buffer, 1, NumWordModules) ELSE buffer

\* Mutants: the windows overlap in one word less; the buffer is not shortened.
RestShort ==
  IF Large THEN SubSeq(buffer, NumWordModules - MaxMultiWordSize + 2, Len(buffer)) ELSE <<>>

RestWhole == IF Large THEN buffer ELSE <<>>

\* The buffer without the window, but for the words in which windows overlap.
Rest ==
  IF Large THEN SubSeq(buffer, NumWordModules - MaxMultiWordSize + 1, Len(buffer)) ELSE <<>>

\* ProduceKnowledgeLinkCombinations: the layout, shifted over the modules.
\* Mutants: the shifts to the right only; only the words are shifted.
ShiftsRight == 0 .. (NumWordModules - 2)

Shifts == (3 - NumWordModules) .. (NumWordModules - 2)

ShiftedLevel(level, k, i) == IF i - k \in Positions THEN level[i - k] ELSE None

WordsShifted(layout, k, m) ==
  IF m < NumWordModules THEN ShiftedLevel(layout.words, k, m)
  ELSE layout.phrases[m - NumWordModules]

Shifted(layout, k, m) ==
  IF m < NumWordModules THEN ShiftedLevel(layout.words, k, m)
  ELSE ShiftedLevel(layout.phrases, k, m - NumWordModules)

\* The knowledge base of p after all combinations of one layout.
Linked(kb, layout, p) ==
  LET source == [k \in Shifts |-> Shifted(layout, k, p[1])]
      target == [k \in Shifts |-> Shifted(layout, k, p[2])]
  IN  AddAll(kb, {k \in Shifts : source[k] # None /\ target[k] # None}, source, target)

\* total_size of ProduceKnowledgeLinkCombinations is an int8_t.
Int8(n) == ((n + 128) % 256) - 128

SizesAgree == Int8(2 * NumWordModules) = 2 * NumWordModules

AllHoles(s) == \A k \in DOMAIN s : s[k] = Hole

\* One window.  The assertion of ProduceKnowledgeLinkCombinations ends the program.
LearnWindow ==
  /\ pc = "window"
  /\ IF AllHoles(Window) \/ SizesAgree
     THEN /\ buffer' = Rest
          /\ pc' = IF Len(Rest) >= 2 THEN "window" ELSE "sentence"
          /\ IF AllHoles(Window) THEN UNCHANGED kbs
             ELSE \E layout \in {Organize(Window)} :
                    kbs' = [p \in KbPairs |-> Linked(kbs[p], layout, p)]
     ELSE pc' = "aborted" /\ UNCHANGED <<buffer, kbs>>
  /\ UNCHANGED <<text, read>>

LinkStrengths ==
  /\ pc = "strengths"
  /\ kbs' = [p \in KbPairs |-> ComputeLinkStrengths(kbs[p])]
  /\ pc' = "done"
  /\ UNCHANGED <<text, read, buffer>>

Next == ReadSentence \/ FinishReading \/ LearnWindow \/ LinkStrengths

Spec == Init /\ [][Next]_vars

\* Initialize runs Learn to its end in the only thread there is.
FairSpec == Spec /\ WF_vars(Next)

-----------------------------------------------------------------------------
\* Each stretch of words that can hold a phrase, with the word before or after
\* it, is in the window or stays in the buffer ("overlaps by kMaxMultiWordSize
\* words"): no phrase is cut by the end of a window.
InPiece(piece, k, n) == \E j \in 0 .. (Len(piece) - n) :
  SubSeq(piece, j + 1, j + n) = SubSeq(buffer, k + 1, k + n)

NoStretchCut ==
  [][buffer' # buffer /\ pc = "window" =>
       \A n \in 1 .. (MaxMultiWordSize + 1) : \A k \in 0 .. (Len(buffer) - n) :
         InPiece(Window, k, n) \/ InPiece(buffer', k, n)]_vars

-----------------------------------------------------------------------------
\* What the knowledge bases hold, compared with the text that was read.

Place(m) == m % NumWordModules   \* the position of a module on its level

OccursAt(symbol, s, k) ==
  k \in 0 .. (Len(s) - Len(symbol)) /\ SubSeq(s, k + 1, k + Len(symbol)) = symbol

\* The places of s where v follows u at distance d.
Pairs(s, u, v, d) == {k \in 0 .. Len(s) : OccursAt(u, s, k) /\ OccursAt(v, s, k + d)}

\* The sentences that are learned, all of them read.
Learned == {n \in 1 .. read : Len(text[n]) >= 2}

\* How often the read text shows v at distance d after u.
Shown(u, v, d) ==
  SumFunctionOnSet([n \in DOMAIN text |-> Cardinality(Pairs(text[n], u, v, d))], Learned)

Between == pc \in {"sentence", "strengths"}

\* The module pairs that every pair of words of a window reaches: no shift
\* takes the last word below module 2, nor the first one to the last module.
Inner(p) ==
  /\ Place(p[1]) >= 2 \/ Place(p[2]) >= 2
  /\ Place(p[1]) <= NumWordModules - 2 \/ Place(p[2]) <= NumWordModules - 2

Distance(p) == Place(p[2]) - Place(p[1])

\* Every two words of a sentence that are no further apart than the longest
\* phrase are linked, wherever the windows were cut, and exactly as often as the
\* text shows them if no sentence needed a second window.
EveryPairLearned ==
  Between =>
    \A p \in KbPairs : \A u, v \in Words :
      LET count == Copies(kbs[p].counts, <<<<v>>, <<u>>>>)
          shown == Shown(<<u>>, <<v>>, Distance(p))
      IN  p[1] < NumWordModules /\ p[2] < NumWordModules /\ Inner(p) =>
            /\ Distance(p) \in (-MaxMultiWordSize) .. MaxMultiWordSize => count >= shown
            /\ (\A n \in Learned : Len(text[n]) <= NumWordModules) => count = shown

\* Nothing is linked that the text does not show at that distance.
OnlyTheText ==
  \A p \in KbPairs : \A link \in DOMAIN kbs[p].counts :
    \E n \in Learned : Pairs(text[n], link[2], link[1], Distance(p)) # {}

LinksTo(t, links) == {link \in links : link[1] = t}

\* The links to a target, taken together, were counted as often as the target was:
\* the sum of a target is the sum of the counts of its links, neither less nor
\* more, and only linked symbols have one.
SumsAreTotals(kb) ==
  /\ DOMAIN kb.sums = {link[1] : link \in DOMAIN kb.counts}
  /\ \A t \in DOMAIN kb.sums :
       kb.sums[t] = SumFunctionOnSet(kb.counts, LinksTo(t, DOMAIN kb.counts))

\* The fractions <<count, sum>> whose strengths a link has: each is positive, and
\* the counts of the links to one target add up to the sum they are divided by.
SharesAddUp(kb) ==
  LET links == DOMAIN kb.strengths
      count == [link \in links |-> kb.strengths[link][1]]
  IN  \A link \in links :
        /\ count[link] > 0
        /\ kb.strengths[link][2] = SumFunctionOnSet(count, LinksTo(link[1], links))

\* What ComputeLinkStrength takes the logarithm of are probabilities, and those of
\* the links to one target add up to 1, whatever the windows and the shifts: the
\* code keeps the sums apart from the counts, in a vector of their own.
Probabilities == \A p \in KbPairs : SumsAreTotals(kbs[p]) /\ SharesAddUp(kbs[p])

\* Modules of the same two levels at the same distance.
Alike(p, q) ==
  /\ \A i \in 1 .. 2 : p[i] < NumWordModules <=> q[i] < NumWordModules
  /\ Distance(p) = Distance(q)

\* The comment in Learn, "so as to make the sentence position-neutral": modules
\* of the same levels at the same distance learn the same, but for the ones at the
\* two ends of the architecture.
PositionNeutralInside ==
  \A p, q \in KbPairs : Alike(p, q) /\ Inner(p) /\ Inner(q) => kbs[p] = kbs[q]

\* The assertion "total size should be equal to the total number of modules in
\* the architecture" in ProduceKnowledgeLinkCombinations.
SizesAsserted == pc # "aborted"

\* Learn ends: every window takes words from the buffer.
Finishes == <>(pc = "done")
=============================================================================
