------------------------------ MODULE MCSymbols -----------------------------
(***************************************************************************)
(* Symbols for TLC.  Letters are numbers, so that keys have an order.  One *)
(* part of the texts cuts lines, sentences, words and files everywhere;    *)
(* the other has whole sentences full of repeated phrases.                 *)
(***************************************************************************)
EXTENDS Symbols

CONSTANT Mark    \* an apostrophe

X == 1
Y == 2
MCAbbrLetters == <<3>>
MCCharacters == {X, Y, 3, Abbr, Stop, Space, Mark}
MCTokenDelimiters == {Stop, Space}
MCMarks == {Mark}

File(lines, newline) == [exists |-> TRUE, lines |-> lines, newline |-> newline]
Missing == [exists |-> FALSE, lines |-> <<>>, newline |-> FALSE]

Lines(letter, n) == UNION {[1 .. k -> {letter, Abbr, Stop, Space}] : k \in 0 .. n}

\* A last line without newline is not empty.
LastLines(letter, n, newline) == Lines(letter, n) \ (IF newline THEN {} ELSE {<<>>})

OneLine(letter, n) ==
  {File(<<>>, TRUE)} \cup
  UNION {{File(<<l>>, newline) : l \in LastLines(letter, n, newline)} : newline \in BOOLEAN}

\* Two lines; three; two files, of which one may be missing or empty.
CutTexts ==
  {<<File(<<l, m>>, newline)>> : l \in Lines(X, 3), m \in LastLines(Y, 2, FALSE),
                                 newline \in BOOLEAN}
  \cup {<<File(<<l, k, m>>, TRUE)>> : l \in Lines(X, 1), k \in Lines(Y, 2), m \in Lines(X, 1)}
  \cup {<<f, g>> : f \in OneLine(X, 1) \cup {Missing}, g \in OneLine(Y, 2) \cup {Missing}}

\* A file of whole sentences, each a sequence of words.
Whole(sentences) ==
  File([k \in DOMAIN sentences |->
          FlattenSeq([i \in DOMAIN sentences[k] |-> sentences[k][i] \o <<Space>>]) \o <<Stop>>],
       TRUE)

Of(words, n) == [1 .. n -> words]

TwoWords  == {<<X>>, <<Y>>}
Mixed     == {<<X>>, <<X, Y>>, <<Y, X>>}
WithHoles == {<<X>>, <<Y>>, <<Mark>>}

\* One sentence with repeated phrases of every size; tokens of a mark only; words
\* that share keys.
CollidingTexts == {<<Whole(<<s>>)>> : s \in Of(Mixed, 4)}

PhraseTexts ==
  {<<Whole(<<(<<<<X>>>> \o s)>>)>> : s \in Of(TwoWords, 6) \cup Of(TwoWords, 8)}
  \cup {<<Whole(<<s, <<<<X>>, <<Y>>>>>>)>> : s \in Of(WithHoles, 5)}
  \cup {<<Whole(<<s, s>>)>> : s \in Of(Mixed, 4)}

MCTexts == CutTexts \cup PhraseTexts
=============================================================================
