--------------------------- MODULE MCConfabulation --------------------------
(***************************************************************************)
(* Confabulation for TLC on five word modules: two words, two phrases that *)
(* overlap, and the ways a sentence can be handed to the engine.           *)
(***************************************************************************)
EXTENDS Confabulation, TLC

CONSTANTS a, b

MCPhrases == {<<a, b>>, <<b, a, b>>}

Request(symbols, i) == [symbols |-> symbols, index |-> i, expectation |-> FALSE]

\* Completed at its end, with and without a word that is no symbol.
UnpaddedRequests ==
  {Feed(s) : s \in {<<a>>, <<b, a>>, <<Unknown, b>>}}
  \cup {Request(<<a, b>>, 2)}

\* A beginning followed by the empty strings that FillWithEmptyStrings adds.
PaddedRequests == {Feed(FillWithEmptyStrings(<<a>>, N))}

\* Holes between words, an index apart from the sentence, a full frame, an
\* index on a phrase module, sentences that are refused, and an expectation.
OtherRequests ==
  {Request(<<a, Hole, b>>, -1), Request(<<Hole, a>>, 2), Request(<<a>>, 3),
   Request(<<a, b, a, b, a>>, -1), Request(<<a>>, N + 1),
   Request(<<Hole, Hole>>, 1), Request(<<Hole, a>>, -1), Request(<<a, b>>, 1),
   Request(<<>>, -1), Request(<<Hole, a>>, 0), Request(<<a>>, 2 * N),
   Request(<<a, b, a, b, a, b>>, -1),
   [symbols |-> <<b>>, index |-> -1, expectation |-> TRUE]}

AllRequests == UnpaddedRequests \cup PaddedRequests \cup OtherRequests
=============================================================================
