------------------------------ MODULE MCLearn -------------------------------
(* Instances of Learn: a level of four, phrases of at most two words.       *)
EXTENDS Learn

CONSTANTS a, b, unknown, hole

MCWords == {a, b}
MCPhrases == {<<a, b>>, <<b, b>>}

\* Every sentence of up to n tokens, with and without holes.
Sentences(tokens, n) == UNION {[1 .. l -> tokens] : l \in 0 .. n}

\* One sentence of any length up to three windows.
OneSentence == {<<s>> : s \in Sentences({a, b}, 8)}
               \cup {<<s>> : s \in Sentences({a, b, unknown, hole}, 4)}

\* Two sentences, the counts of the first kept under the second.
TwoSentences == {<<s, t>> : s \in Sentences({a, b}, 3), t \in Sentences({a, b}, 5)}

\* Sentences of empty strings only, which the windows skip.
HoleSentences == {<<s>> : s \in Sentences({hole}, 12)}

MCTexts == OneSentence \cup TwoSentences \cup HoleSentences
=============================================================================
