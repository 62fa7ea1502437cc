------------------------- MODULE SentenceTokenizer --------------------------
(***************************************************************************)
(* SentenceTokenizer::Tokenize and the loop of TextReader::ExtractTokens:  *)
(* a text is a sequence of characters, a token one of letters.             *)
(***************************************************************************)
EXTENDS Integers, Sequences, SequencesExt, FiniteSetsExt

CONSTANTS TokenDelimiters,   \* kTokenDelimiters
          Marks              \* what is neither a delimiter nor a letter

NPos == 0

Is(s, p, delimiter) == (s[p] \in TokenDelimiters) = delimiter

\* Mutant of FindFirst: the character at from is passed over.
FindNext(s, from, delimiter) ==
  IF from # NPos /\ \E p \in (from + 1) .. Len(s) : Is(s, p, delimiter)
  THEN CHOOSE p \in (from + 1) .. Len(s) :
         Is(s, p, delimiter) /\ \A q \in (from + 1) .. (p - 1) : ~Is(s, q, delimiter)
  ELSE NPos

\* find_first_of the delimiters, and find_first_not_of.
FindFirst(s, from, delimiter) ==
  IF from # NPos /\ \E p \in from .. Len(s) : Is(s, p, delimiter)
  THEN CHOOSE p \in from .. Len(s) :
         Is(s, p, delimiter) /\ \A q \in from .. (p - 1) : ~Is(s, q, delimiter)
  ELSE NPos

ConvertSymbolToAlphanumeric(token) ==
  FlattenSeq([i \in DOMAIN token |-> IF token[i] \in Marks THEN <<>> ELSE <<token[i]>>])

\* CleanToken leaves the letters, in lower case: a token of marks only becomes the
\* empty one.
CleanToken(token) == ConvertSymbolToAlphanumeric(token)

\* What a call of Tokenize finds from index_ on: no token, or one and the index
\* behind it.
Tokenize(s, index) ==
  LET begin == FindFirst(s, index, FALSE)
      end   == FindFirst(s, begin, TRUE)
  IN  IF begin = NPos THEN [more |-> FALSE]
      ELSE [more  |-> TRUE,
            token |-> SubSeq(s, begin, IF end = NPos THEN Len(s) ELSE end - 1),
            index |-> end]

\* The loop of ExtractTokens.
ExtractTokens(s) ==
  LET From[index \in 0 .. Len(s)] ==
        LET call == Tokenize(s, index)
        IN  IF call.more THEN <<CleanToken(call.token)>> \o From[call.index] ELSE <<>>
  IN  IF s = <<>> THEN <<>> ELSE From[1]
=============================================================================
