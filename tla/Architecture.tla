---------------------------- MODULE Architecture ----------------------------
(***************************************************************************)
(* The modules of TwoLevelMultiConfabulation, word modules 0 .. N-1 and    *)
(* phrase modules N .. 2N-1, and the knowledge bases between them          *)
(* (kb_specs).                                                             *)
(***************************************************************************)
EXTENDS Integers

CONSTANTS NumWordModules,      \* num_word_modules_
          MaxMultiWordSize,    \* Globals::kMaxMultiWordSize
          ReferenceFrameSize   \* Globals::kReferenceFrameSize

N == NumWordModules
Modules == 0 .. (2 * N - 1)
Phrase(i) == N + i

ModuleType(i) == IF i < N THEN "word_t" ELSE "phrase_t"

\* GetKnowledgeBaseType, from the types of the source and the target module.
KnowledgeBaseTypes == {"word_t", "phrase_t"} \X {"word_t", "phrase_t"}
KnowledgeBaseType(i, j) == <<ModuleType(i), ModuleType(j)>>

-----------------------------------------------------------------------------
\* Mutant of HasKb: one past phrase too few.
HasKbShort(i, j) ==
  \/ i < N /\ j < N  /\ j \in (i - MaxMultiWordSize) .. (i + ReferenceFrameSize) \ {i}
  \/ i < N /\ j >= N /\ j \in (Phrase(i) + 2 - MaxMultiWordSize)
                            .. (Phrase(i) + ReferenceFrameSize)
  \/ i >= N /\ j >= N /\ j \in (i + 2) .. (i + ReferenceFrameSize)
  \/ i >= N /\ j < N /\ (j = i - N \/ j >= i - N + 2)

HasKb(i, j) ==
  LET FutureWord   == j \in (i + 1) .. (i + ReferenceFrameSize)
      PastWord     == j \in (i - MaxMultiWordSize) .. (i - 1)
      FuturePhrase == j \in Phrase(i) + 1 .. Phrase(i) + ReferenceFrameSize
      PastPhrase   == j \in (Phrase(i) + 1 - MaxMultiWordSize) .. Phrase(i)
  IN  \/ i < N /\ j < N  /\ (FutureWord \/ PastWord)
      \/ i < N /\ j >= N /\ (FuturePhrase \/ PastPhrase)
      \/ i >= N /\ j >= N /\ j \in (i + 2) .. (i + ReferenceFrameSize)
      \/ i >= N /\ j < N /\ (j = i - N \/ j >= i - N + 2)
=============================================================================
