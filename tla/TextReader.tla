----------------------------- MODULE TextReader -----------------------------
(***************************************************************************)
(* TextReader::GetNextSentenceTokens, called until finished_reading: the   *)
(* files of the master file are read line by line, cut at the sentence     *)
(* delimiters, and what is left of a line waits in left_over_sentence_.    *)
(*                                                                         *)
(* A line is a sequence of letters, marks, spaces, sentence delimiters     *)
(* (Stop) and letters whose dot is taken for an abbreviation's (Abbr:      *)
(* "Mr." and the others of kCommonAbbreviations, but also the "ch." of     *)
(* "which.").  Lines with "CH." are left out: RemoveCommonAbbreviations    *)
(* damages them.                                                           *)
(***************************************************************************)
EXTENDS Integers, Sequences, SequencesExt, FiniteSetsExt, SentenceTokenizer

CONSTANTS Characters,  \* what the lines consist of, with
          Abbr, Stop, Space,
          AbbrLetters, \* the letters of an abbreviation
          Null,        \* nullptr
          Texts        \* sequences of files: [exists, lines, newline]

\* What words consist of; they are compared by their codes.
Letters == Characters \ (TokenDelimiters \cup Marks \cup {Abbr})

ASSUME TextReaderAssumption ==
  /\ Letters \subseteq Int
  /\ {Stop, Space} \subseteq TokenDelimiters /\ Abbr \notin TokenDelimiters
  /\ {Abbr, Stop, Space} \subseteq Characters /\ AbbrLetters \in Seq(Letters)
  /\ Null \notin Seq(Characters) \cup [lines : Seq(Seq(Characters)), good : BOOLEAN]
  /\ Texts \subseteq Seq([exists : BOOLEAN, lines : Seq(Seq(Characters)), newline : BOOLEAN])

VARIABLES files,      \* the files behind text_file_names_
          it,         \* current_text_file_it_
          stream,     \* current_text_file_: Null or [lines, good]
          leftOver,   \* left_over_sentence_: Null or a sequence
          returned,   \* what the calls returned
          finished    \* finished_reading

readerVars == <<files, it, stream, leftOver, returned, finished>>

\* The names of the text files, in the order of the master file.
HandleMasterFile == files \in Texts

\* Initialize reads the master file; the symbol file is never opened.
ReaderInit ==
  /\ HandleMasterFile /\ it = 1 /\ stream = Null /\ leftOver = Null
  /\ returned = <<>> /\ finished = FALSE

-----------------------------------------------------------------------------
\* RemoveCommonAbbreviations: only the leftmost one of a line loses its dot,
\* since the loop looks again only if the last one of the list, "CH.", occurs.
Undotted(line) ==
  LET abbrs == {p \in DOMAIN line : line[p] = Abbr}
      Text(p) == IF p \notin abbrs THEN <<line[p]>>
                 ELSE IF p = Min(abbrs) THEN AbbrLetters ELSE Append(AbbrLetters, Stop)
  IN  FlattenSeq([p \in DOMAIN line |-> Text(p)])

Stops(s) == {p \in DOMAIN s : s[p] = Stop}

\* end_of_phase: behind the first delimiter and the ones that follow it, but if
\* nothing follows those, behind the first.
EndOfPhase(s) ==
  LET first == Min(Stops(s))
      behind == {p \in DOMAIN s : p > first /\ s[p] # Stop}
  IN  IF behind = {} THEN first ELSE Min(behind) - 1

Cut(s) ==
  \E end \in {EndOfPhase(s)} : \E phrase \in {SubSeq(s, 1, end)} :
    /\ returned' = Append(returned, ExtractTokens(phrase))
    /\ leftOver' = SubSeq(s, end + 1, Len(s))

LeftOver == IF leftOver = Null THEN <<>> ELSE leftOver

\* A sentence ends in what is left over.
FromLeftOver ==
  /\ ~finished /\ Stops(LeftOver) # {}
  /\ Cut(leftOver)
  /\ UNCHANGED <<files, it, stream, finished>>

\* The text after the next n lines.
Read(n) ==
  LeftOver \o FlattenSeq([k \in 1 .. n |-> <<Space>> \o Undotted(stream.lines[k])])

\* Lines are read until one has a delimiter. The last line without newline meets
\* the end of the file; so does reading on after the last line, and then the
\* sentence is empty and everything stays left over.
Enough == {n \in DOMAIN stream.lines : Stops(Read(n)) # {}}

ReadOn ==
  /\ ~finished /\ Stops(LeftOver) = {}
  /\ stream # Null /\ stream.good
  /\ \/ /\ Enough = {}
        /\ stream' = [lines |-> <<>>, good |-> FALSE]
        /\ leftOver' = Read(Len(stream.lines))
        /\ returned' = Append(returned, <<>>)
     \/ \E n \in Enough :
          /\ \A m \in Enough : n <= m
          /\ stream' = [lines |-> SubSeq(stream.lines, n + 1, Len(stream.lines)),
                        good  |-> n < Len(stream.lines) \/ files[it].newline]
          /\ \E text \in {Read(n)} : Cut(text)
  /\ UNCHANGED <<files, it, finished>>

CloseFile ==
  /\ ~finished /\ Stops(LeftOver) = {}
  /\ stream # Null /\ ~stream.good
  /\ stream' = Null /\ it' = it + 1 /\ leftOver' = Null
  /\ UNCHANGED <<files, returned, finished>>

\* Mutant: a file that is not there is not opened, and not passed over.
OpenExisting ==
  /\ ~finished /\ Stops(LeftOver) = {}
  /\ stream = Null /\ it <= Len(files) /\ files[it].exists
  /\ stream' = [lines |-> files[it].lines, good |-> TRUE]
  /\ UNCHANGED <<files, it, leftOver, returned, finished>>

OpenFile ==
  /\ ~finished /\ Stops(LeftOver) = {}
  /\ stream = Null /\ it <= Len(files)
  /\ stream' = [lines |-> files[it].lines, good |-> files[it].exists]
  /\ UNCHANGED <<files, it, leftOver, returned, finished>>

Finish ==
  /\ ~finished /\ Stops(LeftOver) = {}
  /\ stream = Null /\ it = Len(files) + 1
  /\ finished' = TRUE /\ returned' = Append(returned, <<>>)
  /\ UNCHANGED <<files, it, stream, leftOver>>

\* The steps of the calls.
GetNextSentenceTokens == FromLeftOver \/ ReadOn \/ CloseFile \/ OpenFile \/ Finish

-----------------------------------------------------------------------------
\* The tokens of a text: the letters of every longest run without delimiter.
Inside(s, p) == p \in DOMAIN s /\ s[p] \notin TokenDelimiters
RunEnd(s, p) == Min({q \in p .. Len(s) : ~Inside(s, q + 1)})
TokensAt(s, p) ==
  IF Inside(s, p) /\ ~Inside(s, p - 1) THEN <<CleanToken(SubSeq(s, p, RunEnd(s, p)))>> ELSE <<>>
Tokens(s) == FlattenSeq([p \in DOMAIN s |-> TokensAt(s, p)])

\* The sentences of a text: what lies between one delimiter and the next.
SentenceBegin(s, e) == Min({b \in 1 .. e : \A p \in b .. (e - 1) : s[p] # Stop})
SentencesAt(s, e) ==
  IF s[e] = Stop THEN <<Tokens(SubSeq(s, SentenceBegin(s, e), e - 1))>> ELSE <<>>
Sentences(s) == FlattenSeq([e \in DOMAIN s |-> SentencesAt(s, e)])

\* The text of a file, and what the first n files have.
Content(lines) == FlattenSeq([l \in DOMAIN lines |-> <<Space>> \o Undotted(lines[l])])
FirstFiles(n) ==
  FlattenSeq([f \in 1 .. n |->
    IF files[f].exists THEN Sentences(Content(files[f].lines)) ELSE <<>>])

Said(sentences) ==
  FlattenSeq([k \in DOMAIN sentences |->
    IF sentences[k] = <<>> THEN <<>> ELSE <<sentences[k]>>])

\* The calls return the sentences of the files that exist, each once, whole, and in
\* the order of the text, wherever lines, words and files end; text behind the last
\* delimiter of a file is never returned, nor does it get into the next file.
ReadsEverySentence ==
  \E all \in {Said(FirstFiles(Len(files)))} :
    /\ IsPrefix(Said(returned), all)
    /\ finished => Said(returned) = all
=============================================================================
