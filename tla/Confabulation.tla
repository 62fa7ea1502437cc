---------------------------- MODULE Confabulation ---------------------------
(***************************************************************************)
(* TwoLevelMultiConfabulation::Confabulation over several calls: the       *)
(* checks of the arguments, the index to complete, and the loop that runs  *)
(* a round, appends its answer to the sentence and moves the index.        *)
(*                                                                         *)
(* A round is the one Round promises: it fails, or answers a word, a       *)
(* phrase or the dummy symbol.  Which one depends on what was learned and  *)
(* is left open; with no active symbol at all there is nothing to start    *)
(* from.  Positions are 0-based as in the code, and int8_t wraps.          *)
(***************************************************************************)
EXTENDS Organizer, Integers

CONSTANTS Dummy,      \* the word "DummySymbol"
          Requests,   \* arguments of a call: symbols, index_to_complete, expectation
          MaxCalls    \* bound on the number of calls of one engine

N == NumWordModules
Tokens == Words \cup {Unknown, Hole, Dummy}
Int8Values == -128 .. 127   \* int8_t

ASSUME ConfabulationAssumption ==
  /\ N <= 127                       \* num_modules_ = 2 * N is a uint8_t
  /\ MaxMultiWordSize <= 127
  /\ Dummy \notin Words \cup {Unknown, Hole}
  /\ Phrases \in SUBSET Seq(Words)
  /\ MaxCalls \in Nat
  /\ Requests \in SUBSET [symbols : Seq(Tokens), index : Int8Values, expectation : BOOLEAN]

\* FillWithEmptyStrings, for a sentence padded to the size of the frame.
FillWithEmptyStrings(input, maxSize) ==
  [k \in 1 .. (IF Len(input) < maxSize THEN maxSize ELSE Len(input)) |->
     IF k <= Len(input) THEN input[k] ELSE Hole]

\* What TestTwoLevelMultiConfabulation asks for each sentence: the tokens as they
\* are, for it drops the result of FillWithEmptyStrings.
Feed(tokens) == [symbols |-> tokens, index |-> -1, expectation |-> FALSE]

Int8(x)  == ((x + 128) % 256) - 128
UInt8(x) == x % 256

-----------------------------------------------------------------------------
(***************************************************************************)
(* The arguments.                                                          *)
(***************************************************************************)
\* FindFirstIndexOfSymbol and FindFirstIndexNotOfSymbol, of the empty string.
FirstIndex(places) == IF places = {} THEN -1 ELSE Min(places) - 1
FirstHole(symbols)   == FirstIndex({k \in DOMAIN symbols : symbols[k] = Hole})
FirstSymbol(symbols) == FirstIndex({k \in DOMAIN symbols : symbols[k] # Hole})

AutoIndexToComplete(symbols) ==
  LET hole == Int8(FirstHole(symbols))
  IN  IF symbols[1] = Hole THEN -1
      ELSE IF hole >= 0 THEN hole ELSE Int8(Len(symbols))

CheckIndex(symbols, index) ==
  /\ index >= 0
  /\ index < 2 * N
  /\ index < Len(symbols) => symbols[index + 1] = Hole

\* There is no word module from N on (the vector of modules holds null); a word
\* the mapping does not know is only reported.
CheckVocabulary(symbols) ==
  \A i \in N .. (2 * N - 1) : i < Len(symbols) => symbols[i + 1] = Hole

\* The index a request asks to complete.
Requested(r) == IF r.index >= 0 THEN r.index ELSE AutoIndexToComplete(r.symbols)

CheckArguments(r) ==
  /\ r.symbols # <<>>
  /\ r.index >= 0 => ~(FirstSymbol(r.symbols) >= r.index)
  /\ CheckIndex(r.symbols, Requested(r))
  /\ CheckVocabulary(r.symbols)

-----------------------------------------------------------------------------
VARIABLES
  pc,        \* where Confabulation is
  calls,     \* calls made so far
  request,   \* arguments of the current call
  input,     \* temp_input
  index,     \* the index to complete, an int8_t
  start,     \* start_position_, which outlives the call
  active,    \* what Activate left in the modules: the layout of the input
  result     \* the answers returned so far, as sequences of tokens

vars == <<pc, calls, request, input, index, start, active, result>>

NoRequest == [symbols |-> <<>>, index |-> 0, expectation |-> FALSE]

Init ==
  /\ pc = "idle"
  /\ calls = 0
  /\ request = NoRequest
  /\ input = <<>>
  /\ index = 0
  /\ start = -1
  /\ active = Organize(<<>>)
  /\ result = <<>>

Call(r) ==
  /\ pc = "idle" /\ calls < MaxCalls
  /\ pc' = "check"
  /\ calls' = calls + 1
  /\ request' = r
  /\ result' = <<>>
  /\ UNCHANGED <<input, index, start, active>>

Reject ==
  /\ pc = "check" /\ ~CheckArguments(request)
  /\ pc' = "return"
  /\ UNCHANGED <<calls, request, input, index, start, active, result>>

Accept ==
  /\ pc = "check" /\ CheckArguments(request)
  /\ pc' = "loop"
  /\ index' = Requested(request)
  /\ input' = request.symbols
  /\ UNCHANGED <<calls, request, start, active, result>>

\* GetStartPosition
MaxNonemptyPosition(symbols, i) ==
  LET before == Min({Int8(Len(symbols)), i})
  IN  before - Cardinality({k \in 1 .. before : symbols[k] \in {Hole, Dummy}})

GetStartPosition(symbols, i) ==
  IF start >= 0 THEN Min({start, MaxNonemptyPosition(symbols, i)})
  ELSE MaxNonemptyPosition(symbols, i)

\* Clean, Activate and the start of the round.
BeginRound ==
  /\ pc = "loop" /\ UInt8(index) < N
  /\ pc' = "round"
  /\ start' = GetStartPosition(input, index)
  /\ active' = Organize(input)
  /\ UNCHANGED <<calls, request, input, index, result>>

LeaveLoop ==
  /\ pc = "loop" /\ ~(UInt8(index) < N)
  /\ pc' = "return"
  /\ UNCHANGED <<calls, request, input, index, start, active, result>>

SomethingActive ==
  \E k \in Positions : active.words[k] # None \/ active.phrases[k] # None

\* InitializationAtIndex leaves no excited symbol: the answers so far are returned.
FailRound ==
  /\ pc = "round"
  /\ pc' = "return"
  /\ UNCHANGED <<calls, request, input, index, start, active, result>>

\* With expectation the round is run for its effect on the modules only.
KeepExpectation ==
  /\ pc = "round" /\ SomethingActive /\ request.expectation
  /\ pc' = "loop"
  /\ UNCHANGED <<calls, request, input, index, start, active, result>>

\* Mutants of Answer: the index moves by one word whatever the answer; the dummy
\* is dropped and the round tried again; the answer goes before the sentence.
AnswerByOne(tokens) ==
  /\ pc = "round" /\ SomethingActive /\ ~request.expectation
  /\ pc' = "loop"
  /\ result' = Append(result, tokens)
  /\ input' = input \o tokens
  /\ index' = Int8(index + 1)
  /\ UNCHANGED <<calls, request, start, active>>

AnswerDroppingDummy(tokens) ==
  /\ pc = "round" /\ SomethingActive /\ ~request.expectation
  /\ pc' = "loop"
  /\ IF tokens = <<Dummy>> THEN UNCHANGED <<result, input, index>>
     ELSE /\ result' = Append(result, tokens)
          /\ input' = input \o tokens
          /\ index' = Int8(index + Len(tokens))
  /\ UNCHANGED <<calls, request, start, active>>

AnswerPrepended(tokens) ==
  /\ pc = "round" /\ SomethingActive /\ ~request.expectation
  /\ pc' = "loop"
  /\ result' = Append(result, tokens)
  /\ input' = tokens \o input
  /\ index' = Int8(index + Len(tokens))
  /\ UNCHANGED <<calls, request, start, active>>

\* The answer goes to the result and, token by token, to the end of the input.
Answer(tokens) ==
  /\ pc = "round" /\ SomethingActive /\ ~request.expectation
  /\ pc' = "loop"
  /\ result' = Append(result, tokens)
  /\ input' = input \o tokens
  /\ index' = Int8(index + Len(tokens))
  /\ UNCHANGED <<calls, request, start, active>>

Return ==
  /\ pc = "return"
  /\ pc' = "idle"
  /\ UNCHANGED <<calls, request, input, index, start, active, result>>

Done == pc = "idle" /\ calls = MaxCalls /\ UNCHANGED vars

Next ==
  \/ \E r \in Requests : Call(r)
  \/ Reject \/ Accept
  \/ BeginRound \/ LeaveLoop \/ FailRound \/ KeepExpectation
  \/ \E w \in Words : Answer(<<w>>)
  \/ \E p \in Phrases \cup {<<Dummy>>} : Answer(p)
  \/ Return \/ Done

Spec == Init /\ [][Next]_vars

\* One thread runs the loop: it never rests inside a call.
FairSpec == Spec /\ WF_vars(Next)

-----------------------------------------------------------------------------
(***************************************************************************)
(* Properties.                                                             *)
(***************************************************************************)
InCall == pc \in {"loop", "round"}

\* The index and the sentence move in step: the index is where the call began
\* plus the tokens appended for words, phrases and dummies alike, and does not
\* wrap before it leaves the word modules.
InStep ==
  InCall => UInt8(index) = Requested(request) + Len(input) - Len(request.symbols)

\* README, Relation to other models: a symbol the engine has answered "becomes
\* itself one of the observed symbols", here on the word module of its position.
WordsObserved ==
  pc = "round" =>
    LET answered == FlattenSeq(result)
    IN  \A k \in DOMAIN answered :
          answered[k] \in Words =>
            active.words[Requested(request) + k - 1] = <<answered[k]>>

\* A sentence without holes, to be completed at its end: what
\* TestTwoLevelMultiConfabulation gives the engine.
Unpadded(r) ==
  /\ \A k \in DOMAIN r.symbols : r.symbols[k] # Hole
  /\ r.index < 0 \/ r.index = Len(r.symbols)

\* In every round the engine observes the words it has answered so far, those
\* inside answered phrases too, each at the position it was asked for.
AnswersObserved == Unpadded(request) => WordsObserved

\* An answered phrase is observed on the phrase module it was answered for, but
\* where it shares a word with an observed phrase that begins earlier, or begins
\* a longer one.
PhrasesObserved ==
  pc = "round" /\ Unpadded(request) =>
    \A i \in DOMAIN result :
      result[i] \in Phrases =>
        LET k == Requested(request) + Len(FlattenSeq(SubSeq(result, 1, i - 1)))
        IN  \/ active.phrases[k] = result[i]
            \/ Len(active.phrases[k]) > Len(result[i])
            \/ \E j \in 0 .. (k - 1) : j + Len(active.phrases[j]) > k

\* A call without expectation comes back, whatever the rounds answer.
Returns == pc = "check" /\ ~request.expectation ~> pc = "return"
=============================================================================
