------------------------- MODULE ConfabulationProofs ------------------------
(***************************************************************************)
(* The index to complete and the sentence move in step for any requests,   *)
(* any answers and any number of word modules that the int8_t index can    *)
(* address, and what was answered is observed in every later round.        *)
(***************************************************************************)
EXTENDS Confabulation, OrganizerProofs

TypeOK ==
  /\ request \in Requests \cup {NoRequest}
  /\ input \in Seq(Tokens)
  /\ index \in Int8Values

\* A call inside the loop was accepted, and its index never wraps below 0
\* while it is still compared with the number of word modules.
Accepted ==
  InCall => /\ Requested(request) \in 0 .. 127
            /\ pc = "round" => index \in 0 .. (N - 1)

IInv == TypeOK /\ Accepted /\ InStep

\* What the call has answered so far are sequences of tokens, none when it begins.
ResultType ==
  /\ result \in Seq(Seq(Tokens))
  /\ pc = "check" => result = <<>>

\* A sentence without holes is completed at its end, so that it consists of what was
\* given and what was answered.
Appended ==
  InCall /\ Unpadded(request) =>
    /\ Requested(request) = Len(request.symbols)
    /\ input = request.symbols \o FlattenSeq(result)

\* A round works on the layout of the sentence it began with.
LaidOut == pc = "round" => active = Organize(input)

CallInv == IInv /\ ResultType /\ Appended /\ LaidOut

-----------------------------------------------------------------------------
LEMMA Bounds == N \in Nat /\ N <= 127
BY ConfabulationAssumption, OrganizerAssumption DEF N

\* The parts of a request, each by itself.
LEMMA RequestSymbols == \A r \in Requests \cup {NoRequest} : r.symbols \in Seq(Tokens)
<1>1. \A r \in Requests : r.symbols \in Seq(Tokens)
  BY ConfabulationAssumption
<1>2. NoRequest.symbols \in Seq(Tokens)
  BY DEF NoRequest
<1> QED BY <1>1, <1>2

LEMMA RequestIndex == \A r \in Requests : r.index \in Int8Values
BY ConfabulationAssumption

LEMMA Int8Facts ==
  ASSUME NEW x \in Int
  PROVE  /\ Int8(x) \in Int8Values
         /\ x \in 0 .. 127 => x \in Int8Values /\ UInt8(x) = x
         /\ x \in 0 .. 255 => UInt8(Int8(x)) = x
BY DEF Int8, UInt8, Int8Values

LEMMA Int8ValueFacts ==
  ASSUME NEW x \in Int8Values
  PROVE  /\ x \in Int
         /\ x >= 0 => x \in 0 .. 127
         /\ UInt8(x) < N => x \in 0 .. (N - 1)
BY Bounds DEF UInt8, Int8Values

\* What AutoIndexToComplete finds, or the caller gives, is an int8_t.
LEMMA RequestedFacts ==
  ASSUME NEW r \in Requests, CheckArguments(r)
  PROVE  Requested(r) \in 0 .. 127
<1>1. Requested(r) \in Int8Values
  <2>1. CASE r.index >= 0
    BY <2>1, RequestIndex, Zenon DEF Requested
  <2>2. CASE ~(r.index >= 0)
    <3>1. -1 \in Int8Values
      BY DEF Int8Values
    <3>2. Len(r.symbols) \in Nat /\ DOMAIN r.symbols \in SUBSET Nat
      BY RequestSymbols, LenProperties
    <3>3. FirstHole(r.symbols) \in Int
      <4> DEFINE places == {k \in DOMAIN r.symbols : r.symbols[k] = Hole}
      <4>1. places \in SUBSET Nat
        BY <3>2
      <4>2. ASSUME places # {} PROVE Min(places) \in Nat
        <5>1. PICK n \in places : \A m \in places : n <= m
          BY <4>1, <4>2, LeastNatural
        <5>2. Min(places) \in places
          BY <5>1 DEF Min
        <5> QED BY <4>1, <5>2
      <4> HIDE DEF places
      <4>3. FirstIndex(places) \in Int
        BY <4>2 DEF FirstIndex
      <4> QED BY <4>3 DEF FirstHole, places
    <3>4. Int8(FirstHole(r.symbols)) \in Int8Values /\ Int8(Len(r.symbols)) \in Int8Values
      BY <3>2, <3>3, Int8Facts
    <3> QED BY <2>2, <3>1, <3>4, Zenon DEF Requested, AutoIndexToComplete
  <2> QED BY <2>1, <2>2
<1>2. Requested(r) >= 0
  BY DEF CheckArguments, CheckIndex
<1> QED BY <1>1, <1>2, Int8ValueFacts

-----------------------------------------------------------------------------
\* A call inside the loop that does not change its request, sentence and index.
LEMMA SameCall ==
  ASSUME IInv, UNCHANGED <<request, input, index>>,
         pc' \in {"loop", "round"} => InCall,
         pc' = "round" => pc = "round" \/ UInt8(index) < N
  PROVE  IInv'
<1>1. TypeOK'
  BY DEF IInv, TypeOK
<1>2. InCall' => InCall
  BY DEF InCall
<1>3. ASSUME UInt8(index) < N PROVE index \in 0 .. (N - 1)
  BY <1>3, Int8ValueFacts DEF IInv, TypeOK
<1>4. Accepted'
  BY <1>2, <1>3 DEF IInv, Accepted, InCall
<1>5. InStep'
  BY <1>2 DEF IInv, InStep, InCall
<1> QED BY <1>1, <1>4, <1>5 DEF IInv

\* The loop begins at the requested index with the given sentence.
LEMMA AcceptStep ==
  ASSUME IInv, Accept
  PROVE  IInv'
<1>1. /\ CheckArguments(request)
      /\ pc' = "loop" /\ request' = request
      /\ index' = Requested(request) /\ input' = request.symbols
  BY DEF Accept
<1>2. request \in Requests
  <2>1. request.symbols # <<>>
    BY <1>1 DEF CheckArguments
  <2> QED BY <2>1 DEF IInv, TypeOK, NoRequest
<1>3. Requested(request) \in 0 .. 127
  BY <1>1, <1>2, RequestedFacts
<1>4. request.symbols \in Seq(Tokens)
  BY <1>2, RequestSymbols
<1>5. TypeOK'
  <2>1. index' \in Int8Values
    BY <1>1, <1>3, Int8Facts
  <2> QED BY <1>1, <1>2, <1>4, <2>1 DEF TypeOK
<1>6. Accepted'
  <2>1. Requested(request)' = Requested(request) /\ pc' # "round"
    BY <1>1
  <2> QED BY <1>3, <2>1 DEF Accepted
<1>7. InStep'
  <2>1. UInt8(index') = Requested(request)
    BY <1>1, <1>3, Int8Facts
  <2>2. Len(input') = Len(request.symbols) /\ Len(request.symbols) \in Nat
    BY <1>1, <1>4, LenProperties
  <2>3. Requested(request)' = Requested(request) /\ request' = request
    BY <1>1
  <2> DEFINE q == Requested(request)
             n == Len(request.symbols)
  <2>4. q \in Int /\ n \in Int
    <3>1. q \in 0 .. 127 /\ n \in Nat
      BY <1>3, <2>2
    <3> HIDE DEF q, n
    <3> QED BY <3>1
  <2>5. \A i, j \in Int : i = i + j - j
    OBVIOUS
  <2> QED BY <2>1, <2>2, <2>3, <2>4, <2>5, Zenon DEF InStep
<1> QED BY <1>5, <1>6, <1>7 DEF IInv

\* The answer moves the index by as many positions as the sentence grows.
LEMMA AnswerStep ==
  ASSUME IInv, NEW tokens \in Seq(Tokens), Len(tokens) <= 127, Answer(tokens)
  PROVE  IInv'
<1>1. /\ pc = "round" /\ pc' = "loop" /\ request' = request
      /\ input' = input \o tokens
      /\ index' = Int8(index + Len(tokens))
  BY DEF Answer
<1> DEFINE q == Requested(request)
           n == Len(request.symbols)
           l == Len(tokens)
<1>2. n \in Nat
  BY RequestSymbols, LenProperties DEF IInv, TypeOK
<1>3. l \in Nat /\ l <= 127
  BY LenProperties
<1>4. /\ Len(input) \in Nat
      /\ Len(input') = Len(input) + l /\ input' \in Seq(Tokens)
  BY <1>1, LenProperties, ConcatProperties DEF IInv, TypeOK
<1>5. /\ q \in 0 .. 127
      /\ index \in 0 .. (N - 1)
      /\ UInt8(index) = q + Len(input) - n
  BY <1>1 DEF IInv, Accepted, InStep, InCall
<1> HIDE DEF q, n, l
<1>6. index + l \in 0 .. 255 /\ UInt8(index) = index
  BY <1>3, <1>5, Bounds, Int8Facts
<1>7. UInt8(index') = index + l /\ index' \in Int8Values
  <2>1. index' = Int8(index + l)
    BY <1>1 DEF l
  <2> DEFINE x == index + l
  <2>2. x \in 0 .. 255
    BY <1>6
  <2> HIDE DEF x
  <2>3. Int8(x) \in Int8Values /\ UInt8(Int8(x)) = x
    BY <2>2, Int8Facts
  <2> QED BY <2>1, <2>3 DEF x
<1>8. UInt8(index') = q + Len(input') - n
  BY <1>2, <1>3, <1>4, <1>5, <1>6, <1>7, Bounds
<1>9. TypeOK'
  BY <1>1, <1>4, <1>7 DEF IInv, TypeOK
<1>10. Accepted'
  BY <1>1, <1>5 DEF Accepted, q
<1>11. InStep'
  BY <1>1, <1>8 DEF InStep, q, n
<1> QED BY <1>9, <1>10, <1>11 DEF IInv

-----------------------------------------------------------------------------
LEMMA InitIInv == Init => IInv
BY Int8Facts DEF Init, IInv, TypeOK, Accepted, InStep, InCall

LEMMA NextIInv == IInv /\ [Next]_vars => IInv'
<1> SUFFICES ASSUME IInv, [Next]_vars PROVE IInv'
  OBVIOUS
<1>1. CASE \E r \in Requests : Call(r)
  <2>1. PICK r \in Requests : Call(r)
    BY <1>1
  <2>2. /\ request' \in Requests /\ pc' = "check"
        /\ input' = input /\ index' = index
    BY <2>1 DEF Call
  <2> QED BY <2>2 DEF IInv, TypeOK, Accepted, InStep, InCall
<1>2. CASE Accept
  BY <1>2, AcceptStep
<1>3. CASE BeginRound \/ KeepExpectation
  BY <1>3, SameCall DEF BeginRound, KeepExpectation, InCall
<1>4. CASE Reject \/ LeaveLoop \/ FailRound \/ Return
  BY <1>4, SameCall DEF Reject, LeaveLoop, FailRound, Return
<1>5. CASE \E w \in Words : Answer(<<w>>)
  <2>1. PICK w \in Words : Answer(<<w>>)
    BY <1>5
  <2>2. <<w>> \in Seq(Tokens) /\ Len(<<w>>) <= 127
    BY DEF Tokens
  <2> QED BY <2>1, <2>2, AnswerStep
<1>6. CASE \E p \in Phrases \cup {<<Dummy>>} : Answer(p)
  <2>1. PICK p \in Phrases \cup {<<Dummy>>} : Answer(p)
    BY <1>6
  <2>2. <<Dummy>> \in Seq(Tokens) /\ Len(<<Dummy>>) <= 127
    BY DEF Tokens
  <2>3. ASSUME NEW q \in Phrases PROVE q \in Seq(Tokens) /\ Len(q) <= 127
    <3>1. q \in Seq(Words) /\ Len(q) \in 2 .. MaxMultiWordSize
      BY ConfabulationAssumption, OrganizerAssumption
    <3>2. q \in Seq(Tokens)
      BY <3>1 DEF Tokens
    <3> QED BY <3>1, <3>2, ConfabulationAssumption, OrganizerAssumption
  <2>4. p \in Seq(Tokens) /\ Len(p) <= 127
    <3>1. CASE p \in Phrases
      BY <2>3, <3>1
    <3>2. CASE p = <<Dummy>>
      BY <2>2, <3>2
    <3> QED BY <3>1, <3>2
  <2> QED BY <2>1, <2>4, AnswerStep
<1>7. CASE Done \/ UNCHANGED vars
  BY <1>7, SameCall DEF Done, vars, InCall
<1> QED BY <1>1, <1>2, <1>3, <1>4, <1>5, <1>6, <1>7 DEF Next

\* Answers of every length keep the index on the position that the sentence has
\* reached, counted from where the call began.
THEOREM IndexInStep == Spec => []InStep
<1>1. Spec => []IInv
  BY InitIInv, NextIInv, PTL DEF Spec
<1>2. IInv => InStep
  BY DEF IInv
<1> QED BY <1>1, <1>2, PTL

-----------------------------------------------------------------------------
\* A sentence without holes that the checks accept is completed at its end.
LEMMA RequestedAtEnd ==
  ASSUME NEW r \in Requests, CheckArguments(r), Unpadded(r)
  PROVE  Requested(r) = Len(r.symbols)
<1> DEFINE s == r.symbols
<1>1. s \in Seq(Tokens) /\ Len(s) \in Nat /\ DOMAIN s = 1 .. Len(s) /\ s # <<>>
  BY RequestSymbols, LenProperties DEF CheckArguments
<1>2. CASE ~(r.index < 0)
  <2>1. r.index = Len(s)
    BY <1>2 DEF Unpadded
  <2>2. r.index >= 0
    BY <1>1, <2>1
  <2> QED BY <2>1, <2>2 DEF Requested
<1>3. CASE r.index < 0
  <2>1. ~(r.index >= 0)
    BY <1>3, RequestIndex DEF Int8Values
  <2>2. {k \in DOMAIN s : s[k] = Hole} = {}
    BY DEF Unpadded
  <2>3. FirstHole(s) = -1
    BY <2>2 DEF FirstHole, FirstIndex
  <2>4. ~(Int8(FirstHole(s)) >= 0)
    BY <2>3 DEF Int8
  <2>5. s[1] # Hole
    <3>1. Len(s) \in Nat \ {0}
      BY <1>1, EmptySeq
    <3>2. 1 \in DOMAIN s
      BY <1>1, <3>1
    <3> QED BY <3>2 DEF Unpadded
  <2>6. Requested(r) = Int8(Len(s))
    BY <2>1, <2>4, <2>5 DEF Requested, AutoIndexToComplete
  <2> DEFINE q == Requested(r)
             l == Len(s)
  <2>7. q \in 0 .. 127
    BY RequestedFacts
  <2>8. ASSUME q < l PROVE FALSE
    <3>1. s[q + 1] = Hole
      BY <2>8 DEF CheckArguments, CheckIndex
    <3>2. q + 1 \in DOMAIN s
      <4>1. l \in Nat /\ DOMAIN s = 1 .. l
        BY <1>1
      <4> HIDE DEF q, l, s
      <4>2. q + 1 \in 1 .. l
        BY <2>7, <2>8, <4>1
      <4> QED BY <4>1, <4>2
    <3> QED BY <3>1, <3>2 DEF Unpadded
  <2> HIDE DEF q, s
  <2>9. l \in Nat /\ q = ((l + 128) % 256) - 128
    BY <1>1, <2>6 DEF q, Int8
  <2> HIDE DEF l
  <2>10. ~(q < l)
    BY <2>8
  <2>11. l \in 0 .. 127
    BY <2>7, <2>9, <2>10
  <2>12. q = l
    BY <2>9, <2>11
  <2> QED BY <2>12 DEF q, l, s
<1> QED BY <1>2, <1>3

-----------------------------------------------------------------------------
\* What leaves the request, the sentence, the answers and the layout alone.
LEMMA SameAnswers ==
  ASSUME CallInv, IInv', UNCHANGED <<request, input, result, active>>,
         pc' # "check", pc' \in {"loop", "round"} => InCall, pc' = "round" => pc = "round"
  PROVE  CallInv'
<1>1. InCall' => InCall
  BY DEF InCall
<1>2. ResultType' /\ LaidOut'
  BY DEF CallInv, ResultType, LaidOut
<1>3. Appended'
  BY <1>1 DEF CallInv, Appended, InCall
<1> QED BY <1>2, <1>3 DEF CallInv

LEMMA AnswerAppends ==
  ASSUME CallInv, IInv', NEW tokens \in Seq(Tokens), Answer(tokens)
  PROVE  CallInv'
<1>1. /\ pc = "round" /\ pc' = "loop" /\ request' = request
      /\ input' = input \o tokens /\ result' = Append(result, tokens)
  BY DEF Answer
<1>2. ResultType'
  BY <1>1, AppendProperties DEF CallInv, ResultType
<1>3. Appended'
  <2> SUFFICES ASSUME Unpadded(request)
               PROVE  /\ Requested(request) = Len(request.symbols)
                      /\ input' = request.symbols \o FlattenSeq(result')
    BY <1>1 DEF Appended
  <2>1. Requested(request) = Len(request.symbols) /\ input = request.symbols \o FlattenSeq(result)
    BY <1>1 DEF CallInv, Appended, InCall
  <2> DEFINE s == request.symbols
             f == FlattenSeq(result)
  <2>2. s \in Seq(Tokens) /\ f \in Seq(Tokens)
    <3>1. s \in Seq(Tokens)
      BY RequestSymbols DEF CallInv, IInv, TypeOK
    <3>2. result \in Seq(Seq(Tokens))
      BY DEF CallInv, ResultType
    <3> QED BY <3>1, <3>2, FlattenType
  <2>3. FlattenSeq(Append(result, tokens)) = f \o tokens
    BY FlattenAppend DEF CallInv, ResultType
  <2> HIDE DEF s, f
  <2>4. (s \o f) \o tokens = s \o (f \o tokens)
    BY <2>2, SMTT(30)
  <2> QED BY <1>1, <2>1, <2>3, <2>4 DEF s, f
<1>4. LaidOut'
  BY <1>1 DEF LaidOut
<1> QED BY <1>2, <1>3, <1>4 DEF CallInv

LEMMA InitCallInv == Init => CallInv
<1> SUFFICES ASSUME Init PROVE CallInv
  OBVIOUS
<1>1. IInv
  BY InitIInv
<1>2. ResultType /\ Appended /\ LaidOut
  BY DEF Init, ResultType, Appended, LaidOut, InCall
<1> QED BY <1>1, <1>2 DEF CallInv

LEMMA NextCallInv == CallInv /\ [Next]_vars => CallInv'
<1> SUFFICES ASSUME CallInv, [Next]_vars PROVE CallInv'
  OBVIOUS
<1>0. IInv'
  BY NextIInv DEF CallInv
<1>1. CASE \E r \in Requests : Call(r)
  <2>1. PICK r \in Requests : Call(r)
    BY <1>1
  <2>2. pc' = "check" /\ result' = <<>>
    BY <2>1 DEF Call
  <2> QED BY <1>0, <2>2 DEF CallInv, ResultType, Appended, LaidOut, InCall
<1>2. CASE Accept
  <2>1. /\ pc = "check" /\ CheckArguments(request) /\ pc' = "loop"
        /\ input' = request.symbols /\ UNCHANGED <<request, result>>
    BY <1>2 DEF Accept
  <2>2. request \in Requests
    <3>1. request.symbols # <<>>
      BY <2>1 DEF CheckArguments
    <3> QED BY <3>1 DEF CallInv, IInv, TypeOK, NoRequest
  <2>3. result' = <<>> /\ FlattenSeq(result') = <<>>
    <3>1. result' = <<>>
      BY <2>1 DEF CallInv, ResultType
    <3>2. FlattenSeq(<<>>) = <<>>
      <4>1. <<>> \in Seq(Seq(Tokens))
        OBVIOUS
      <4> QED BY <4>1, FlattenType
    <3> QED BY <3>1, <3>2
  <2>4. request.symbols \o <<>> = request.symbols
    BY <2>2, RequestSymbols, ConcatEmptySeq
  <2>5. Appended'
    BY <2>1, <2>2, <2>3, <2>4, RequestedAtEnd DEF Appended
  <2>6. ResultType' /\ LaidOut'
    BY <2>1, <2>3 DEF ResultType, LaidOut
  <2> QED BY <1>0, <2>5, <2>6 DEF CallInv
<1>3. CASE BeginRound
  <2>1. /\ pc = "loop" /\ pc' = "round" /\ active' = Organize(input)
        /\ UNCHANGED <<request, input, result>>
    BY <1>3 DEF BeginRound
  <2>2. ResultType' /\ Appended'
    BY <2>1 DEF CallInv, ResultType, Appended, InCall
  <2>3. LaidOut'
    BY <2>1 DEF LaidOut
  <2> QED BY <1>0, <2>2, <2>3 DEF CallInv
<1>4. CASE KeepExpectation
  BY <1>0, <1>4, SameAnswers DEF KeepExpectation, InCall
<1>5. CASE Reject \/ LeaveLoop \/ FailRound \/ Return
  BY <1>0, <1>5, SameAnswers DEF Reject, LeaveLoop, FailRound, Return
<1>6. CASE \E w \in Words : Answer(<<w>>)
  <2>1. PICK w \in Words : Answer(<<w>>)
    BY <1>6
  <2>2. <<w>> \in Seq(Tokens)
    BY DEF Tokens
  <2> QED BY <1>0, <2>1, <2>2, AnswerAppends
<1>7. CASE \E p \in Phrases \cup {<<Dummy>>} : Answer(p)
  <2>1. PICK p \in Phrases \cup {<<Dummy>>} : Answer(p)
    BY <1>7
  <2>2. p \in Seq(Tokens)
    <3>1. Seq(Words) \subseteq Seq(Tokens)
      BY DEF Tokens
    <3>2. <<Dummy>> \in Seq(Tokens)
      BY DEF Tokens
    <3> QED BY <2>1, <3>1, <3>2, ConfabulationAssumption
  <2> QED BY <1>0, <2>1, <2>2, AnswerAppends
<1>8. CASE Done
  <2>1. UNCHANGED vars /\ pc = "idle"
    BY <1>8 DEF Done
  <2> QED BY <1>0, <2>1, SameAnswers DEF vars, InCall
<1>9. CASE UNCHANGED vars
  BY <1>0, <1>9 DEF CallInv, ResultType, Appended, LaidOut, InCall, vars
<1> QED BY <1>1, <1>2, <1>3, <1>4, <1>5, <1>6, <1>7, <1>8, <1>9 DEF Next

LEMMA CallInvariance == Spec => []CallInv
BY InitCallInv, NextCallInv, PTL DEF Spec

-----------------------------------------------------------------------------
\* In a round the answers stand in the sentence where they were asked for, on the
\* word modules.
LEMMA RoundFacts ==
  ASSUME CallInv, pc = "round", Unpadded(request)
  PROVE  LET answered == FlattenSeq(result)
             q        == Requested(request)
         IN  /\ answered \in Seq(Tokens) /\ request.symbols \in Seq(Tokens)
             /\ input \in Seq(Tokens) /\ input = request.symbols \o answered
             /\ q = Len(request.symbols) /\ q \in Nat
             /\ Len(input) = q + Len(answered) /\ Len(input) < N
             /\ active = Organize(input)
<1> DEFINE answered == FlattenSeq(result)
           q == Requested(request)
           s == request.symbols
<1>1. answered \in Seq(Tokens) /\ s \in Seq(Tokens) /\ input \in Seq(Tokens)
  <2>1. s \in Seq(Tokens) /\ input \in Seq(Tokens)
    BY RequestSymbols DEF CallInv, IInv, TypeOK
  <2>2. result \in Seq(Seq(Tokens))
    BY DEF CallInv, ResultType
  <2> QED BY <2>1, <2>2, FlattenType
<1>2. input = s \o answered /\ q = Len(s) /\ active = Organize(input)
  BY DEF CallInv, Appended, LaidOut, InCall
<1>3. Len(s) \in Nat /\ Len(answered) \in Nat /\ Len(input) = Len(s) + Len(answered)
  <2> HIDE DEF s, answered
  <2> QED BY <1>1, <1>2, LenProperties, ConcatProperties
<1>4. index \in 0 .. (N - 1) /\ UInt8(index) = q + Len(input) - Len(s)
  BY DEF CallInv, IInv, Accepted, InStep, InCall
<1>5. UInt8(index) = index
  BY <1>4, Bounds, Int8Facts
<1> HIDE DEF s, q, answered
<1>6. Len(input) < N /\ q \in Nat /\ Len(input) = q + Len(answered)
  BY <1>2, <1>3, <1>4, <1>5, Bounds
<1> QED BY <1>1, <1>2, <1>6 DEF s, q, answered

LEMMA WordLevel ==
  ASSUME NEW s \in Seq(Tokens), NEW k \in Positions
  PROVE  Level(WordTrie, s)[k] =
           IF k < Len(s) /\ s[k + 1] \in Words THEN <<s[k + 1]>> ELSE None
<1> DEFINE A == {<<w>> : w \in Words}
<1>1. Words \in SUBSET Tokens
  BY DEF Tokens
<1>2. Holds(WordTrie, Tokens, A) /\ A = {<<w>> : w \in Words}
  BY <1>1, WordTrieHolds
<1> HIDE DEF A
<1> QED BY <1>1, <1>2, SingleWordLevel

LEMMA WordsAreObserved == CallInv => AnswersObserved
<1> DEFINE answered == FlattenSeq(result)
           q == Requested(request)
<1> SUFFICES ASSUME CallInv, pc = "round", Unpadded(request),
                    NEW k \in DOMAIN answered, answered[k] \in Words
             PROVE  active.words[q + k - 1] = <<answered[k]>>
  BY DEF AnswersObserved, WordsObserved
<1>1. /\ answered \in Seq(Tokens) /\ request.symbols \in Seq(Tokens)
      /\ input \in Seq(Tokens) /\ input = request.symbols \o answered
      /\ q = Len(request.symbols) /\ q \in Nat
      /\ Len(input) = q + Len(answered) /\ Len(input) < N
      /\ active = Organize(input)
  BY RoundFacts
<1>2. k \in 1 .. Len(answered) /\ Len(answered) \in Nat
  BY <1>1, LenProperties
<1> HIDE DEF answered, q
<1>3. input[q + k] = answered[k]
  <2> DEFINE s == request.symbols
             i == q + k
  <2>1. i \in 1 .. Len(s) + Len(answered) /\ ~(i <= Len(s)) /\ i - Len(s) = k
    <3>1. Len(s) = q /\ q \in Nat /\ k \in 1 .. Len(answered) /\ Len(answered) \in Nat
      BY <1>1, <1>2
    <3> HIDE DEF s
    <3> QED BY <3>1
  <2> HIDE DEF s, i
  <2>2. s \in Seq(Tokens) /\ input = s \o answered
    BY <1>1 DEF s
  <2>3. input[i] = answered[i - Len(s)]
    BY <1>1, <2>1, <2>2, ConcatProperties
  <2> QED BY <2>1, <2>3 DEF i
<1> DEFINE p == q + k - 1
<1>4. p \in Positions /\ p < Len(input) /\ p + 1 = q + k
  <2>1. /\ Len(input) = q + Len(answered) /\ Len(input) < N /\ q \in Nat /\ N \in Nat
        /\ k \in 1 .. Len(answered) /\ Len(answered) \in Nat
    BY <1>1, <1>2, Bounds
  <2>2. p \in 0 .. (N - 1) /\ p < Len(input) /\ p + 1 = q + k
    BY <2>1
  <2> QED BY <2>2 DEF Positions, N
<1> HIDE DEF p
<1>5. Level(WordTrie, input)[p] = <<input[p + 1]>>
  BY <1>1, <1>3, <1>4, WordLevel
<1> QED BY <1>1, <1>3, <1>4, <1>5 DEF Organize, p

LEMMA PhrasesAreObserved == CallInv => PhrasesObserved
<1> SUFFICES ASSUME CallInv, pc = "round", Unpadded(request),
                    NEW i \in DOMAIN result, result[i] \in Phrases
             PROVE  LET k == Requested(request) + Len(FlattenSeq(SubSeq(result, 1, i - 1)))
                    IN  \/ active.phrases[k] = result[i]
                        \/ Len(active.phrases[k]) > Len(result[i])
                        \/ \E j \in 0 .. (k - 1) : j + Len(active.phrases[j]) > k
  BY DEF PhrasesObserved
<1> DEFINE answered == FlattenSeq(result)
           q == Requested(request)
           a == FlattenSeq(SubSeq(result, 1, i - 1))
           p == result[i]
           k == q + Len(a)
<1>1. /\ answered \in Seq(Tokens) /\ request.symbols \in Seq(Tokens)
      /\ input \in Seq(Tokens) /\ input = request.symbols \o answered
      /\ q = Len(request.symbols) /\ q \in Nat
      /\ Len(input) = q + Len(answered) /\ Len(input) < N
      /\ active = Organize(input)
  BY RoundFacts
<1>2. result \in Seq(Seq(Tokens)) /\ i \in 1 .. Len(result)
  BY LenProperties DEF CallInv, ResultType
<1>3. answered \in Continuations(Tokens, a \o p)
  BY <1>2, FlattenParts
<1>4. a \in Seq(Tokens)
  <2>1. i \in Int /\ \A j \in 1 .. (i - 1) : result[j] \in Seq(Tokens)
    BY <1>2, ElementOfSeq, LenProperties
  <2>2. SubSeq(result, 1, i - 1) \in Seq(Seq(Tokens))
    BY <2>1, SubSeqProperties
  <2> QED BY <2>2, FlattenType
<1>5. p \in Seq(Tokens) /\ p # <<>> /\ p \in Phrases
  <2>1. p \in Seq(Tokens)
    BY <1>2, ElementOfSeq
  <2>2. Len(p) \in 2 .. MaxMultiWordSize /\ MaxMultiWordSize \in Nat
    BY OrganizerAssumption
  <2>3. Len(<<>>) = 0
    BY EmptySeq
  <2> QED BY <2>1, <2>2, <2>3
<1> HIDE DEF answered, q, a, p
<1>6. StandsAt(answered, Len(a), p)
  BY <1>3, <1>4, <1>5, StandsInside
<1>7. Len(a) \in Nat /\ Len(p) \in Nat \ {0}
  BY <1>4, <1>5, LenProperties, EmptySeq
<1>8. StandsAt(input, k, p)
  <2> DEFINE s == request.symbols
             b == Len(a)
  <2>1. s \in Seq(Tokens) /\ b \in Nat /\ StandsAt(answered, b, p)
    BY <1>1, <1>6, <1>7
  <2>2. k = Len(s) + b /\ input = s \o answered
    BY <1>1
  <2> HIDE DEF s, b, k
  <2>3. StandsAt(s \o answered, Len(s) + b, p)
    BY <1>1, <1>5, <2>1, StandsBehind
  <2> QED BY <2>2, <2>3
<1>9. k \in Positions /\ k \in Nat
  BY <1>1, <1>7, <1>8, Bounds DEF StandsAt, Positions, N
<1> DEFINE level == Level(PhraseTrie, input)
<1>10. /\ \A l \in Positions : level[l] # None => StandsAt(input, l, level[l])
       /\ \E j \in 0 .. k : /\ level[j] # None /\ k < j + Len(level[j])
                            /\ j = k => Len(p) <= Len(level[j])
  <2>1. Phrases \in SUBSET Seq(Tokens)
    <3>1. Seq(Words) \subseteq Seq(Tokens)
      BY DEF Tokens
    <3> QED BY <3>1, ConfabulationAssumption
  <2> DEFINE T == Tokens
  <2>2. Holds(PhraseTrie, T, Phrases) /\ input \in Seq(T)
    BY <1>1, <2>1, PhraseTrieHolds
  <2> HIDE DEF T, level, k
  <2>3. /\ \A l \in Positions : level[l] # None => StandsAt(input, l, level[l])
        /\ \A l \in Positions, r \in Phrases \ {None} :
             StandsAt(input, l, r) =>
               \E j \in 0 .. l : /\ level[j] # None /\ l < j + Len(level[j])
                                 /\ j = l => Len(r) <= Len(level[j])
    BY <2>2, LevelFacts DEF level
  <2> QED BY <1>5, <1>8, <1>9, <2>3 DEF None
<1>11. active.phrases = level
  BY <1>1 DEF Organize
<1> HIDE DEF k, level
<1>12. PICK j \in 0 .. k : /\ level[j] # None /\ k < j + Len(level[j])
                           /\ j = k => Len(p) <= Len(level[j])
  BY <1>10
<1>13. CASE j = k
  <2>1. StandsAt(input, k, level[k])
    BY <1>9, <1>10, <1>12, <1>13
  <2>2. Len(level[k]) = Len(p) => level[k] = p
    BY <1>8, <2>1 DEF StandsAt
  <2>3. k + Len(level[k]) <= Len(input) /\ Len(p) <= Len(level[k])
    BY <1>12, <1>13, <2>1 DEF StandsAt
  <2>4. Len(level[k]) \in Int
    <3>1. Holds(PhraseTrie, Tokens, Phrases)
      <4>1. Seq(Words) \subseteq Seq(Tokens)
        BY DEF Tokens
      <4> QED BY <4>1, ConfabulationAssumption, PhraseTrieHolds
    <3>2. level[k] \in Seq(Tokens)
      BY <1>1, <1>9, <3>1, LevelFacts DEF level
    <3> QED BY <3>2, LenProperties
  <2>5. level[k] = p \/ Len(level[k]) > Len(p)
    BY <1>7, <2>2, <2>3, <2>4
  <2> QED BY <1>11, <2>5 DEF k, q, a, p
<1>14. CASE j # k
  <2>1. j \in 0 .. (k - 1) /\ j + Len(level[j]) > k
    BY <1>9, <1>12, <1>14
  <2> QED BY <1>11, <2>1 DEF k, q, a, p
<1> QED BY <1>13, <1>14

\* In every round of a call with a sentence without holes the words answered before,
\* those inside answered phrases too, are active on the modules of their positions.
THEOREM AnswersAreObserved == Spec => []AnswersObserved
BY CallInvariance, WordsAreObserved, PTL

\* An answered phrase is active on the module it was answered for in every later
\* round, but where an observed phrase that begins earlier, or a longer one, takes
\* its words.
THEOREM PhrasesStayObserved == Spec => []PhrasesObserved
BY CallInvariance, PhrasesAreObserved, PTL

=============================================================================
