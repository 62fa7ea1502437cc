----------------------------- MODULE SwirlProofs ----------------------------
(***************************************************************************)
(* Proofs about Swirl, for any number of threads, modules and symbols, any *)
(* links and any interleaving.  The inductive invariant IInv joins the     *)
(* type invariant with what ties a thread's place to the program it runs,  *)
(* to the mutexes it holds, to the sweeps it has paid for and to the       *)
(* tightening of the module it has just excited.                           *)
(***************************************************************************)
EXTENDS Swirl, Induction, FiniteSetTheorems, SequenceTheorems

-----------------------------------------------------------------------------
(***************************************************************************)
(* What the operators of Excitation return, and what elementary            *)
(* confabulation answers.                                                  *)
(***************************************************************************)
\* Every operation on a vector yields a vector of non-negative excitations.
LEMMA VectorTypes ==
  /\ ZeroVector \in Vectors
  /\ \A e, f : AddVectors(e, f) \in Vectors
  /\ \A e \in Vectors, c \in Int : ExcitationsAbove(c, e) \in Vectors
  /\ \A s \in Symbols, x \in Nat : SingleElement(s, x) \in Vectors
BY DEF ZeroVector, AddVectors, PositiveClip, ExcitationsAbove, SingleElement, Vectors

\* A module has at most NumSymbols excited symbols.
LEMMA NzElementsBound ==
  ASSUME NEW e
  PROVE  /\ IsFiniteSet(NzElements(e))
         /\ Cardinality(NzElements(e)) \in 0 .. NumSymbols
<1>1. IsFiniteSet(Symbols) /\ Cardinality(Symbols) = NumSymbols
  BY FS_Interval, ExcitationAssumption DEF Symbols
<1>2. NzElements(e) \in SUBSET Symbols
  BY DEF NzElements
<1>3. IsFiniteSet(NzElements(e)) /\ Cardinality(NzElements(e)) <= NumSymbols
  BY <1>1, <1>2, FS_Subset
<1>4. Cardinality(NzElements(e)) \in Nat
  BY <1>3, FS_CardinalityType
<1> QED BY <1>3, <1>4, ExcitationAssumption

\* The lowest symbol index of a set.
LEMMA MinOfSymbols ==
  ASSUME NEW T \in SUBSET Symbols, T # {}
  PROVE  Min(T) \in T /\ \A s \in T : Min(T) <= s
<1>1. T \in SUBSET Nat
  BY ExcitationAssumption DEF Symbols
<1>2. PICK n \in T : \A m \in T : n <= m
  BY <1>1, LeastNatural
<1> QED BY <1>2 DEF Min

\* Among the symbols of a set, one has the maximum excitation.
LEMMA MaximumExists ==
  ASSUME NEW e \in Vectors, NEW T \in SUBSET Symbols, T # {}
  PROVE  \E s \in T : \A o \in T : e[o] <= e[s]
<1> DEFINE Below(k) == {s \in T : s <= k}
           Top(k) == \E s \in Below(k) : \A o \in Below(k) : e[o] <= e[s]
           Bad == {k \in Nat : Below(k) # {} /\ ~Top(k)}
<1>1. /\ \A s \in T : e[s] \in Nat
      /\ T \in SUBSET Nat
  BY ExcitationAssumption DEF Vectors, Symbols
<1>2. Bad = {}
  <2>1. SUFFICES ASSUME Bad # {} PROVE FALSE
    OBVIOUS
  <2>2. PICK k \in Bad : \A m \in Bad : k <= m
    <3>1. Bad \in SUBSET Nat
      OBVIOUS
    <3> QED BY <2>1, <3>1, LeastNatural
  <2>3. k \in Nat /\ Below(k) # {} /\ ~Top(k)
    BY <2>2
  <2>4. CASE Below(k) = {k}
    BY <1>1, <2>3, <2>4
  <2>5. CASE Below(k) # {k}
    <3>1. PICK j \in Below(k) : j # k
      BY <2>3, <2>5
    <3>2. j \in Nat /\ j <= k - 1 /\ k - 1 \in Nat
      BY <1>1, <2>3, <3>1
    <3>3. Below(k - 1) # {}
      BY <3>1, <3>2
    <3>4. k - 1 \notin Bad
      BY <2>2, <2>3
    <3>5. Top(k - 1)
      BY <3>2, <3>3, <3>4
    <3>6. PICK m \in Below(k - 1) : \A o \in Below(k - 1) : e[o] <= e[m]
      BY <3>5
    <3>7. \A o \in Below(k) : o = k \/ o \in Below(k - 1)
      BY <1>1, <2>3
    <3>8. m \in T /\ m \in Below(k) /\ e[m] \in Nat
      BY <1>1, <2>3, <3>6
    <3>9. Top(k)
      <4>1. CASE k \in T /\ e[m] <= e[k]
        <5>1. k \in Below(k) /\ e[k] \in Nat
          BY <1>1, <2>3, <4>1
        <5>2. \A o \in Below(k) : e[o] <= e[k]
          <6>1. ASSUME NEW o \in Below(k), o \in Below(k - 1) PROVE e[o] <= e[k]
            <7>1. e[o] <= e[m] /\ e[o] \in Nat
              BY <1>1, <3>6, <6>1
            <7> QED BY <7>1, <4>1, <3>8, <5>1
          <6> QED BY <3>7, <6>1, <5>1
        <5> QED BY <5>1, <5>2
      <4>2. CASE ~(k \in T /\ e[m] <= e[k])
        <5>1. \A o \in Below(k) : e[o] <= e[m]
          <6>1. ASSUME NEW o \in Below(k), o = k PROVE e[o] <= e[m]
            BY <1>1, <3>8, <4>2, <6>1
          <6> QED BY <3>6, <3>7, <6>1
        <5> QED BY <3>8, <5>1
      <4> QED BY <4>1, <4>2
    <3> QED BY <2>3, <3>9
  <2> QED BY <2>4, <2>5
<1>3. /\ NumSymbols - 1 \in Nat
      /\ Below(NumSymbols - 1) = T
  <2>1. \A s \in T : s \in Nat /\ s <= NumSymbols - 1
    BY ExcitationAssumption DEF Symbols
  <2> QED BY <2>1, ExcitationAssumption
<1>4. Top(NumSymbols - 1)
  BY <1>2, <1>3
<1> QED BY <1>3, <1>4

\* Elementary confabulation answers an excited symbol of band 1 or more, with
\* its excitation, or the dummy when there is none.
LEMMA ElementaryAnswer ==
  ASSUME NEW e \in Vectors
  PROVE  LET w == ElementaryConfabulation(e)
         IN  \/ w = [symbol |-> Dummy, excitation |-> 0]
             \/ /\ w.symbol \in NzElements(e)
                /\ w.excitation = e[w.symbol]
                /\ w.excitation >= BandGap
<1> DEFINE c == ExcitationsAbove(1, e)
           nz == NzElements(c)
           others == nz \ {Min(nz)}
           best == {s \in others : \A o \in others : c[o] <= c[s]}
<1>1. c \in Vectors /\ nz \in SUBSET Symbols
  BY VectorTypes DEF NzElements
<1>2. \A s \in nz : s \in NzElements(e) /\ e[s] >= BandGap
  BY ExcitationAssumption DEF NzElements, ExcitationsAbove, Vectors
<1>3. ASSUME nz # {} PROVE MaxExcitation(c) \in nz
  <2>1. Min(nz) \in nz
    BY <1>1, <1>3, MinOfSymbols
  <2>2. CASE others = {}
    BY <2>1, <2>2 DEF MaxExcitation
  <2>3. CASE others # {}
    <3>1. others \in SUBSET Symbols
      BY <1>1
    <3> HIDE DEF c, nz
    <3>2. best # {}
      BY <1>1, <2>3, <3>1, MaximumExists
    <3>3. best \in SUBSET Symbols
      BY <3>1
    <3>4. Min(best) \in best
      BY <3>2, <3>3, MinOfSymbols
    <3> QED BY <2>3, <3>4 DEF MaxExcitation, c, nz
  <2> QED BY <2>2, <2>3
<1> QED BY <1>2, <1>3 DEF ElementaryConfabulation

-----------------------------------------------------------------------------
(***************************************************************************)
(* The program of a thread.                                                *)
(***************************************************************************)
\* An instruction the engine can carry out: two different modules, and for a
\* transfer a knowledge base between them.
Sound == {x \in Instructions :
            x.from # x.to /\ (x.op = "transfer" => HasKb(x.from, x.to))}

LEMMA Bounds ==
  /\ N \in Nat /\ N >= 3
  /\ Index \in Nat /\ Span \in Nat /\ Span >= 1 /\ Span <= MaxMultiWordSize
  /\ Index + Span <= N /\ Index >= 1
  /\ LastSegment \in Nat /\ LastSegment > Span
BY SwirlAssumption DEF N, Span, LastSegment

LEMMA SoundTransfer ==
  ASSUME NEW i \in Modules, NEW j \in Modules, i # j, HasKb(i, j)
  PROVE  /\ TransferAndTightenAtIndex(i, j) \in Seq(Sound)
         /\ Len(TransferAndTightenAtIndex(i, j)) = 1
<1>1. [op |-> "transfer", from |-> i, to |-> j] \in Sound
  BY DEF Sound, Instructions
<1> QED BY <1>1 DEF TransferAndTightenAtIndex

LEMMA SoundExcited ==
  ASSUME NEW i \in 0 .. (N - 1)
  PROVE  /\ ExcitedSymbolsAtIndex(i) \in Seq(Sound)
         /\ Len(ExcitedSymbolsAtIndex(i)) = 1
         /\ ExcitedSymbolsAtIndex(i)[1].op = "excited"
<1>1. [op |-> "excited", from |-> i, to |-> Phrase(i)] \in Sound
  BY Bounds DEF Sound, Instructions, Modules, Phrase
<1> QED BY <1>1 DEF ExcitedSymbolsAtIndex

LEMMA SoundSwirl ==
  ASSUME NEW i \in 0 .. (N - 1)
  PROVE  /\ BasicSwirlAtIndex(i) \in Seq(Sound)
         /\ Len(BasicSwirlAtIndex(i)) \in Nat \ {0}
<1> DEFINE first == TransferAndTightenAtIndex(Phrase(i), i)
           a == TransferAndTightenAtIndex(i, i + 1)
           b == TransferAndTightenAtIndex(i + 1, Phrase(i))
           c == TransferAndTightenAtIndex(i + 1, i)
           last == ExcitedSymbolsAtIndex(i)
           middle == IF i + 1 < N THEN a \o b \o c ELSE <<>>
<1>1. first \in Seq(Sound) /\ Len(first) = 1
  <2>1. /\ i \in Modules /\ Phrase(i) \in Modules /\ i # Phrase(i)
        /\ HasKb(Phrase(i), i)
    BY Bounds, SwirlAssumption DEF Modules, Phrase, HasKb
  <2> QED BY <2>1, SoundTransfer
<1>2. middle \in Seq(Sound) /\ Len(middle) \in Nat
  <2>1. CASE i + 1 < N
    <3>1. /\ i \in Modules /\ i + 1 \in Modules /\ Phrase(i) \in Modules
          /\ i # i + 1 /\ i + 1 # Phrase(i)
          /\ HasKb(i, i + 1) /\ HasKb(i + 1, Phrase(i)) /\ HasKb(i + 1, i)
      BY <2>1, Bounds, SwirlAssumption DEF Modules, Phrase, HasKb
    <3>2. /\ a \in Seq(Sound) /\ b \in Seq(Sound) /\ c \in Seq(Sound)
      BY <3>1, SoundTransfer
    <3> HIDE DEF a, b, c
    <3>3. a \o b \in Seq(Sound)
      BY <3>2, ConcatProperties
    <3>4. a \o b \o c \in Seq(Sound)
      BY <3>2, <3>3, ConcatProperties
    <3>5. middle = a \o b \o c
      BY <2>1
    <3> QED BY <3>4, <3>5, LenProperties
  <2>2. CASE ~(i + 1 < N)
    BY <2>2, EmptySeq
  <2> QED BY <2>1, <2>2
<1>3. last \in Seq(Sound) /\ Len(last) = 1
  BY SoundExcited
<1>4. BasicSwirlAtIndex(i) = first \o middle \o last
  BY DEF BasicSwirlAtIndex
<1> HIDE DEF first, middle, last
<1>5. first \o middle \in Seq(Sound) /\ Len(first \o middle) \in Nat \ {0}
  <2>1. first \o middle \in Seq(Sound)
    BY <1>1, <1>2, ConcatProperties
  <2>2. Len(first \o middle) = Len(first) + Len(middle)
    BY <1>1, <1>2, ConcatProperties
  <2> QED BY <1>1, <1>2, <2>1, <2>2
<1> QED BY <1>3, <1>4, <1>5, ConcatProperties

\* Every instruction of every segment can be carried out, no segment is empty,
\* and the segments before the loop and at the end of a sweep only look at the
\* excited symbols.
LEMMA SoundProgram ==
  ASSUME NEW n \in 0 .. LastSegment
  PROVE  /\ Program[n] \in Seq(Sound)
         /\ Len(Program[n]) \in Nat \ {0}
         /\ n \in {0, LastSegment} => /\ Len(Program[n]) = 1
                                      /\ Program[n][1].op = "excited"
<1>0. Program[n] = Segment(n)
  BY DEF Program
<1>1. CASE n = 0 \/ n = LastSegment
  <2>1. Segment(n) = ExcitedSymbolsAtIndex(Index)
    BY <1>1 DEF Segment
  <2>2. Index \in 0 .. (N - 1)
    BY Bounds
  <2> QED BY <1>0, <2>1, <2>2, SoundExcited
<1>2. CASE n \in 1 .. Span
  <2>0. n # 0 /\ n # LastSegment /\ n \in Nat
    BY <1>2, Bounds
  <2> DEFINE i == Index + n - 1
  <2>1. Segment(n) = BasicTransitionOverMultipleIndices(n)
    BY <1>2, <2>0, Bounds DEF Segment
  <2>2. i \in 0 .. (N - 1) /\ Index \in 0 .. (N - 1)
    BY <1>2, Bounds
  <2>3. /\ BasicSwirlAtIndex(i) \in Seq(Sound)
        /\ Len(BasicSwirlAtIndex(i)) \in Nat \ {0}
    BY <2>2, SoundSwirl
  <2>4. CASE n < Span
    <3>1. /\ i \in Modules /\ Phrase(i) + 1 \in Modules /\ i # Phrase(i) + 1
          /\ HasKb(i, Phrase(i) + 1)
      BY <1>2, <2>4, Bounds, SwirlAssumption DEF Modules, Phrase, HasKb
    <3>2. /\ TransferAndTightenAtIndex(i, Phrase(i) + 1) \in Seq(Sound)
          /\ Len(TransferAndTightenAtIndex(i, Phrase(i) + 1)) = 1
      BY <3>1, SoundTransfer
    <3>3. Segment(n) = BasicSwirlAtIndex(i) \o TransferAndTightenAtIndex(i, Phrase(i) + 1)
      BY <2>1, <2>4 DEF BasicTransitionOverMultipleIndices, BasicTransitionAtIndex
    <3> HIDE DEF i
    <3> QED BY <1>0, <2>0, <2>3, <3>2, <3>3, ConcatProperties
  <2>5. CASE ~(n < Span)
    <3>1. Segment(n) = BasicSwirlAtIndex(i) \o ExcitedSymbolsAtIndex(Index)
      BY <2>1, <2>5 DEF BasicTransitionOverMultipleIndices
    <3>2. /\ ExcitedSymbolsAtIndex(Index) \in Seq(Sound)
          /\ Len(ExcitedSymbolsAtIndex(Index)) = 1
      BY <2>2, SoundExcited
    <3> HIDE DEF i
    <3> QED BY <1>0, <2>0, <2>3, <3>1, <3>2, ConcatProperties
  <2> QED BY <2>4, <2>5
<1>3. CASE n > Span /\ n # LastSegment
  <2> DEFINE i == Index + n - Span + 1
             a == TransferAndTightenAtIndex(i, Phrase(Index))
             b == TransferAndTightenAtIndex(i, Index)
  <2>0. n \in Nat /\ n # 0 /\ n \notin 1 .. Span
    BY <1>3, Bounds
  <2>1. Segment(n) = a \o b
    BY <1>3, <2>0, Bounds DEF Segment
  <2>2. n < 2 * Span - 1 /\ Span > 1
    BY <1>3, <2>0, Bounds DEF LastSegment
  <2>3. /\ i \in Modules /\ Phrase(Index) \in Modules /\ Index \in Modules
        /\ i # Phrase(Index) /\ i # Index
        /\ HasKb(i, Phrase(Index)) /\ HasKb(i, Index)
    <3>1. i \in Nat /\ i < N /\ Index < i /\ i - Index < MaxMultiWordSize
      BY <1>3, <2>0, <2>2, Bounds, SwirlAssumption
    <3> HIDE DEF i
    <3> QED BY <3>1, Bounds, SwirlAssumption DEF Modules, Phrase, HasKb
  <2>4. a \in Seq(Sound) /\ Len(a) = 1 /\ b \in Seq(Sound) /\ Len(b) = 1
    BY <2>3, SoundTransfer
  <2> HIDE DEF a, b
  <2> QED BY <1>0, <1>3, <2>0, <2>1, <2>4, ConcatProperties
<1>4. n = 0 \/ n = LastSegment \/ n \in 1 .. Span \/ (n > Span /\ n # LastSegment)
  BY Bounds
<1> QED BY <1>1, <1>2, <1>3, <1>4

-----------------------------------------------------------------------------
(***************************************************************************)
(* The inductive invariant.                                                *)
(***************************************************************************)
InTransfer == {"source", "lock1", "lock2", "transfer", "unlock1", "unlock2", "target"}

\* A thread is at an instruction of its program, and inside
\* TransferAndTightenAtIndex only if that is the instruction.
PlaceOK ==
  \A t \in Threads :
    /\ at[t] \in 1 .. Len(Program[seg[t]])
    /\ pc[t] \in InTransfer => Instr(t).op = "transfer"

\* The mutexes a thread holds, from where it is.
Holds(t, m) ==
  \/ pc[t] \in {"lock2", "unlock2"} /\ m = Lower(t)
  \/ pc[t] \in {"transfer", "unlock1"} /\ m \in {Lower(t), Upper(t)}

LocksOK == \A t \in Threads, m \in Modules : owner[m] = t <=> Holds(t, m)

\* Before the loop nothing is paid for.
SweepsOK ==
  \A t \in Threads :
    /\ found[t] <= NumSymbols
    /\ seg[t] = 0 => sweeps[t] = 0 /\ prev[t] = 0
    /\ sweeps[t] + prev[t] <= 2 * NumSymbols + 1

\* Nothing is tightened before the threads start, the levels fit in an int8_t,
\* and a thread that transfers is going to tighten by 1.
BandOK ==
  /\ main = "initialize" => /\ \A t \in Threads : pc[t] = "idle"
                            /\ \A m \in Modules : level[m] = 0
  /\ ~aborted => \A m \in Modules : level[m] <= 127
  /\ \A t \in Threads :
       pc[t] \in {"lock1", "lock2", "transfer", "unlock1", "unlock2"} => tighten[t] = 1

IInv == TypeOK /\ PlaceOK /\ LocksOK /\ SweepsOK /\ BandOK /\ SettledAboveBand

-----------------------------------------------------------------------------
\* The instruction of a thread, and the order of its two mutexes.
LEMMA InstrFacts ==
  ASSUME TypeOK, PlaceOK, NEW t \in Threads
  PROVE  /\ Instr(t) \in Sound
         /\ From(t) \in Modules /\ To(t) \in Modules /\ From(t) # To(t)
         /\ Lower(t) \in Modules /\ Upper(t) \in Modules /\ Lower(t) < Upper(t)
         /\ {Lower(t), Upper(t)} = {From(t), To(t)}
<1>1. seg[t] \in 0 .. LastSegment
  BY DEF TypeOK
<1>2. Program[seg[t]] \in Seq(Sound)
  BY <1>1, SoundProgram
<1>3. Instr(t) \in Sound
  BY <1>2, ElementOfSeq DEF PlaceOK, Instr
<1>4. From(t) \in Modules /\ To(t) \in Modules /\ From(t) # To(t)
  BY <1>3 DEF Sound, Instructions, From, To
<1>5. From(t) \in Int /\ To(t) \in Int
  BY <1>4, Bounds DEF Modules
<1> QED BY <1>3, <1>4, <1>5 DEF Lower, Upper, LockOrder

\* A transfer is never the instruction before the loop or at its end.
LEMMA TransferInside ==
  ASSUME TypeOK, PlaceOK, NEW t \in Threads, Instr(t).op = "transfer"
  PROVE  seg[t] \in 1 .. (LastSegment - 1)
<1>1. seg[t] \in 0 .. LastSegment
  BY DEF TypeOK
<1>2. SUFFICES ASSUME seg[t] \in {0, LastSegment} PROVE FALSE
  BY <1>1, Bounds
<1>3. Len(Program[seg[t]]) = 1 /\ Program[seg[t]][1].op = "excited"
  BY <1>1, <1>2, SoundProgram
<1>4. at[t] \in 1 .. Len(Program[seg[t]])
  BY DEF PlaceOK
<1>5. at[t] = 1
  BY <1>3, <1>4
<1> QED BY <1>3, <1>5 DEF Instr

\* Where GoTo leads: a place of the program and its first step.
LEMMA GoToFacts ==
  ASSUME TypeOK, PlaceOK, NEW t \in Threads, NEW n \in 0 .. LastSegment,
         NEW k \in 1 .. Len(Program[n]), GoTo(t, n, k)
  PROVE  /\ seg' \in [Threads -> 0 .. LastSegment]
         /\ at' \in [Threads -> Nat \ {0}]
         /\ seg' = [seg EXCEPT ![t] = n] /\ at' = [at EXCEPT ![t] = k]
         /\ pc'[t] \in {"source", "word"}
         /\ pc' = [pc EXCEPT ![t] = pc'[t]]
         /\ \A u \in Threads : at'[u] \in 1 .. Len(Program[seg'[u]])
         /\ pc'[t] = "source" => Instr(t)'.op = "transfer"
<1>1. Len(Program[n]) \in Nat
  BY SoundProgram
<1>2. /\ seg \in [Threads -> 0 .. LastSegment] /\ at \in [Threads -> Nat \ {0}]
      /\ DOMAIN pc = Threads
  BY DEF TypeOK
<1>3. pc'[t] = FirstStep(Program[n][k]) /\ pc' = [pc EXCEPT ![t] = pc'[t]]
  BY <1>2 DEF GoTo
<1>4. seg'[t] = n /\ at'[t] = k
  BY <1>2 DEF GoTo
<1>5. pc'[t] = "source" => Instr(t)'.op = "transfer"
  BY <1>3, <1>4 DEF Instr, FirstStep
<1>6. \A u \in Threads : at'[u] \in 1 .. Len(Program[seg'[u]])
  BY <1>2 DEF GoTo, PlaceOK
<1> QED BY <1>1, <1>2, <1>3, <1>5, <1>6 DEF GoTo, FirstStep

\* Advance stays in the program, and never leaves for segment 0.
LEMMA AdvanceFacts ==
  ASSUME TypeOK, PlaceOK, NEW t \in Threads, Advance(t),
         seg[t] \in 1 .. (LastSegment - 1)
  PROVE  \E n \in 1 .. LastSegment : \E k \in 1 .. Len(Program[n]) : GoTo(t, n, k)
<1>1. seg[t] \in 0 .. LastSegment /\ seg[t] + 1 \in 0 .. LastSegment
  BY Bounds
<1>2. /\ Len(Program[seg[t]]) \in Nat /\ Len(Program[seg[t] + 1]) \in Nat \ {0}
  BY <1>1, SoundProgram
<1>3. at[t] \in Nat /\ at[t] >= 1
  BY DEF TypeOK
<1>4. CASE at[t] < Len(Program[seg[t]])
  <2>1. at[t] + 1 \in 1 .. Len(Program[seg[t]]) /\ GoTo(t, seg[t], at[t] + 1)
    BY <1>2, <1>3, <1>4 DEF Advance
  <2> QED BY <2>1, Bounds
<1>5. CASE ~(at[t] < Len(Program[seg[t]]))
  <2>1. 1 \in 1 .. Len(Program[seg[t] + 1]) /\ GoTo(t, seg[t] + 1, 1)
    BY <1>2, <1>5 DEF Advance
  <2> QED BY <1>1, <2>1, Bounds
<1> QED BY <1>4, <1>5

-----------------------------------------------------------------------------
(***************************************************************************)
(* What a critical section and a step leave alone.                         *)
(***************************************************************************)
\* Tightening module m changes m only, and leaves it above its own band.
LEMMA TightenFacts ==
  ASSUME TypeOK, BandOK, ~aborted, NEW m \in Modules, NEW n \in {0, 1},
         TighteningPartialConfabulation(m, n)
  PROVE  /\ exc' \in [Modules -> Vectors] /\ level' \in [Modules -> Nat]
         /\ aborted' \in BOOLEAN /\ owner' = owner /\ owner[m] = Free
         /\ \A o \in Modules \ {m} : exc'[o] = exc[o] /\ level'[o] = level[o]
         /\ ~aborted' => /\ \A o \in Modules : level'[o] <= 127
                         /\ \A s \in NzElements(exc'[m]) :
                              exc'[m][s] >= level'[m] * BandGap
<1> DEFINE l == level[m] + n
<1>1. level[m] \in 0 .. 127 /\ l \in 0 .. 128 /\ exc[m] \in Vectors
  <2>1. level \in [Modules -> Nat] /\ exc \in [Modules -> Vectors]
    BY DEF TypeOK
  <2>2. level[m] \in Nat /\ level[m] <= 127 /\ exc[m] \in Vectors
    BY <2>1 DEF BandOK
  <2> QED BY <2>2
<1>2. /\ level' = [level EXCEPT ![m] = l] /\ owner' = owner /\ owner[m] = Free
      /\ aborted' = (Int8(l) < 0)
      /\ exc' = IF Int8(l) < 0 THEN exc
                ELSE [exc EXCEPT ![m] = ExcitationsAbove(Int8(l), exc[m])]
  BY DEF TighteningPartialConfabulation
<1>3. Int8(l) \in Int /\ (l <= 127 => Int8(l) = l) /\ (l = 128 => Int8(l) < 0)
  BY <1>1 DEF Int8
<1>4. ExcitationsAbove(Int8(l), exc[m]) \in Vectors
  BY <1>1, <1>3, VectorTypes
<1> HIDE DEF l
<1>5. exc' \in [Modules -> Vectors] /\ level' \in [Modules -> Nat]
  <2>1. exc \in [Modules -> Vectors] /\ level \in [Modules -> Nat] /\ l \in Nat
    BY <1>1 DEF TypeOK
  <2>2. CASE Int8(l) < 0
    BY <1>2, <2>1, <2>2
  <2>3. CASE ~(Int8(l) < 0)
    <3>1. exc' = [exc EXCEPT ![m] = ExcitationsAbove(Int8(l), exc[m])]
      BY <1>2, <2>3
    <3> QED BY <1>2, <1>4, <2>1, <3>1
  <2> QED BY <2>2, <2>3
<1>6. \A o \in Modules \ {m} : exc'[o] = exc[o] /\ level'[o] = level[o]
  BY <1>2 DEF TypeOK
<1>7. ASSUME ~aborted'
      PROVE  /\ \A o \in Modules : level'[o] <= 127
             /\ \A s \in NzElements(exc'[m]) : exc'[m][s] >= level'[m] * BandGap
  <2>0. ~(Int8(l) < 0)
    BY <1>2, <1>7, Zenon
  <2>1. Int8(l) = l /\ l <= 127 /\ l \in Nat
    BY <1>1, <1>3, <2>0
  <2>2. level'[m] = l /\ exc'[m] = ExcitationsAbove(l, exc[m])
    BY <1>2, <2>1 DEF TypeOK
  <2>3. \A o \in Modules : level'[o] <= 127
    BY <1>6, <2>1, <2>2 DEF BandOK
  <2>4. \A s \in NzElements(exc'[m]) : exc'[m][s] >= level'[m] * BandGap
    BY <1>1, <2>1, <2>2 DEF NzElements, ExcitationsAbove, Vectors
  <2> QED BY <2>3, <2>4
<1>8. aborted' \in BOOLEAN
  BY <1>2
<1> QED BY <1>2, <1>5, <1>6, <1>7, <1>8

\* A thread whose place does not change keeps its instruction.
LEMMA SameInstr ==
  ASSUME NEW t \in Threads, seg'[t] = seg[t], at'[t] = at[t]
  PROVE  /\ Instr(t)' = Instr(t) /\ From(t)' = From(t) /\ To(t)' = To(t)
         /\ Lower(t)' = Lower(t) /\ Upper(t)' = Upper(t)
BY DEF Instr, From, To, Lower, Upper, LockOrder

\* What every step of thread t leaves alone: the places of the others, and its
\* own unless it goes on to the next instruction.
Others(t) ==
  /\ pc' = [pc EXCEPT ![t] = pc'[t]]
  /\ tighten' = [tighten EXCEPT ![t] = tighten'[t]]
  /\ \A u \in Threads \ {t} : seg'[u] = seg[u] /\ at'[u] = at[u]

\* What the step of one thread that tightens a module does to the levels: they
\* stay in range, and no other thread is touched.
LEMMA LevelsKept ==
  ASSUME TypeOK, BandOK, ~aborted, NEW t \in Threads, NEW m \in Modules,
         NEW n \in {0, 1}, TighteningPartialConfabulation(m, n), Others(t),
         main' = main, pc[t] # "idle",
         pc'[t] \in {"lock1", "lock2", "transfer", "unlock1", "unlock2"} =>
           tighten'[t] = 1
  PROVE  BandOK'
<1>1. main' # "initialize"
  BY DEF BandOK
<1>2. ~aborted' => \A o \in Modules : level'[o] <= 127
  BY TightenFacts
<1>3. ASSUME NEW u \in Threads,
             pc'[u] \in {"lock1", "lock2", "transfer", "unlock1", "unlock2"}
      PROVE  tighten'[u] = 1
  <2>1. CASE u = t
    BY <1>3, <2>1
  <2>2. CASE u # t
    <3>1. pc'[u] = pc[u] /\ tighten'[u] = tighten[u]
      BY <2>2 DEF Others, TypeOK
    <3> QED BY <1>3, <3>1 DEF BandOK
  <2> QED BY <2>1, <2>2
<1> QED BY <1>1, <1>2, <1>3 DEF BandOK

\* The locks held stay as they are when nobody's mutex changes hands.
LEMMA LocksKept ==
  ASSUME TypeOK, PlaceOK, LocksOK, NEW t \in Threads, Others(t), owner' = owner,
         pc[t] \notin {"lock2", "transfer", "unlock1", "unlock2"},
         pc'[t] \notin {"lock2", "transfer", "unlock1", "unlock2"}
  PROVE  LocksOK'
<1>1. \A u \in Threads \ {t} :
        pc'[u] = pc[u] /\ Lower(u)' = Lower(u) /\ Upper(u)' = Upper(u)
  BY SameInstr DEF Others, TypeOK
<1>2. \A u \in Threads, m \in Modules : Holds(u, m)' <=> Holds(u, m)
  BY <1>1 DEF Holds
<1> QED BY <1>2 DEF LocksOK

\* The bands are kept when t tightens module m and no other module is settled
\* by the step.
LEMMA BandKept ==
  ASSUME TypeOK, BandOK, SettledAboveBand, ~aborted, NEW t \in Threads, Others(t),
         NEW m \in Modules, NEW n \in {0, 1}, TighteningPartialConfabulation(m, n),
         pc[t] \in {"unlock1", "unlock2", "target"} => To(t) = m \/ tighten[t] = 0
  PROVE  SettledAboveBand'
<1> SUFFICES ASSUME NEW o \in Modules, ~aborted', ~HasUnsettled(o)'
             PROVE  (\A s \in NzElements(exc[o]) : exc[o][s] >= level[o] * BandGap)'
  BY DEF SettledAboveBand
<1>1. CASE o = m
  BY <1>1, TightenFacts DEF NzElements
<1>2. CASE o # m
  <2>1. exc'[o] = exc[o] /\ level'[o] = level[o]
    BY <1>2, TightenFacts
  <2>2. \A u \in Threads \ {t} :
          pc'[u] = pc[u] /\ tighten'[u] = tighten[u] /\ To(u)' = To(u)
    BY SameInstr DEF Others, TypeOK
  <2>3. ~HasUnsettled(o)
    BY <1>2, <2>2 DEF HasUnsettled
  <2> QED BY <2>1, <2>3 DEF SettledAboveBand, NzElements
<1> QED BY <1>1, <1>2

-----------------------------------------------------------------------------
(***************************************************************************)
(* Every step of a thread keeps the invariant.                             *)
(***************************************************************************)
LEMMA SourceStep ==
  ASSUME IInv, ~aborted, NEW t \in Threads, Source(t)
  PROVE  IInv'
<1> USE DEF IInv
<1>1. /\ pc[t] = "source" /\ TighteningPartialConfabulation(From(t), 0)
      /\ UNCHANGED <<seg, at, main, answer, found, cur, prev, sweeps>>
  BY DEF Source, caller, place, sizes
<1>2. PICK b \in {0, 1}, p \in {"lock1", "target"} :
        /\ tighten' = [tighten EXCEPT ![t] = b] /\ pc' = [pc EXCEPT ![t] = p]
        /\ p = "lock1" => b = 1
  BY DEF Source
<1>3. From(t) \in Modules /\ Instr(t).op = "transfer"
  BY <1>1, InstrFacts DEF PlaceOK, InTransfer
<1>4. Others(t) /\ pc'[t] = p /\ tighten'[t] = b
  BY <1>1, <1>2 DEF Others, TypeOK
<1>5. \A u \in Threads : Instr(u)' = Instr(u) /\ Program[seg'[u]] = Program[seg[u]]
  BY <1>1, SameInstr
<1>6. TypeOK'
  <2>1. pc' \in [Threads -> {"idle", "source", "lock1", "lock2", "transfer",
                             "unlock1", "unlock2", "target", "word", "phrase", "done"}]
        /\ tighten' \in [Threads -> {0, 1}]
    BY <1>2 DEF TypeOK
  <2> QED BY <1>1, <1>3, <2>1, TightenFacts DEF TypeOK
<1>7. PlaceOK'
  BY <1>1, <1>2, <1>3, <1>5 DEF PlaceOK, InTransfer, TypeOK
<1>8. LocksOK'
  BY <1>1, <1>2, <1>3, <1>4, TightenFacts, LocksKept
<1>9. SweepsOK'
  BY <1>1 DEF SweepsOK
<1>10. BandOK'
  BY <1>1, <1>2, <1>3, <1>4, LevelsKept
<1>11. SettledAboveBand'
  BY <1>1, <1>3, <1>4, BandKept
<1> QED BY <1>6, <1>7, <1>8, <1>9, <1>10, <1>11

LEMMA WordStep ==
  ASSUME IInv, ~aborted, NEW t \in Threads, Word(t)
  PROVE  IInv'
<1> USE DEF IInv
<1>1. /\ pc[t] = "word" /\ TighteningPartialConfabulation(From(t), 0)
      /\ pc' = [pc EXCEPT ![t] = "phrase"]
      /\ found' = [found EXCEPT ![t] = Cardinality(NzElements(exc'[From(t)]))]
      /\ UNCHANGED <<seg, at, main, answer, tighten, cur, prev, sweeps>>
  BY DEF Word, caller, place, sizes
<1>2. From(t) \in Modules
  BY InstrFacts
<1>3. Others(t) /\ pc'[t] = "phrase"
  BY <1>1 DEF Others, TypeOK
<1>4. \A u \in Threads : Instr(u)' = Instr(u) /\ Program[seg'[u]] = Program[seg[u]]
  BY <1>1, SameInstr
<1>5. Cardinality(NzElements(exc'[From(t)])) \in 0 .. NumSymbols
  BY NzElementsBound
<1>6. TypeOK'
  <2>1. pc' \in [Threads -> {"idle", "source", "lock1", "lock2", "transfer",
                             "unlock1", "unlock2", "target", "word", "phrase", "done"}]
        /\ found' \in [Threads -> Nat]
    BY <1>1, <1>5 DEF TypeOK
  <2> QED BY <1>1, <1>2, <2>1, TightenFacts DEF TypeOK
<1>7. PlaceOK'
  BY <1>1, <1>4 DEF PlaceOK, InTransfer, TypeOK
<1>8. LocksOK'
  BY <1>1, <1>2, <1>3, TightenFacts, LocksKept
<1>9. SweepsOK'
  BY <1>1, <1>5, ExcitationAssumption DEF SweepsOK, TypeOK
<1>10. BandOK'
  BY <1>1, <1>2, <1>3, LevelsKept
<1>11. SettledAboveBand'
  BY <1>1, <1>2, <1>3, BandKept
<1> QED BY <1>6, <1>7, <1>8, <1>9, <1>10, <1>11

LEMMA TargetStep ==
  ASSUME IInv, ~aborted, NEW t \in Threads, Target(t)
  PROVE  IInv'
<1> USE DEF IInv
<1>1. /\ pc[t] = "target" /\ TighteningPartialConfabulation(To(t), tighten[t])
      /\ Advance(t)
      /\ UNCHANGED <<main, answer, tighten, found, cur, prev, sweeps>>
  BY DEF Target, caller, sizes
<1>2. To(t) \in Modules /\ Instr(t).op = "transfer" /\ tighten[t] \in {0, 1}
  BY <1>1, InstrFacts DEF PlaceOK, InTransfer, TypeOK
<1>3. PICK n \in 1 .. LastSegment : \E k \in 1 .. Len(Program[n]) : GoTo(t, n, k)
  BY <1>1, <1>2, TransferInside, AdvanceFacts
<1>4. PICK k \in 1 .. Len(Program[n]) : GoTo(t, n, k)
  BY <1>3
<1>5. n \in 0 .. LastSegment
  BY Bounds
<1>6. /\ seg' \in [Threads -> 0 .. LastSegment] /\ at' \in [Threads -> Nat \ {0}]
      /\ seg' = [seg EXCEPT ![t] = n] /\ at' = [at EXCEPT ![t] = k]
      /\ pc'[t] \in {"source", "word"} /\ pc' = [pc EXCEPT ![t] = pc'[t]]
      /\ \A u \in Threads : at'[u] \in 1 .. Len(Program[seg'[u]])
      /\ pc'[t] = "source" => Instr(t)'.op = "transfer"
  BY <1>4, <1>5, GoToFacts
<1>7. Others(t)
  BY <1>1, <1>6 DEF Others, TypeOK
<1>8. \A u \in Threads \ {t} : Instr(u)' = Instr(u) /\ pc'[u] = pc[u]
  BY <1>6, <1>7, SameInstr DEF Others, TypeOK
<1>9. TypeOK'
  <2>1. pc' \in [Threads -> {"idle", "source", "lock1", "lock2", "transfer",
                             "unlock1", "unlock2", "target", "word", "phrase", "done"}]
    BY <1>6 DEF TypeOK
  <2>2. /\ exc' \in [Modules -> Vectors] /\ level' \in [Modules -> Nat]
        /\ aborted' \in BOOLEAN /\ owner' = owner
    BY <1>1, <1>2, TightenFacts
  <2> QED BY <1>1, <1>6, <2>1, <2>2 DEF TypeOK
<1>10. PlaceOK'
  BY <1>6, <1>8 DEF PlaceOK, InTransfer
<1>11. LocksOK'
  BY <1>1, <1>2, <1>6, <1>7, TightenFacts, LocksKept
<1>12. SweepsOK'
  BY <1>1, <1>6 DEF SweepsOK, TypeOK
<1>13. BandOK'
  BY <1>1, <1>2, <1>6, <1>7, LevelsKept
<1>14. SettledAboveBand'
  BY <1>1, <1>2, <1>7, BandKept
<1> QED BY <1>9, <1>10, <1>11, <1>12, <1>13, <1>14

LEMMA PhraseInsideStep ==
  ASSUME IInv, ~aborted, NEW t \in Threads, PhraseInside(t)
  PROVE  IInv'
<1> USE DEF IInv
<1>1. /\ pc[t] = "phrase" /\ TighteningPartialConfabulation(To(t), 0)
      /\ seg[t] \notin {0, LastSegment} /\ Advance(t)
      /\ UNCHANGED <<main, answer, tighten, found, cur, prev, sweeps>>
  BY DEF PhraseInside, EndOfSweep, caller, sizes
<1>2. To(t) \in Modules /\ seg[t] \in 1 .. (LastSegment - 1)
  <2>1. To(t) \in Modules
    BY InstrFacts
  <2>2. seg[t] \in 0 .. LastSegment
    BY DEF TypeOK
  <2> QED BY <1>1, <2>1, <2>2, Bounds
<1>3. PICK n \in 1 .. LastSegment : \E k \in 1 .. Len(Program[n]) : GoTo(t, n, k)
  BY <1>1, <1>2, AdvanceFacts
<1>4. PICK k \in 1 .. Len(Program[n]) : GoTo(t, n, k)
  BY <1>3
<1>5. n \in 0 .. LastSegment
  BY Bounds
<1>6. /\ seg' \in [Threads -> 0 .. LastSegment] /\ at' \in [Threads -> Nat \ {0}]
      /\ seg' = [seg EXCEPT ![t] = n] /\ at' = [at EXCEPT ![t] = k]
      /\ pc'[t] \in {"source", "word"} /\ pc' = [pc EXCEPT ![t] = pc'[t]]
      /\ \A u \in Threads : at'[u] \in 1 .. Len(Program[seg'[u]])
      /\ pc'[t] = "source" => Instr(t)'.op = "transfer"
  BY <1>4, <1>5, GoToFacts
<1>7. Others(t)
  BY <1>1, <1>6 DEF Others, TypeOK
<1>8. \A u \in Threads \ {t} : Instr(u)' = Instr(u) /\ pc'[u] = pc[u]
  BY <1>6, <1>7, SameInstr DEF Others, TypeOK
<1>9. TypeOK'
  <2>1. pc' \in [Threads -> {"idle", "source", "lock1", "lock2", "transfer",
                             "unlock1", "unlock2", "target", "word", "phrase", "done"}]
    BY <1>6 DEF TypeOK
  <2> QED BY <1>1, <1>2, <1>6, <2>1, TightenFacts DEF TypeOK
<1>10. PlaceOK'
  BY <1>6, <1>8 DEF PlaceOK, InTransfer
<1>11. LocksOK'
  BY <1>1, <1>2, <1>6, <1>7, TightenFacts, LocksKept
<1>12. SweepsOK'
  BY <1>1, <1>6 DEF SweepsOK, TypeOK
<1>13. BandOK'
  BY <1>1, <1>2, <1>6, <1>7, LevelsKept
<1>14. SettledAboveBand'
  BY <1>1, <1>2, <1>7, BandKept
<1> QED BY <1>9, <1>10, <1>11, <1>12, <1>13, <1>14

LEMMA PhraseAtEndStep ==
  ASSUME IInv, ~aborted, NEW t \in Threads, PhraseAtEnd(t)
  PROVE  IInv'
<1> USE DEF IInv
<1> DEFINE size == found[t] + Cardinality(NzElements(exc'[To(t)]))
<1>1. /\ pc[t] = "phrase" /\ TighteningPartialConfabulation(To(t), 0)
      /\ seg[t] \in {0, LastSegment}
      /\ cur' = [cur EXCEPT ![t] = size]
      /\ UNCHANGED <<main, answer, tighten, found>>
  BY DEF PhraseAtEnd, EndOfSweep, caller
<1>2. To(t) \in Modules
  BY InstrFacts
<1>3. size \in 0 .. (2 * NumSymbols)
  <2>1. Cardinality(NzElements(exc'[To(t)])) \in 0 .. NumSymbols
    BY NzElementsBound
  <2>2. found[t] \in Nat /\ found[t] <= NumSymbols
    BY DEF TypeOK, SweepsOK
  <2> QED BY <2>1, <2>2, ExcitationAssumption
<1> HIDE DEF size
<1>4. /\ exc' \in [Modules -> Vectors] /\ level' \in [Modules -> Nat]
      /\ aborted' \in BOOLEAN /\ owner' = owner
  BY <1>1, <1>2, TightenFacts
<1>5. CASE GoesOn(t, size)
  <2>1. /\ prev' = [prev EXCEPT ![t] = size]
        /\ sweeps' = [sweeps EXCEPT ![t] = @ + 1]
        /\ GoTo(t, 1, 1)
    BY <1>5 DEF PhraseAtEnd, size
  <2>2. 1 \in 0 .. LastSegment /\ 1 \in 1 .. Len(Program[1])
    <3>1. 1 \in 0 .. LastSegment
      BY Bounds
    <3> QED BY <3>1, SoundProgram
  <2>3. /\ seg' \in [Threads -> 0 .. LastSegment] /\ at' \in [Threads -> Nat \ {0}]
        /\ seg' = [seg EXCEPT ![t] = 1] /\ at' = [at EXCEPT ![t] = 1]
        /\ pc'[t] \in {"source", "word"} /\ pc' = [pc EXCEPT ![t] = pc'[t]]
        /\ \A u \in Threads : at'[u] \in 1 .. Len(Program[seg'[u]])
        /\ pc'[t] = "source" => Instr(t)'.op = "transfer"
    BY <2>1, <2>2, GoToFacts
  <2>4. Others(t)
    BY <1>1, <2>3 DEF Others, TypeOK
  <2>5. \A u \in Threads \ {t} : Instr(u)' = Instr(u) /\ pc'[u] = pc[u]
    BY <2>3, <2>4, SameInstr DEF Others, TypeOK
  <2>6. TypeOK'
    <3>1. /\ pc' \in [Threads -> {"idle", "source", "lock1", "lock2", "transfer",
                         "unlock1", "unlock2", "target", "word", "phrase", "done"}]
      BY <2>3 DEF TypeOK
    <3>2. size \in Nat
      BY <1>3, ExcitationAssumption
    <3>3. /\ cur' \in [Threads -> Nat] /\ prev' \in [Threads -> Nat]
          /\ sweeps' \in [Threads -> Nat]
      BY <1>1, <2>1, <3>2 DEF TypeOK
    <3> QED BY <1>1, <1>4, <2>3, <3>1, <3>3 DEF TypeOK
  <2>7. PlaceOK'
    BY <2>3, <2>5 DEF PlaceOK, InTransfer
  <2>8. LocksOK'
    BY <1>1, <1>4, <2>3, <2>4, LocksKept
  <2>9. SweepsOK'
    <3>1. sweeps[t] + 1 + size <= 2 * NumSymbols + 1
      <4>1. sweeps[t] \in Nat /\ prev[t] \in Nat
            /\ sweeps[t] + prev[t] <= 2 * NumSymbols + 1
        BY DEF TypeOK, SweepsOK
      <4>2. CASE seg[t] = 0
        BY <1>3, <4>2, ExcitationAssumption DEF SweepsOK
      <4>3. CASE size < prev[t]
        BY <1>3, <4>1, <4>3, ExcitationAssumption
      <4> QED BY <1>5, <4>2, <4>3 DEF GoesOn
    <3>2. /\ sweeps'[t] + prev'[t] <= 2 * NumSymbols + 1
          /\ seg'[t] # 0
      BY <1>3, <2>1, <2>3, <3>1, ExcitationAssumption DEF TypeOK
    <3>3. \A u \in Threads \ {t} :
            seg'[u] = seg[u] /\ sweeps'[u] = sweeps[u] /\ prev'[u] = prev[u]
      BY <2>1, <2>4 DEF Others, TypeOK
    <3> QED BY <1>1, <3>2, <3>3 DEF SweepsOK
  <2>10. BandOK'
    BY <1>1, <1>2, <2>3, <2>4, LevelsKept
  <2>11. SettledAboveBand'
    BY <1>1, <1>2, <2>4, BandKept
  <2> QED BY <2>6, <2>7, <2>8, <2>9, <2>10, <2>11
<1>6. CASE ~GoesOn(t, size)
  <2>1. pc' = [pc EXCEPT ![t] = "done"] /\ UNCHANGED <<prev, sweeps, seg, at>>
    BY <1>6 DEF PhraseAtEnd, size, place
  <2>2. Others(t) /\ pc'[t] = "done"
    BY <1>1, <2>1 DEF Others, TypeOK
  <2>3. \A u \in Threads : Instr(u)' = Instr(u) /\ Program[seg'[u]] = Program[seg[u]]
    BY <2>1, SameInstr
  <2>4. TypeOK'
    <3>1. /\ pc' \in [Threads -> {"idle", "source", "lock1", "lock2", "transfer",
                         "unlock1", "unlock2", "target", "word", "phrase", "done"}]
          /\ cur' \in [Threads -> Nat]
      BY <1>1, <1>3, <2>1 DEF TypeOK
    <3> QED BY <1>1, <1>4, <2>1, <3>1 DEF TypeOK
  <2>5. PlaceOK'
    BY <2>1, <2>3 DEF PlaceOK, InTransfer, TypeOK
  <2>6. LocksOK'
    BY <1>1, <1>4, <2>2, LocksKept
  <2>7. SweepsOK'
    BY <1>1, <2>1 DEF SweepsOK
  <2>8. BandOK'
    BY <1>1, <1>2, <2>2, LevelsKept
  <2>9. SettledAboveBand'
    BY <1>1, <1>2, <2>2, BandKept
  <2> QED BY <2>4, <2>5, <2>6, <2>7, <2>8, <2>9
<1> QED BY <1>5, <1>6

-----------------------------------------------------------------------------
\* The steps that take or give back one mutex.
LEMMA LockStep ==
  ASSUME IInv, ~aborted, NEW t \in Threads, Lock1(t) \/ Lock2(t)
  PROVE  IInv'
<1> USE DEF IInv
<1>1. PICK m \in Modules, p \in {"lock2", "transfer"} :
        /\ owner[m] = Free /\ owner' = [owner EXCEPT ![m] = t]
        /\ pc' = [pc EXCEPT ![t] = p]
        /\ \/ pc[t] = "lock1" /\ m = Lower(t) /\ p = "lock2"
           \/ pc[t] = "lock2" /\ m = Upper(t) /\ p = "transfer"
  BY InstrFacts DEF Lock1, Lock2, Acquire
<1>2. UNCHANGED <<exc, level, aborted, main, answer, seg, at, tighten, found,
                  cur, prev, sweeps>>
  BY DEF Lock1, Lock2, Acquire, caller, place, sizes
<1>3. \A u \in Threads : /\ Instr(u)' = Instr(u) /\ Program[seg'[u]] = Program[seg[u]]
                         /\ Lower(u)' = Lower(u) /\ Upper(u)' = Upper(u)
                         /\ To(u)' = To(u)
  BY <1>2, SameInstr
<1>4. pc'[t] = p /\ \A u \in Threads \ {t} : pc'[u] = pc[u]
  BY <1>1 DEF TypeOK
<1>5. TypeOK'
  <2>1. /\ pc' \in [Threads -> {"idle", "source", "lock1", "lock2", "transfer",
                         "unlock1", "unlock2", "target", "word", "phrase", "done"}]
        /\ owner' \in [Modules -> Threads \cup {Free}]
    BY <1>1 DEF TypeOK
  <2> QED BY <1>2, <2>1 DEF TypeOK
<1>6. PlaceOK'
  BY <1>1, <1>2, <1>3, <1>4 DEF PlaceOK, InTransfer
<1>7. LocksOK'
  <2>1. Lower(t) # Upper(t) /\ Lower(t) \in Modules /\ Upper(t) \in Modules
    BY InstrFacts, Bounds DEF Modules
  <2>2. \A u \in Threads : owner[m] # u
    BY <1>1, SwirlAssumption
  <2>3. \A o \in Modules : owner'[o] = IF o = m THEN t ELSE owner[o]
    BY <1>1 DEF TypeOK
  <2>4. ASSUME NEW o \in Modules PROVE owner'[o] = t <=> Holds(t, o)'
    BY <1>1, <1>3, <1>4, <2>1, <2>3 DEF LocksOK, Holds
  <2>5. ASSUME NEW u \in Threads \ {t}, NEW o \in Modules
        PROVE  owner'[o] = u <=> Holds(u, o)'
    <3>1. Holds(u, o)' <=> Holds(u, o)
      BY <1>3, <1>4 DEF Holds
    <3> QED BY <2>2, <2>3, <3>1 DEF LocksOK
  <2> QED BY <2>4, <2>5 DEF LocksOK
<1>8. SweepsOK'
  BY <1>2 DEF SweepsOK
<1>9. BandOK'
  BY <1>1, <1>2, <1>4 DEF BandOK
<1>10. SettledAboveBand'
  <2>1. \A o \in Modules : HasUnsettled(o) => HasUnsettled(o)'
    BY <1>1, <1>2, <1>3, <1>4 DEF HasUnsettled
  <2> QED BY <1>2, <2>1 DEF SettledAboveBand, NzElements
<1> QED BY <1>5, <1>6, <1>7, <1>8, <1>9, <1>10

LEMMA UnlockStep ==
  ASSUME IInv, ~aborted, NEW t \in Threads, Unlock1(t) \/ Unlock2(t)
  PROVE  IInv'
<1> USE DEF IInv
<1>1. PICK m \in Modules, p \in {"unlock2", "target"} :
        /\ owner' = [owner EXCEPT ![m] = Free]
        /\ pc' = [pc EXCEPT ![t] = p]
        /\ \/ pc[t] = "unlock1" /\ m = Upper(t) /\ p = "unlock2"
           \/ pc[t] = "unlock2" /\ m = Lower(t) /\ p = "target"
  BY InstrFacts DEF Unlock1, Unlock2, Release
<1>2. UNCHANGED <<exc, level, aborted, main, answer, seg, at, tighten, found,
                  cur, prev, sweeps>>
  BY DEF Unlock1, Unlock2, Release, caller, place, sizes
<1>3. \A u \in Threads : /\ Instr(u)' = Instr(u) /\ Program[seg'[u]] = Program[seg[u]]
                         /\ Lower(u)' = Lower(u) /\ Upper(u)' = Upper(u)
                         /\ To(u)' = To(u)
  BY <1>2, SameInstr
<1>4. pc'[t] = p /\ \A u \in Threads \ {t} : pc'[u] = pc[u]
  BY <1>1 DEF TypeOK
<1>5. TypeOK'
  <2>1. /\ pc' \in [Threads -> {"idle", "source", "lock1", "lock2", "transfer",
                         "unlock1", "unlock2", "target", "word", "phrase", "done"}]
        /\ owner' \in [Modules -> Threads \cup {Free}]
    BY <1>1 DEF TypeOK
  <2> QED BY <1>2, <2>1 DEF TypeOK
<1>6. PlaceOK'
  BY <1>1, <1>2, <1>3, <1>4 DEF PlaceOK, InTransfer
<1>7. LocksOK'
  <2>1. Lower(t) # Upper(t) /\ Lower(t) \in Modules /\ Upper(t) \in Modules
    BY InstrFacts, Bounds DEF Modules
  <2>2. owner[m] = t
    BY <1>1 DEF LocksOK, Holds
  <2>3. \A o \in Modules : owner'[o] = IF o = m THEN Free ELSE owner[o]
    BY <1>1 DEF TypeOK
  <2>4. ASSUME NEW o \in Modules PROVE owner'[o] = t <=> Holds(t, o)'
    BY <1>1, <1>3, <1>4, <2>1, <2>3, SwirlAssumption DEF LocksOK, Holds
  <2>5. ASSUME NEW u \in Threads \ {t}, NEW o \in Modules
        PROVE  owner'[o] = u <=> Holds(u, o)'
    <3>1. Holds(u, o)' <=> Holds(u, o)
      BY <1>3, <1>4 DEF Holds
    <3> QED BY <2>2, <2>3, <3>1, SwirlAssumption DEF LocksOK
  <2> QED BY <2>4, <2>5 DEF LocksOK
<1>8. SweepsOK'
  BY <1>2 DEF SweepsOK
<1>9. BandOK'
  BY <1>1, <1>2, <1>4 DEF BandOK
<1>10. SettledAboveBand'
  <2>1. \A o \in Modules : HasUnsettled(o) => HasUnsettled(o)'
    BY <1>1, <1>2, <1>3, <1>4 DEF HasUnsettled
  <2> QED BY <1>2, <2>1 DEF SettledAboveBand, NzElements
<1> QED BY <1>5, <1>6, <1>7, <1>8, <1>9, <1>10

LEMMA TransferStep ==
  ASSUME IInv, ~aborted, NEW t \in Threads, Transfer(t)
  PROVE  IInv'
<1> USE DEF IInv
<1> DEFINE v == AddVectors(exc[To(t)], Transmit(Link[From(t), To(t)], exc[From(t)]))
<1>1. /\ pc[t] = "transfer" /\ pc' = [pc EXCEPT ![t] = "unlock1"]
      /\ exc' = [exc EXCEPT ![To(t)] = v]
      /\ UNCHANGED <<level, owner, aborted, main, answer, seg, at, tighten, found,
                     cur, prev, sweeps>>
  BY DEF Transfer, caller, place, sizes
<1>2. v \in Vectors /\ To(t) \in Modules
  BY VectorTypes, InstrFacts
<1> HIDE DEF v
<1>3. \A u \in Threads : /\ Instr(u)' = Instr(u) /\ Program[seg'[u]] = Program[seg[u]]
                         /\ Lower(u)' = Lower(u) /\ Upper(u)' = Upper(u)
                         /\ To(u)' = To(u)
  BY <1>1, SameInstr
<1>4. pc'[t] = "unlock1" /\ \A u \in Threads \ {t} : pc'[u] = pc[u]
  BY <1>1 DEF TypeOK
<1>5. TypeOK'
  <2>1. pc' \in [Threads -> {"idle", "source", "lock1", "lock2", "transfer",
                         "unlock1", "unlock2", "target", "word", "phrase", "done"}]
    BY <1>1 DEF TypeOK
  <2>2. exc' \in [Modules -> Vectors]
    BY <1>1, <1>2 DEF TypeOK
  <2> QED BY <1>1, <2>1, <2>2 DEF TypeOK
<1>6. PlaceOK'
  BY <1>1, <1>3, <1>4 DEF PlaceOK, InTransfer
<1>7. LocksOK'
  <2>1. \A u \in Threads, o \in Modules : Holds(u, o)' <=> Holds(u, o)
    BY <1>1, <1>3, <1>4 DEF Holds
  <2> QED BY <1>1, <2>1 DEF LocksOK
<1>8. SweepsOK'
  BY <1>1 DEF SweepsOK
<1>9. BandOK'
  BY <1>1, <1>4 DEF BandOK
<1>10. SettledAboveBand'
  <2>1. tighten[t] = 1
    BY <1>1 DEF BandOK
  <2>2. HasUnsettled(To(t))'
    BY <1>1, <1>3, <1>4, <2>1 DEF HasUnsettled
  <2>3. ASSUME NEW o \in Modules, o # To(t)
        PROVE  exc'[o] = exc[o] /\ (HasUnsettled(o) => HasUnsettled(o)')
    BY <1>1, <1>3, <1>4, <2>3 DEF HasUnsettled, TypeOK
  <2>4. ASSUME NEW o \in Modules, ~HasUnsettled(o)',
               NEW s \in NzElements(exc'[o])
        PROVE  exc'[o][s] >= level'[o] * BandGap
    <3>1. o # To(t)
      BY <1>3, <2>2, <2>4 DEF HasUnsettled
    <3>2. exc'[o] = exc[o] /\ ~HasUnsettled(o) /\ level'[o] = level[o]
      BY <1>1, <2>3, <2>4, <3>1
    <3>3. s \in NzElements(exc[o])
      BY <2>4, <3>2
    <3> QED BY <3>2, <3>3 DEF SettledAboveBand
  <2> QED BY <2>4 DEF SettledAboveBand
<1> QED BY <1>5, <1>6, <1>7, <1>8, <1>9, <1>10

-----------------------------------------------------------------------------
(***************************************************************************)
(* Every step of the calling thread keeps the invariant.                   *)
(***************************************************************************)
LEMMA InitializedType ==
  ASSUME NEW e \in [Modules -> Vectors], NEW m \in Modules, level[m] = 0
  PROVE  Initialized(m, e) \in [Modules -> Vectors]
<1>1. TransferAllExcitations(m, e) \in Vectors
  BY VectorTypes DEF TransferAllExcitations
<1>2. ExcitationsAbove(level[m], TransferAllExcitations(m, e)) \in Vectors
  BY <1>1, VectorTypes
<1> QED BY <1>2 DEF Initialized

LEMMA InitializationStep ==
  ASSUME IInv, ~aborted, InitializationAtIndex
  PROVE  IInv'
<1> USE DEF IInv
<1>1. /\ main = "initialize" /\ main' \in {"spawn", "done"}
      /\ exc' = Initialized(Phrase(Index), Initialized(Index, exc))
      /\ UNCHANGED <<level, owner, aborted, answer, pc, seg, at, tighten, found,
                     cur, prev, sweeps>>
  BY DEF InitializationAtIndex, place, sizes
<1>2. /\ \A t \in Threads : pc[t] = "idle"
      /\ \A m \in Modules : level[m] = 0
  BY <1>1 DEF BandOK
<1>3. Index \in Modules /\ Phrase(Index) \in Modules
  BY Bounds DEF Modules, Phrase
<1>4. exc' \in [Modules -> Vectors]
  <2>1. exc \in [Modules -> Vectors]
    BY DEF TypeOK
  <2>2. Initialized(Index, exc) \in [Modules -> Vectors]
    BY <1>2, <1>3, <2>1, InitializedType
  <2> QED BY <1>1, <1>2, <1>3, <2>2, InitializedType
<1>5. TypeOK'
  BY <1>1, <1>4 DEF TypeOK
<1>6. \A u \in Threads : /\ Instr(u)' = Instr(u)
                         /\ Lower(u)' = Lower(u) /\ Upper(u)' = Upper(u)
  BY <1>1, SameInstr
<1>7. PlaceOK'
  BY <1>1, <1>6 DEF PlaceOK
<1>8. LocksOK'
  <2>1. \A u \in Threads, o \in Modules : Holds(u, o)' <=> Holds(u, o)
    BY <1>1, <1>6 DEF Holds
  <2> QED BY <1>1, <2>1 DEF LocksOK
<1>9. SweepsOK'
  BY <1>1 DEF SweepsOK
<1>10. BandOK'
  BY <1>1 DEF BandOK
<1>11. SettledAboveBand'
  <2>1. \A m \in Modules : level'[m] * BandGap = 0
    BY <1>1, <1>2, ExcitationAssumption
  <2>2. \A m \in Modules : \A s \in NzElements(exc'[m]) : exc'[m][s] >= 0
    BY <1>4 DEF NzElements, Vectors
  <2> QED BY <2>1, <2>2 DEF SettledAboveBand, NzElements
<1> QED BY <1>5, <1>7, <1>8, <1>9, <1>10, <1>11

LEMMA SpawnStep ==
  ASSUME IInv, ~aborted, NEW t \in Threads, Spawn(t)
  PROVE  IInv'
<1> USE DEF IInv
<1>1. /\ main = "spawn" /\ pc[t] = "idle" /\ pc' = [pc EXCEPT ![t] = "word"]
      /\ main' \in {"join", "spawn"}
      /\ UNCHANGED <<exc, level, owner, aborted, answer, seg, at, tighten, found,
                     cur, prev, sweeps>>
  BY DEF Spawn, shared, place, sizes
<1>2. pc'[t] = "word" /\ \A u \in Threads \ {t} : pc'[u] = pc[u]
  BY <1>1 DEF TypeOK
<1>3. \A u \in Threads : /\ Instr(u)' = Instr(u) /\ To(u)' = To(u)
                         /\ Lower(u)' = Lower(u) /\ Upper(u)' = Upper(u)
  BY <1>1, SameInstr
<1>4. TypeOK'
  <2>1. pc' \in [Threads -> {"idle", "source", "lock1", "lock2", "transfer",
                         "unlock1", "unlock2", "target", "word", "phrase", "done"}]
    BY <1>1 DEF TypeOK
  <2> QED BY <1>1, <2>1 DEF TypeOK
<1>5. PlaceOK'
  BY <1>1, <1>2, <1>3 DEF PlaceOK, InTransfer
<1>6. LocksOK'
  <2>1. \A u \in Threads, o \in Modules : Holds(u, o)' <=> Holds(u, o)
    BY <1>1, <1>2, <1>3 DEF Holds
  <2> QED BY <1>1, <2>1 DEF LocksOK
<1>7. SweepsOK'
  BY <1>1 DEF SweepsOK
<1>8. BandOK'
  BY <1>1, <1>2 DEF BandOK
<1>9. SettledAboveBand'
  <2>1. \A o \in Modules : HasUnsettled(o) => HasUnsettled(o)'
    BY <1>1, <1>2, <1>3 DEF HasUnsettled
  <2> QED BY <1>1, <2>1 DEF SettledAboveBand, NzElements
<1> QED BY <1>4, <1>5, <1>6, <1>7, <1>8, <1>9

\* What elementary confabulation leaves in a module was in it before.
LEMMA ContractedFacts ==
  ASSUME NEW e \in Vectors
  PROVE  LET w == ElementaryConfabulation(e)
         IN  /\ Contracted(w) \in Vectors
             /\ w.symbol \in Symbols \cup {Dummy}
             /\ \A s \in NzElements(Contracted(w)) :
                  s \in NzElements(e) /\ Contracted(w)[s] = e[s]
<1> DEFINE w == ElementaryConfabulation(e)
<1>1. CASE w = [symbol |-> Dummy, excitation |-> 0]
  <2>1. Contracted(w) = ZeroVector /\ w.symbol = Dummy
    BY <1>1 DEF Contracted
  <2> QED BY <2>1, VectorTypes DEF NzElements, ZeroVector
<1>2. CASE w.symbol \in NzElements(e) /\ w.excitation = e[w.symbol]
  <2> HIDE DEF w
  <2>1. w.symbol \in Symbols /\ w.symbol # Dummy /\ w.excitation \in Nat
    BY <1>2, ExcitationAssumption DEF NzElements, Symbols, Dummy, Vectors
  <2>2. Contracted(w) = SingleElement(w.symbol, w.excitation)
    BY <2>1 DEF Contracted
  <2>3. \A s \in Symbols : Contracted(w)[s] = IF s = w.symbol THEN w.excitation ELSE 0
    BY <2>1, <2>2 DEF SingleElement, ZeroVector
  <2>4. \A s \in NzElements(Contracted(w)) : s = w.symbol
    BY <2>3 DEF NzElements
  <2>5. Contracted(w) \in Vectors
    BY <2>1, <2>2, VectorTypes
  <2> QED BY <1>2, <2>1, <2>3, <2>4, <2>5 DEF w
<1> QED BY <1>1, <1>2, ElementaryAnswer

LEMMA JoinStep ==
  ASSUME IInv, ~aborted, JoinAndAnswer
  PROVE  IInv'
<1> USE DEF IInv
<1> DEFINE word == ElementaryConfabulation(exc[Index])
           phrase == ElementaryConfabulation(exc[Phrase(Index)])
<1>1. /\ main = "join" /\ main' = "done"
      /\ answer' = BestOf(word, phrase)
      /\ exc' = [exc EXCEPT ![Index] = Contracted(word),
                            ![Phrase(Index)] = Contracted(phrase)]
      /\ UNCHANGED <<level, owner, aborted, pc, seg, at, tighten, found,
                     cur, prev, sweeps>>
  BY DEF JoinAndAnswer, place, sizes
<1>2. /\ Index \in Modules /\ Phrase(Index) \in Modules /\ Index # Phrase(Index)
      /\ exc[Index] \in Vectors /\ exc[Phrase(Index)] \in Vectors
  BY Bounds DEF Modules, Phrase, TypeOK
<1>3. /\ Contracted(word) \in Vectors /\ word.symbol \in Symbols \cup {Dummy}
      /\ \A s \in NzElements(Contracted(word)) :
           s \in NzElements(exc[Index]) /\ Contracted(word)[s] = exc[Index][s]
  BY <1>2, ContractedFacts
<1>4. /\ Contracted(phrase) \in Vectors /\ phrase.symbol \in Symbols \cup {Dummy}
      /\ \A s \in NzElements(Contracted(phrase)) :
           /\ s \in NzElements(exc[Phrase(Index)])
           /\ Contracted(phrase)[s] = exc[Phrase(Index)][s]
  BY <1>2, ContractedFacts
<1> HIDE DEF word, phrase
<1>5. TypeOK'
  <2>1. exc' \in [Modules -> Vectors]
    BY <1>1, <1>2, <1>3, <1>4 DEF TypeOK
  <2>2. answer' \in [kind : {"none", "word", "phrase"}, symbol : Symbols \cup {Dummy}]
    BY <1>1, <1>3, <1>4 DEF BestOf
  <2> QED BY <1>1, <2>1, <2>2 DEF TypeOK
<1>6. \A u \in Threads : /\ Instr(u)' = Instr(u) /\ To(u)' = To(u)
                         /\ Lower(u)' = Lower(u) /\ Upper(u)' = Upper(u)
  BY <1>1, SameInstr
<1>7. PlaceOK'
  BY <1>1, <1>6 DEF PlaceOK
<1>8. LocksOK'
  <2>1. \A u \in Threads, o \in Modules : Holds(u, o)' <=> Holds(u, o)
    BY <1>1, <1>6 DEF Holds
  <2> QED BY <1>1, <2>1 DEF LocksOK
<1>9. SweepsOK'
  BY <1>1 DEF SweepsOK
<1>10. BandOK'
  BY <1>1 DEF BandOK
<1>11. SettledAboveBand'
  <2>1. \A m \in Modules : HasUnsettled(m)' <=> HasUnsettled(m)
    BY <1>1, <1>6 DEF HasUnsettled
  <2>2. ASSUME NEW m \in Modules, NEW s \in NzElements(exc'[m])
        PROVE  s \in NzElements(exc[m]) /\ exc'[m][s] = exc[m][s]
    <3>1. /\ exc'[Index] = Contracted(word)
          /\ exc'[Phrase(Index)] = Contracted(phrase)
          /\ m \notin {Index, Phrase(Index)} => exc'[m] = exc[m]
      BY <1>1, <1>2 DEF TypeOK
    <3>2. CASE m = Index
      BY <1>3, <2>2, <3>1, <3>2
    <3>3. CASE m = Phrase(Index)
      BY <1>4, <2>2, <3>1, <3>3
    <3>4. CASE m \notin {Index, Phrase(Index)}
      BY <2>2, <3>1, <3>4
    <3> QED BY <3>2, <3>3, <3>4
  <2> QED BY <1>1, <2>1, <2>2 DEF SettledAboveBand, NzElements
<1> QED BY <1>5, <1>7, <1>8, <1>9, <1>10, <1>11

-----------------------------------------------------------------------------
(***************************************************************************)
(* The invariant is inductive.                                             *)
(***************************************************************************)
\* It holds initially: every module is settled at level 0, and nobody holds a
\* mutex.
LEMMA InitIInv == Init => IInv
<1> SUFFICES ASSUME Init PROVE IInv
  OBVIOUS
<1>0. /\ 0 \in 0 .. LastSegment /\ Dummy \in Symbols \cup {Dummy}
      /\ 1 \in Nat \ {0} /\ 0 \in {0, 1} /\ 0 \in Nat
  BY Bounds
<1> USE DEF Init, Clean
<1>1. TypeOK
  <2>1. exc \in [Modules -> Vectors] /\ level \in [Modules -> Nat]
    BY DataAssumption
  <2>2. answer \in [kind : {"none", "word", "phrase"}, symbol : Symbols \cup {Dummy}]
    BY <1>0 DEF NoAnswer
  <2>3. /\ seg \in [Threads -> 0 .. LastSegment] /\ at \in [Threads -> Nat \ {0}]
        /\ tighten \in [Threads -> {0, 1}]
    BY <1>0
  <2>4. pc \in [Threads -> {"idle", "source", "lock1", "lock2", "transfer", "unlock1",
                           "unlock2", "target", "word", "phrase", "done"}]
    OBVIOUS
  <2>5. owner \in [Modules -> Threads \cup {Free}]
    OBVIOUS
  <2>6. /\ found \in [Threads -> Nat] /\ cur \in [Threads -> Nat]
        /\ prev \in [Threads -> Nat] /\ sweeps \in [Threads -> Nat]
    OBVIOUS
  <2>7. /\ main \in {"initialize", "spawn", "join", "done"}
        /\ aborted \in BOOLEAN
    OBVIOUS
  <2> USE DEF TypeOK
  <2> HIDE DEF Init, Clean
  <2> QED BY <2>1, <2>2, <2>3, <2>4, <2>5, <2>6, <2>7
<1>2. PlaceOK
  <2>1. Len(Program[0]) \in Nat \ {0}
    BY SoundProgram, Bounds
  <2> QED BY <2>1 DEF PlaceOK, InTransfer
<1>3. LocksOK
  BY SwirlAssumption DEF LocksOK, Holds
<1>4. SweepsOK
  BY ExcitationAssumption DEF SweepsOK
<1>5. BandOK
  BY DEF BandOK
<1>6. SettledAboveBand
  <2>1. \A m \in Modules : level[m] * BandGap = 0
    BY ExcitationAssumption
  <2>2. \A m \in Modules : \A s \in NzElements(exc[m]) : exc[m][s] >= 0
    BY DataAssumption DEF NzElements, Vectors
  <2> QED BY <2>1, <2>2 DEF SettledAboveBand
<1> QED BY <1>1, <1>2, <1>3, <1>4, <1>5, <1>6 DEF IInv

\* Stuttering, in full.
LEMMA StutterStep ==
  ASSUME IInv, UNCHANGED vars
  PROVE  IInv'
<1> USE DEF IInv, vars
<1>1. \A u \in Threads : /\ Instr(u)' = Instr(u) /\ To(u)' = To(u)
                         /\ Lower(u)' = Lower(u) /\ Upper(u)' = Upper(u)
  BY SameInstr
<1>2. TypeOK'
  BY DEF TypeOK
<1>3. PlaceOK'
  BY <1>1 DEF PlaceOK
<1>4. LocksOK'
  BY <1>1 DEF LocksOK, Holds
<1>5. SweepsOK'
  BY DEF SweepsOK
<1>6. BandOK'
  BY DEF BandOK
<1>7. SettledAboveBand'
  BY <1>1 DEF SettledAboveBand, HasUnsettled, NzElements
<1> QED BY <1>2, <1>3, <1>4, <1>5, <1>6, <1>7

LEMMA NextIInv == IInv /\ [Next]_vars => IInv'
<1> SUFFICES ASSUME IInv, [Next]_vars PROVE IInv'
  OBVIOUS
<1>1. CASE UNCHANGED vars
  BY <1>1, StutterStep
<1>2. CASE Stopped
  BY <1>2, StutterStep DEF Stopped
<1>3. CASE ~aborted /\ MainStep
  <2>1. CASE InitializationAtIndex
    BY <1>3, <2>1, InitializationStep
  <2>2. CASE \E t \in Threads : Spawn(t)
    BY <1>3, <2>2, SpawnStep
  <2>3. CASE JoinAndAnswer
    BY <1>3, <2>3, JoinStep
  <2> QED BY <1>3, <2>1, <2>2, <2>3 DEF MainStep
<1>4. CASE ~aborted /\ \E t \in Threads : ThreadStep(t)
  <2>1. PICK t \in Threads : ThreadStep(t)
    BY <1>4
  <2>2. CASE Source(t)
    BY <1>4, <2>2, SourceStep
  <2>3. CASE Lock1(t) \/ Lock2(t)
    BY <1>4, <2>3, LockStep
  <2>4. CASE Transfer(t)
    BY <1>4, <2>4, TransferStep
  <2>5. CASE Unlock1(t) \/ Unlock2(t)
    BY <1>4, <2>5, UnlockStep
  <2>6. CASE Target(t)
    BY <1>4, <2>6, TargetStep
  <2>7. CASE Word(t)
    BY <1>4, <2>7, WordStep
  <2>8. CASE PhraseInside(t)
    BY <1>4, <2>8, PhraseInsideStep
  <2>9. CASE PhraseAtEnd(t)
    BY <1>4, <2>9, PhraseAtEndStep
  <2> QED BY <2>1, <2>2, <2>3, <2>4, <2>5, <2>6, <2>7, <2>8, <2>9 DEF ThreadStep
<1> QED BY <1>1, <1>2, <1>3, <1>4 DEF Next

\* The inductive invariant holds in every reachable state.
THEOREM Invariance == Spec => []IInv
BY InitIInv, NextIInv, PTL DEF Spec

-----------------------------------------------------------------------------
(***************************************************************************)
(* What follows from it.                                                   *)
(***************************************************************************)
\* Every variable of a round keeps its type, in every interleaving of any
\* number of threads.
THEOREM TypeCorrect == Spec => []TypeOK
<1>1. IInv => TypeOK
  BY DEF IInv
<1> QED BY <1>1, Invariance, PTL

\* The band discipline of Module: outside the window between a transfer and the
\* tightening that follows it, no symbol below the level's band survives.
THEOREM BandDiscipline == Spec => []SettledAboveBand
<1>1. IInv => SettledAboveBand
  BY DEF IInv
<1> QED BY <1>1, Invariance, PTL

\* FullSwirlOverMultipleIndices enters its do-while at most 2 * NumSymbols + 1
\* times, whatever the other threads do to the two modules it samples.
THEOREM SweepBound == Spec => []SweepsBounded
<1>1. IInv => SweepsBounded
  BY DEF IInv, SweepsOK, SweepsBounded
<1> QED BY <1>1, Invariance, PTL

\* TransferExcitation never meets a null knowledge base, whatever the number of
\* words, the frame size and the index to complete.
THEOREM KnowledgeBases == Spec => []KnowledgeBaseExists
<1>1. IInv => KnowledgeBaseExists
  <2> SUFFICES ASSUME IInv, NEW t \in Threads, pc[t] = "transfer"
               PROVE  HasKb(From(t), To(t))
    BY DEF KnowledgeBaseExists
  <2>1. Instr(t).op = "transfer"
    BY DEF IInv, PlaceOK, InTransfer
  <2>2. Instr(t) \in Sound
    BY InstrFacts DEF IInv
  <2> QED BY <2>1, <2>2 DEF Sound, From, To
<1> QED BY <1>1, Invariance, PTL

\* The body of TransferExcitation runs with both mutexes held by its thread, and
\* a mutex is only held inside it.
THEOREM ExclusiveTransfer == Spec => []TransferIsExclusive
<1>1. IInv => TransferIsExclusive
  <2> SUFFICES ASSUME IInv PROVE TransferIsExclusive
    OBVIOUS
  <2>1. ASSUME NEW t \in Threads, pc[t] = "transfer"
        PROVE  owner[From(t)] = t /\ owner[To(t)] = t
    <3>1. /\ Holds(t, Lower(t)) /\ Holds(t, Upper(t))
          /\ Lower(t) \in Modules /\ Upper(t) \in Modules
          /\ {Lower(t), Upper(t)} = {From(t), To(t)}
      BY <2>1, InstrFacts DEF IInv, Holds
    <3> QED BY <3>1 DEF IInv, LocksOK
  <2>2. ASSUME NEW m \in Modules, owner[m] # Free
        PROVE  pc[owner[m]] \in {"lock2", "transfer", "unlock1", "unlock2"}
    <3>1. owner[m] \in Threads
      BY <2>2 DEF IInv, TypeOK
    <3>2. Holds(owner[m], m)
      BY <3>1 DEF IInv, LocksOK
    <3> QED BY <3>2 DEF Holds
  <2> QED BY <2>1, <2>2 DEF TransferIsExclusive
<1> QED BY <1>1, Invariance, PTL

-----------------------------------------------------------------------------
(***************************************************************************)
(* No deadlock among the threads.  A thread that is waited for holds a     *)
(* mutex; if it waits itself, it has the lower of its two modules and      *)
(* waits for the upper one.  So along a chain of waiting threads the       *)
(* module that is waited for gets strictly higher, and the thread that     *)
(* waits for the highest one waits for nobody in the group.                *)
(***************************************************************************)
\* The module a waiting thread needs.
Awaited(t) == CHOOSE m \in Modules : Needs(t, m)

LEMMA NeedsOne ==
  ASSUME IInv, NEW t \in Threads, NEW m \in Modules, Needs(t, m)
  PROVE  Awaited(t) = m
<1>1. Lower(t) # Upper(t)
  BY InstrFacts, Bounds DEF IInv, Modules
<1>2. \A o \in Modules : Needs(t, o) => o = m
  BY DEF Needs
<1> QED BY <1>2 DEF Awaited

LEMMA WaitingRises ==
  ASSUME IInv, NEW t \in Threads, NEW u \in Threads, NEW v \in Threads,
         WaitsFor(t, u), WaitsFor(u, v)
  PROVE  /\ Awaited(t) \in Modules /\ Awaited(u) \in Modules
         /\ Awaited(t) < Awaited(u)
<1>1. PICK m \in Modules : Needs(t, m) /\ owner[m] = u
  BY DEF WaitsFor
<1>2. PICK o \in Modules : Needs(u, o) /\ owner[o] = v
  BY DEF WaitsFor
<1>3. Holds(u, m)
  BY <1>1 DEF IInv, LocksOK
<1>4. pc[u] = "lock2" /\ m = Lower(u) /\ o = Upper(u)
  BY <1>2, <1>3 DEF Holds, Needs
<1>5. m < o
  BY <1>4, InstrFacts DEF IInv
<1> QED BY <1>1, <1>2, <1>5, NeedsOne

\* TransferExcitation takes its two mutexes in the order of the module ids, and
\* every other critical section takes one: no set of threads can wait only for
\* each other.
THEOREM NoDeadlock == Spec => []NoWaitCycle
<1>1. IInv => NoWaitCycle
  <2> SUFFICES ASSUME IInv, NEW S \in SUBSET Threads, S # {},
                      \A t \in S : \E u \in S : WaitsFor(t, u)
               PROVE  FALSE
    BY DEF NoWaitCycle
  <2>1. \A t \in S : Awaited(t) \in Modules
    <3> SUFFICES ASSUME NEW t \in S PROVE Awaited(t) \in Modules
      OBVIOUS
    <3>1. PICK u \in S : WaitsFor(t, u)
      OBVIOUS
    <3>2. PICK v \in S : WaitsFor(u, v)
      OBVIOUS
    <3> QED BY <3>1, <3>2, WaitingRises
  <2> DEFINE Above == {n \in Nat : \E t \in S : n = 2 * N - Awaited(t)}
  <2>2. Above \in SUBSET Nat /\ Above # {}
    <3>1. PICK t \in S : TRUE
      OBVIOUS
    <3>2. 2 * N - Awaited(t) \in Nat
      BY <2>1, Bounds DEF Modules
    <3> QED BY <3>2
  <2> HIDE DEF Above
  <2>3. PICK n \in Above : \A k \in Above : n <= k
    BY <2>2, LeastNatural
  <2>4. PICK t \in S : n = 2 * N - Awaited(t)
    BY <2>3 DEF Above
  <2>5. PICK u \in S : WaitsFor(t, u)
    OBVIOUS
  <2>6. PICK v \in S : WaitsFor(u, v)
    OBVIOUS
  <2>7. Awaited(t) < Awaited(u) /\ Awaited(t) \in Modules /\ Awaited(u) \in Modules
    BY <2>5, <2>6, WaitingRises
  <2>8. 2 * N - Awaited(u) \in Nat /\ 2 * N - Awaited(u) < n
    BY <2>4, <2>7, Bounds DEF Modules
  <2>9. 2 * N - Awaited(u) \in Above
    BY <2>8 DEF Above
  <2> QED BY <2>3, <2>7, <2>8, <2>9, <2>4, Bounds DEF Modules
<1> QED BY <1>1, Invariance, PTL

-----------------------------------------------------------------------------
(***************************************************************************)
(* A round keeps its promise to the caller.                                *)
(***************************************************************************)
\* Nothing is answered before the threads are joined.
Unanswered == main # "done" => answer = NoAnswer

\* A thread's step is none of the caller's business.
LEMMA CallerKept ==
  ASSUME NEW t \in Threads, ThreadStep(t)
  PROVE  main' = main /\ answer' = answer
BY DEF ThreadStep, Source, Lock1, Lock2, Acquire, Transfer, Unlock1, Unlock2, Release,
       Target, Word, PhraseInside, PhraseAtEnd, caller

LEMMA UnansweredKept == Unanswered /\ [Next]_vars => Unanswered'
<1> SUFFICES ASSUME Unanswered, [Next]_vars PROVE Unanswered'
  OBVIOUS
<1>1. CASE UNCHANGED vars
  BY <1>1 DEF vars, Unanswered, NoAnswer
<1>2. CASE Stopped
  BY <1>2 DEF Stopped, vars, Unanswered, NoAnswer
<1>3. CASE MainStep
  BY <1>3 DEF MainStep, InitializationAtIndex, Spawn, JoinAndAnswer, Unanswered, NoAnswer
<1>4. CASE \E t \in Threads : ThreadStep(t)
  BY <1>4, CallerKept DEF Unanswered, NoAnswer
<1> QED BY <1>1, <1>2, <1>3, <1>4 DEF Next

\* The answer of the join is a word with a symbol, or a phrase.
LEMMA JoinAnswers ==
  ASSUME IInv, Unanswered, JoinAndAnswer
  PROVE  R!Next
<1> DEFINE word == ElementaryConfabulation(exc[Index])
           phrase == ElementaryConfabulation(exc[Phrase(Index)])
<1>1. exc[Index] \in Vectors /\ exc[Phrase(Index)] \in Vectors
  BY Bounds DEF Modules, Phrase, IInv, TypeOK
<1>2. /\ main = "join" /\ main' = "done"
      /\ answer' = BestOf(word, phrase)
  BY DEF JoinAndAnswer
<1>3. /\ word.symbol \in Symbols \/ word = [symbol |-> Dummy, excitation |-> 0]
      /\ phrase.symbol \in Symbols \cup {Dummy}
      /\ phrase.excitation \in Nat
  <2>1. ASSUME NEW e \in Vectors
        PROVE  LET w == ElementaryConfabulation(e)
               IN  /\ w.symbol \in Symbols \/ w = [symbol |-> Dummy, excitation |-> 0]
                   /\ w.excitation \in Nat
    BY ElementaryAnswer DEF NzElements, Vectors
  <2> QED BY <1>1, <2>1
<1> HIDE DEF word, phrase
<1>4. Stage = "running" /\ Stage' = "answered"
  <2>1. answer'.kind # "none"
    BY <1>2 DEF BestOf
  <2> QED BY <1>2, <2>1 DEF Stage, NoAnswer
<1>5. CASE word.excitation > phrase.excitation
  <2>1. word.symbol \in Symbols
    BY <1>3, <1>5
  <2>2. R!AnswerWord(word.symbol)
    BY <1>2, <1>4, <1>5 DEF BestOf, R!AnswerWord
  <2> QED BY <2>1, <2>2 DEF R!Next
<1>6. CASE ~(word.excitation > phrase.excitation)
  <2>1. R!AnswerPhrase(phrase.symbol)
    BY <1>2, <1>4, <1>6 DEF BestOf, R!AnswerPhrase
  <2> QED BY <1>3, <2>1 DEF R!Next
<1> QED BY <1>5, <1>6

\* Every step of a round is a step of Round or changes nothing the caller sees.
LEMMA RoundStep ==
  ASSUME IInv, Unanswered, [Next]_vars
  PROVE  [R!Next]_(R!vars)
<1>1. CASE main' = main /\ answer' = answer
  BY <1>1 DEF R!vars, Stage, NoAnswer
<1>2. CASE InitializationAtIndex
  <2>1. CASE main' = "done"
    BY <1>2, <2>1 DEF InitializationAtIndex, Unanswered, Stage, NoAnswer, R!Next, R!Fail
  <2>2. CASE main' = "spawn"
    BY <1>2, <2>2 DEF InitializationAtIndex, Stage, NoAnswer, R!vars
  <2> QED BY <1>2, <2>1, <2>2 DEF InitializationAtIndex
<1>3. CASE \E t \in Threads : Spawn(t)
  BY <1>3 DEF Spawn, Stage, NoAnswer, R!vars
<1>4. CASE JoinAndAnswer
  BY <1>4, JoinAnswers
<1>5. CASE UNCHANGED vars \/ Stopped
  BY <1>1, <1>5 DEF Stopped, vars
<1>6. CASE \E t \in Threads : ThreadStep(t)
  BY <1>1, <1>6, CallerKept
<1> QED BY <1>2, <1>3, <1>4, <1>5, <1>6 DEF Next, MainStep

\* A round fails or answers once, and never answers the dummy as a word: the
\* threads, their locks and their number do not show.
THEOREM RoundRefined == Spec => RefinesRound
<1>1. Init => R!Init
  BY DEF Init, R!Init, Stage, NoAnswer
<1>2. Init => Unanswered
  BY DEF Init, Unanswered
<1>3. Spec => []Unanswered
  BY <1>2, UnansweredKept, PTL DEF Spec
<1>4. IInv /\ Unanswered /\ [Next]_vars => [R!Next]_(R!vars)
  BY RoundStep
<1> QED BY <1>1, <1>3, <1>4, Invariance, PTL DEF Spec, RefinesRound, R!Spec

-----------------------------------------------------------------------------
(***************************************************************************)
(* What an exception takes.  A sweep has no more than MostTightenings      *)
(* transfers into a module: PlaceOf numbers them.                          *)
(***************************************************************************)
MostTightenings == IF Span < 3 THEN 3 ELSE Span

PlaceOf(m, j) ==
  LET word == m < N
      c    == IF word THEN m - Index + 1 ELSE m - N - Index + 1
  IN  IF j = 1 THEN <<c, IF word THEN 1 ELSE 3>>
      ELSE IF j = 2 THEN (IF word THEN <<c, 4>> ELSE <<c - 1, 6>>)
      ELSE IF word /\ c # 1 THEN <<c - 1, 2>>
      ELSE <<Span + j - 2, IF word THEN 2 ELSE 1>>

\* A sequence with one element behind it.
LEMMA OneBehind ==
  ASSUME NEW S, NEW s \in Seq(S), NEW t \in Seq(S), Len(t) = 1
  PROVE  /\ s \o t \in Seq(S) /\ Len(s \o t) = Len(s) + 1
         /\ \A j \in 1 .. Len(s) : (s \o t)[j] = s[j]
         /\ (s \o t)[Len(s) + 1] = t[1]
<1>0. Len(s) \in Nat
  BY LenProperties
<1>1. /\ s \o t \in Seq(S) /\ Len(s \o t) = Len(s) + 1
      /\ \A j \in 1 .. (Len(s) + 1) :
           (s \o t)[j] = IF j <= Len(s) THEN s[j] ELSE t[j - Len(s)]
  <2>1. /\ s \o t \in Seq(S) /\ Len(s \o t) = Len(s) + Len(t)
        /\ \A j \in 1 .. (Len(s) + Len(t)) :
             (s \o t)[j] = IF j <= Len(s) THEN s[j] ELSE t[j - Len(s)]
    BY ConcatProperties
  <2> QED BY <2>1, Zenon
<1>2. Len(s) + 1 \in 1 .. (Len(s) + 1) /\ ~(Len(s) + 1 <= Len(s)) /\ (Len(s) + 1) - Len(s) = 1
  BY <1>0
<1>3. (s \o t)[Len(s) + 1] = t[1]
  BY <1>1, <1>2
<1>4. \A j \in 1 .. Len(s) : (s \o t)[j] = s[j]
  BY <1>0, <1>1
<1> QED BY <1>1, <1>3, <1>4

\* A sequence with one element before it.
LEMMA OneBefore ==
  ASSUME NEW S, NEW s \in Seq(S), NEW t \in Seq(S), Len(t) = 1
  PROVE  /\ t \o s \in Seq(S) /\ Len(t \o s) = Len(s) + 1
         /\ \A j \in 1 .. Len(s) : (t \o s)[j + 1] = s[j]
         /\ (t \o s)[1] = t[1]
<1>0. Len(s) \in Nat
  BY LenProperties
<1>1. /\ t \o s \in Seq(S) /\ Len(t \o s) = Len(t) + Len(s)
      /\ \A j \in 1 .. (Len(t) + Len(s)) :
           (t \o s)[j] = IF j <= Len(t) THEN t[j] ELSE s[j - Len(t)]
  BY ConcatProperties
<1>2. /\ Len(t \o s) = 1 + Len(s)
      /\ \A j \in 1 .. (1 + Len(s)) : (t \o s)[j] = IF j <= 1 THEN t[j] ELSE s[j - 1]
  BY <1>1, Zenon
<1>3. \A j \in 1 .. Len(s) : j + 1 \in 1 .. (1 + Len(s)) /\ ~(j + 1 <= 1) /\ (j + 1) - 1 = j
  BY <1>0
<1>4. \A j \in 1 .. Len(s) : (t \o s)[j + 1] = s[j]
  BY <1>2, <1>3
<1>5. (t \o s)[1] = t[1]
  BY <1>0, <1>2
<1> QED BY <1>0, <1>1, <1>2, <1>4, <1>5

\* The transfers of a basic transition, and of the segments that follow the last.
LEMMA SwirlShape ==
  ASSUME NEW i \in Nat, NEW last \in Seq(Instructions), Len(last) = 1,
         NEW k \in 1 .. Len(BasicSwirlAtIndex(i) \o last)
  PROVE  LET x == (BasicSwirlAtIndex(i) \o last)[k]
         IN  \/ k = 1 /\ x.to = i
             \/ k = 2 /\ x.to = i + 1 /\ i + 1 < N
             \/ k = 3 /\ x.to = Phrase(i)
             \/ k = 4 /\ x.to = i
             \/ x.op = "excited"
             \/ k = (IF i + 1 < N THEN 6 ELSE 3) /\ x = last[1]
<1> DEFINE T(a, b) == [op |-> "transfer", from |-> a, to |-> b]
           e == [op |-> "excited", from |-> i, to |-> Phrase(i)]
           S == {T(Phrase(i), i), T(i, i + 1), T(i + 1, Phrase(i)), T(i + 1, i), e, last[1]}
           first == TransferAndTightenAtIndex(Phrase(i), i)
           a == TransferAndTightenAtIndex(i, i + 1)
           b == TransferAndTightenAtIndex(i + 1, Phrase(i))
           c == TransferAndTightenAtIndex(i + 1, i)
           excited == ExcitedSymbolsAtIndex(i)
           middle == IF i + 1 < N THEN a \o b \o c ELSE <<>>
<1>1. /\ first \in Seq(S) /\ Len(first) = 1 /\ first[1].to = i
      /\ a \in Seq(S) /\ Len(a) = 1 /\ a[1].to = i + 1
      /\ b \in Seq(S) /\ Len(b) = 1 /\ b[1].to = Phrase(i)
      /\ c \in Seq(S) /\ Len(c) = 1 /\ c[1].to = i
      /\ excited \in Seq(S) /\ Len(excited) = 1 /\ excited[1].op = "excited"
  BY DEF TransferAndTightenAtIndex, ExcitedSymbolsAtIndex
<1>2. last \in Seq(S)
  <2>1. last = [j \in 1 .. 1 |-> last[j]] /\ \A j \in 1 .. 1 : last[j] \in S
    OBVIOUS
  <2> HIDE DEF S
  <2> QED BY <2>1
<1>3. BasicSwirlAtIndex(i) = first \o middle \o excited
  BY DEF BasicSwirlAtIndex
<1> HIDE DEF T, e, S, first, a, b, c, excited
<1>4. /\ middle \in Seq(S) /\ Len(middle) = (IF i + 1 < N THEN 3 ELSE 0)
      /\ Len(middle) = 3 => /\ middle[1].to = i + 1 /\ middle[2].to = Phrase(i)
                            /\ middle[3].to = i
  <2>1. CASE i + 1 < N
    <3>1. /\ a \o b \in Seq(S) /\ Len(a \o b) = 2
          /\ (a \o b)[1] = a[1] /\ (a \o b)[2] = b[1]
      <4>1. /\ a \o b \in Seq(S) /\ Len(a \o b) = Len(a) + 1
            /\ \A j \in 1 .. Len(a) : (a \o b)[j] = a[j]
            /\ (a \o b)[Len(a) + 1] = b[1]
        BY <1>1, OneBehind
      <4> QED BY <1>1, <4>1
    <3> DEFINE ab == a \o b
    <3> HIDE DEF ab
    <3>2. /\ ab \o c \in Seq(S) /\ Len(ab \o c) = 3
          /\ (ab \o c)[1] = ab[1] /\ (ab \o c)[2] = ab[2] /\ (ab \o c)[3] = c[1]
      <4>1. ab \in Seq(S) /\ Len(ab) = 2
        BY <3>1 DEF ab
      <4>2. /\ ab \o c \in Seq(S) /\ Len(ab \o c) = Len(ab) + 1
            /\ \A j \in 1 .. Len(ab) : (ab \o c)[j] = ab[j]
            /\ (ab \o c)[Len(ab) + 1] = c[1]
        <5>1. c \in Seq(S) /\ Len(c) = 1
          BY <1>1
        <5> QED BY <4>1, <5>1, OneBehind
      <4> QED BY <4>1, <4>2
    <3>3. middle = ab \o c
      BY <2>1 DEF ab
    <3> QED BY <1>1, <3>1, <3>2, <3>3 DEF ab
  <2>2. CASE ~(i + 1 < N)
    BY <2>2, EmptySeq
  <2> QED BY <2>1, <2>2
<1> HIDE DEF middle
<1> DEFINE fm == first \o middle
           fme == fm \o excited
           all == fme \o last
<1>5. /\ fm \in Seq(S) /\ Len(fm) = 1 + Len(middle) /\ fm[1] = first[1]
      /\ \A j \in 1 .. Len(middle) : fm[j + 1] = middle[j]
  <2>1. /\ fm \in Seq(S) /\ Len(fm) = Len(middle) + 1 /\ fm[1] = first[1]
        /\ \A j \in 1 .. Len(middle) : fm[j + 1] = middle[j]
    <3>1. first \in Seq(S) /\ Len(first) = 1 /\ middle \in Seq(S)
      BY <1>1, <1>4
    <3> QED BY <3>1, OneBefore DEF fm
  <2>2. Len(middle) \in Nat
    BY <1>4, LenProperties
  <2>3. Len(middle) + 1 = 1 + Len(middle)
    BY <2>2
  <2> QED BY <2>1, <2>3, Zenon
<1> HIDE DEF fm
<1>6. /\ fme \in Seq(S) /\ Len(fme) = 2 + Len(middle)
      /\ \A j \in 1 .. Len(fm) : fme[j] = fm[j]
      /\ fme[Len(fm) + 1] = excited[1]
  <2>1. /\ fme \in Seq(S) /\ Len(fme) = Len(fm) + 1
        /\ \A j \in 1 .. Len(fm) : fme[j] = fm[j]
        /\ fme[Len(fm) + 1] = excited[1]
    <3>1. excited \in Seq(S) /\ Len(excited) = 1 /\ fm \in Seq(S)
      BY <1>1, <1>5
    <3> QED BY <3>1, OneBehind, Zenon DEF fme
  <2>2. Len(middle) \in Nat /\ Len(fm) = 1 + Len(middle)
    BY <1>4, <1>5, LenProperties, Zenon
  <2>3. Len(fm) + 1 = 2 + Len(middle)
    BY <2>2
  <2> QED BY <2>1, <2>3, Zenon
<1> HIDE DEF fme
<1>7. /\ Len(all) = 3 + Len(middle)
      /\ \A j \in 1 .. Len(fme) : all[j] = fme[j]
      /\ all[Len(fme) + 1] = last[1]
  <2>1. /\ Len(all) = Len(fme) + 1
        /\ \A j \in 1 .. Len(fme) : all[j] = fme[j]
        /\ all[Len(fme) + 1] = last[1]
    <3>1. last \in Seq(S) /\ Len(last) = 1 /\ fme \in Seq(S)
      BY <1>2, <1>6
    <3> QED BY <3>1, OneBehind, Zenon DEF all
  <2>2. Len(middle) \in Nat /\ Len(fme) = 2 + Len(middle)
    BY <1>4, <1>6, LenProperties, Zenon
  <2>3. Len(fme) + 1 = 3 + Len(middle)
    BY <2>2
  <2> QED BY <2>1, <2>3, Zenon
<1>8. all = BasicSwirlAtIndex(i) \o last
  BY <1>3 DEF fm, fme
<1> HIDE DEF all
<1>9. k \in 1 .. Len(all)
  BY <1>8
<1>10. CASE Len(middle) = 3
  <2>1. /\ fm[1].to = i /\ fm[2].to = i + 1 /\ fm[3].to = Phrase(i) /\ fm[4].to = i
        /\ Len(fm) = 4
    <3>1. /\ 1 \in 1 .. Len(middle) /\ 2 \in 1 .. Len(middle) /\ 3 \in 1 .. Len(middle)
      BY <1>10
    <3>2. fm[1 + 1] = middle[1] /\ fm[2 + 1] = middle[2] /\ fm[3 + 1] = middle[3]
      BY <1>5, <3>1
    <3> QED BY <1>1, <1>4, <1>5, <1>10, <3>2
  <2>2. /\ fme[1] = fm[1] /\ fme[2] = fm[2] /\ fme[3] = fm[3] /\ fme[4] = fm[4]
        /\ fme[5].op = "excited" /\ Len(fme) = 5
    BY <1>1, <1>6, <1>10, <2>1
  <2>3. /\ all[1] = fme[1] /\ all[2] = fme[2] /\ all[3] = fme[3] /\ all[4] = fme[4]
        /\ all[5] = fme[5] /\ all[6] = last[1] /\ Len(all) = 6
    BY <1>7, <1>10, <2>2
  <2>4. k \in {1, 2, 3, 4, 5, 6}
    BY <1>9, <2>3
  <2> QED BY <1>4, <1>10, <1>8, <2>1, <2>2, <2>3, <2>4
<1>11. CASE Len(middle) = 0
  <2>1. fm[1].to = i /\ Len(fm) = 1
    BY <1>1, <1>5, <1>11
  <2>2. fme[1] = fm[1] /\ fme[2].op = "excited" /\ Len(fme) = 2
    BY <1>1, <1>6, <1>11, <2>1
  <2>3. /\ all[1] = fme[1] /\ all[2] = fme[2] /\ all[3] = last[1] /\ Len(all) = 3
    BY <1>7, <1>11, <2>2
  <2>4. k \in {1, 2, 3}
    BY <1>9, <2>3
  <2> QED BY <1>4, <1>11, <1>8, <2>1, <2>2, <2>3, <2>4
<1> QED BY <1>4, <1>10, <1>11

\* PlaceOf numbers every transfer of a basic transition for its target.
LEMMA TransitionPlace ==
  ASSUME NEW n \in 1 .. Span, NEW k \in 1 .. Len(Program[n]),
         Program[n][k].op = "transfer"
  PROVE  \E j \in 1 .. 3 : <<n, k>> = PlaceOf(Program[n][k].to, j)
<1> DEFINE i == Index + n - 1
           to == Program[n][k].to
<1>1. /\ i \in Nat /\ i + 1 <= N /\ n \in Nat /\ n # 0 /\ n # LastSegment
      /\ i - Index + 1 = n /\ N + i - N - Index + 1 = n
      /\ (i + 1) - Index + 1 - 1 = n /\ (N + i + 1) - N - Index + 1 - 1 = n
      /\ N \in Nat /\ Index \in Nat
  BY Bounds
<1>2. Segment(n) = BasicTransitionOverMultipleIndices(n) /\ Program[n] = Segment(n)
  BY <1>1, Bounds DEF Segment, Program
<1>3. PICK last \in Seq(Instructions) :
        /\ Len(last) = 1 /\ Program[n] = BasicSwirlAtIndex(i) \o last
        /\ last[1].op = "transfer" => last[1].to = Phrase(i) + 1 /\ i + 1 < N
  <2>1. CASE n < Span
    <3>1. i + 1 < N /\ i \in Modules /\ Phrase(i) + 1 \in Modules
      BY <1>1, <2>1, Bounds DEF Modules, Phrase
    <3>2. [op |-> "transfer", from |-> i, to |-> Phrase(i) + 1] \in Instructions
      BY <3>1 DEF Instructions
    <3>3. Program[n] = BasicSwirlAtIndex(i) \o TransferAndTightenAtIndex(i, Phrase(i) + 1)
      BY <1>2, <2>1 DEF BasicTransitionOverMultipleIndices, BasicTransitionAtIndex
    <3> HIDE DEF i
    <3>4. /\ TransferAndTightenAtIndex(i, Phrase(i) + 1) \in Seq(Instructions)
          /\ Len(TransferAndTightenAtIndex(i, Phrase(i) + 1)) = 1
          /\ TransferAndTightenAtIndex(i, Phrase(i) + 1)[1].to = Phrase(i) + 1
      BY <3>2 DEF TransferAndTightenAtIndex
    <3> QED BY <3>1, <3>3, <3>4
  <2>2. CASE ~(n < Span)
    <3>1. Program[n] = BasicSwirlAtIndex(i) \o ExcitedSymbolsAtIndex(Index)
      BY <1>2, <2>2 DEF BasicTransitionOverMultipleIndices
    <3>2. [op |-> "excited", from |-> Index, to |-> Phrase(Index)] \in Instructions
      BY Bounds DEF Instructions, Modules, Phrase
    <3>3. /\ ExcitedSymbolsAtIndex(Index) \in Seq(Instructions)
          /\ Len(ExcitedSymbolsAtIndex(Index)) = 1
          /\ ExcitedSymbolsAtIndex(Index)[1].op = "excited"
      BY <3>2 DEF ExcitedSymbolsAtIndex
    <3> HIDE DEF i
    <3> QED BY <3>1, <3>3
  <2> QED BY <2>1, <2>2
<1> HIDE DEF i
<1>4. k \in 1 .. Len(BasicSwirlAtIndex(i) \o last)
  BY <1>3
<1>5. \/ k = 1 /\ to = i
      \/ k = 2 /\ to = i + 1 /\ i + 1 < N
      \/ k = 3 /\ to = Phrase(i)
      \/ k = 4 /\ to = i
      \/ k = 6 /\ to = Phrase(i) + 1
  <2>1. \/ k = 1 /\ to = i
        \/ k = 2 /\ to = i + 1 /\ i + 1 < N
        \/ k = 3 /\ to = Phrase(i)
        \/ k = 4 /\ to = i
        \/ Program[n][k].op = "excited"
        \/ k = (IF i + 1 < N THEN 6 ELSE 3) /\ Program[n][k] = last[1]
    <3>1. i \in Nat /\ Len(last) = 1 /\ Program[n] = BasicSwirlAtIndex(i) \o last
      BY <1>1, <1>3
    <3> QED BY <1>4, <3>1, SwirlShape
  <2> QED BY <1>3, <2>1
<1> HIDE DEF to
<1>6. i < N
  BY <1>1
<1>7. CASE k = 1 /\ to = i
  <2>1. PlaceOf(to, 1) = <<n, k>>
    BY <1>1, <1>6, <1>7 DEF PlaceOf
  <2> QED BY <2>1 DEF to
<1>8. CASE k = 2 /\ to = i + 1 /\ i + 1 < N
  <2>1. PlaceOf(to, 3) = <<n, k>>
    BY <1>1, <1>8 DEF PlaceOf
  <2> QED BY <2>1 DEF to
<1>9. CASE k = 3 /\ to = Phrase(i)
  <2>1. PlaceOf(to, 1) = <<n, k>>
    BY <1>1, <1>9 DEF PlaceOf, Phrase
  <2> QED BY <2>1 DEF to
<1>10. CASE k = 4 /\ to = i
  <2>1. PlaceOf(to, 2) = <<n, k>>
    BY <1>1, <1>6, <1>10 DEF PlaceOf
  <2> QED BY <2>1 DEF to
<1>11. CASE k = 6 /\ to = Phrase(i) + 1
  <2>1. PlaceOf(to, 2) = <<n, k>>
    BY <1>1, <1>11 DEF PlaceOf, Phrase
  <2> QED BY <2>1 DEF to
<1> QED BY <1>5, <1>7, <1>8, <1>9, <1>10, <1>11

\* PlaceOf numbers every transfer of a cursor of the inner loop.
LEMMA CloserPlace ==
  ASSUME NEW n \in (Span + 1) .. (LastSegment - 1), NEW k \in 1 .. Len(Program[n])
  PROVE  \E j \in 1 .. MostTightenings : <<n, k>> = PlaceOf(Program[n][k].to, j)
<1> DEFINE i == Index + n - Span + 1
           a == TransferAndTightenAtIndex(i, Phrase(Index))
           b == TransferAndTightenAtIndex(i, Index)
           S == {[op |-> "transfer", from |-> i, to |-> Phrase(Index)],
                 [op |-> "transfer", from |-> i, to |-> Index]}
<1>1. /\ n \in Nat /\ n # 0 /\ ~(n <= Span) /\ n # LastSegment
      /\ n + 2 - Span \in 1 .. MostTightenings /\ n + 2 - Span >= 3
      /\ Span + (n + 2 - Span) - 2 = n
  BY Bounds DEF LastSegment, MostTightenings
<1>2. Program[n] = a \o b
  BY <1>1, Bounds DEF Program, Segment
<1>3. /\ a \in Seq(S) /\ Len(a) = 1 /\ a[1].to = Phrase(Index)
      /\ b \in Seq(S) /\ Len(b) = 1 /\ b[1].to = Index
  BY DEF TransferAndTightenAtIndex
<1> HIDE DEF a, b, S
<1>4. /\ Len(a \o b) = Len(a) + 1 /\ \A j \in 1 .. Len(a) : (a \o b)[j] = a[j]
      /\ (a \o b)[Len(a) + 1] = b[1]
  BY <1>3, OneBehind
<1>5. \/ k = 1 /\ Program[n][k].to = Phrase(Index)
      \/ k = 2 /\ Program[n][k].to = Index
  <2>1. k \in {1, 2} /\ (a \o b)[1] = a[1] /\ (a \o b)[2] = b[1]
    BY <1>2, <1>3, <1>4
  <2> QED BY <1>2, <1>3, <2>1
<1>6. /\ Index < N /\ Index \in Nat /\ N \in Nat /\ Index - Index + 1 = 1
      /\ ~(Phrase(Index) < N)
  BY Bounds DEF Phrase
<1>7. PlaceOf(Phrase(Index), n + 2 - Span) = <<n, 1>>
  BY <1>1, <1>6 DEF PlaceOf
<1>8. PlaceOf(Index, n + 2 - Span) = <<n, 2>>
  BY <1>1, <1>6 DEF PlaceOf
<1> QED BY <1>1, <1>5, <1>7, <1>8

\* The elements of TransfersInto(m) are the places of the transfers into m.
LEMMA TransferPlaces ==
  \A m, p :
    p \in TransfersInto(m) <=>
      \E n \in 1 .. LastSegment : \E k \in 1 .. Len(Program[n]) :
        /\ p = <<n, k>>
        /\ Program[n][k].op = "transfer"
        /\ Program[n][k].to = m
BY DEF TransfersInto

\* In a sweep no module is the target of more than MostTightenings transfers.
LEMMA FewTransfers ==
  ASSUME NEW m
  PROVE  /\ MostTightenings \in Nat
         /\ \A T \in SUBSET TransfersInto(m) :
              IsFiniteSet(T) /\ Cardinality(T) \in 0 .. MostTightenings
<1> DEFINE spotOf == [j \in 1 .. MostTightenings |-> PlaceOf(m, j)]
           Places == {spotOf[j] : j \in 1 .. MostTightenings}
<1>1. MostTightenings \in Nat /\ MostTightenings >= 3
  BY Bounds DEF MostTightenings
<1>2. ASSUME NEW p \in TransfersInto(m) PROVE p \in Places
  <2>1. PICK n \in 1 .. LastSegment : \E k \in 1 .. Len(Program[n]) :
          p = <<n, k>> /\ Program[n][k].op = "transfer" /\ Program[n][k].to = m
    BY TransferPlaces
  <2>2. PICK k \in 1 .. Len(Program[n]) :
          p = <<n, k>> /\ Program[n][k].op = "transfer" /\ Program[n][k].to = m
    BY <2>1
  <2>3. n # LastSegment
    BY <2>2, SoundProgram, Bounds
  <2>4. \E j \in 1 .. MostTightenings : <<n, k>> = PlaceOf(m, j)
    <3>1. CASE n <= Span
      <4>1. n \in 1 .. Span
        BY <3>1, Bounds
      <4>2. \E j \in 1 .. 3 : <<n, k>> = PlaceOf(Program[n][k].to, j)
        BY <2>2, <4>1, TransitionPlace
      <4> QED BY <1>1, <2>2, <4>2
    <3>2. CASE ~(n <= Span)
      <4>1. n \in (Span + 1) .. (LastSegment - 1)
        BY <2>3, <3>2, Bounds
      <4> QED BY <2>2, <4>1, CloserPlace
    <3> QED BY <3>1, <3>2
  <2> QED BY <2>2, <2>4
<1>3. IsFiniteSet(Places) /\ Cardinality(Places) <= MostTightenings
  <2>1. spotOf \in Surjection(1 .. MostTightenings, Places)
    BY DEF Surjection
  <2>2. IsFiniteSet(1 .. MostTightenings) /\ Cardinality(1 .. MostTightenings) = MostTightenings
    BY <1>1, FS_Interval
  <2> HIDE DEF spotOf, Places
  <2> QED BY <2>1, <2>2, FS_Surjection
<1> HIDE DEF Places
<1>4. ASSUME NEW T \in SUBSET TransfersInto(m)
      PROVE  IsFiniteSet(T) /\ Cardinality(T) \in 0 .. MostTightenings
  <2>1. T \in SUBSET Places
    BY <1>2
  <2>2. IsFiniteSet(T) /\ Cardinality(T) <= Cardinality(Places)
    BY <1>3, <2>1, FS_Subset
  <2>3. Cardinality(T) \in Nat /\ Cardinality(Places) \in Nat
    BY <1>3, <2>2, FS_CardinalityType
  <2> QED BY <1>1, <1>3, <2>2, <2>3
<1> QED BY <1>1, <1>4

-----------------------------------------------------------------------------
(***************************************************************************)
(* LevelsPaid is inductive together with two facts: a thread that is in    *)
(* none of its sweeps has finished none, and an exception leaves a level   *)
(* of 128 behind.                                                          *)
(***************************************************************************)
PaidOK ==
  /\ \A t \in Threads : seg[t] = 0 <=> sweeps[t] = 0
  /\ LevelsPaid
  /\ aborted => \E m \in Modules : level[m] >= 128

\* What is behind a thread, and what it pays for.
LEMMA BehindFacts ==
  \A n, k, m :
    /\ Cardinality(TransfersInto(m)) \in Nat
    /\ IsFiniteSet(Behind(n, k, m))
    /\ Cardinality(Behind(n, k, m)) \in 0 .. Cardinality(TransfersInto(m))
<1> SUFFICES ASSUME NEW n, NEW k, NEW m
             PROVE  /\ Cardinality(TransfersInto(m)) \in Nat
                    /\ IsFiniteSet(Behind(n, k, m))
                    /\ Cardinality(Behind(n, k, m)) \in 0 .. Cardinality(TransfersInto(m))
  OBVIOUS
<1> DEFINE T == TransfersInto(m)
           B == Behind(n, k, m)
<1>1. IsFiniteSet(T)
  BY FewTransfers
<1>2. B \subseteq T
  BY DEF Behind
<1> HIDE DEF T, B
<1>3. IsFiniteSet(B) /\ Cardinality(B) <= Cardinality(T)
  BY <1>1, <1>2, FS_Subset
<1>4. Cardinality(T) \in Nat /\ Cardinality(B) \in Nat
  BY <1>1, <1>3, FS_CardinalityType
<1>5. Cardinality(B) \in 0 .. Cardinality(T)
  BY <1>3, <1>4
<1> QED BY <1>3, <1>4, <1>5 DEF T, B

LEMMA DueFacts ==
  ASSUME NEW s \in Nat, NEW n, NEW k, NEW m
  PROVE  /\ Due(s, n, k, m) \in Nat
         /\ s # 0 \/ n = 0 => Due(s, n, k, m) <= Cardinality(TransfersInto(m)) * s
         /\ s # 0 => Cardinality(TransfersInto(m)) * s <= Due(s + 1, n, k, m)
<1> DEFINE M == Cardinality(TransfersInto(m))
           c == Cardinality(Behind(n, k, m))
<1>1. M \in Nat /\ c \in 0 .. M
  BY BehindFacts
<1>2. Due(s, n, k, m) = (IF s = 0 THEN 0 ELSE (s - 1) * M) + c
  BY DEF Due
<1>3. s # 0 => Due(s + 1, n, k, m) = s * M + c
  <2>1. s + 1 # 0 /\ (s + 1) - 1 = s
    OBVIOUS
  <2> QED BY <2>1 DEF Due
<1>4. n = 0 => c = 0
  <2>1. ASSUME NEW p \in TransfersInto(m) PROVE p[1] \in Nat /\ p[1] >= 1
    BY <2>1, TransferPlaces, Bounds
  <2>2. n = 0 => Behind(n, k, m) = {}
    BY <2>1 DEF Behind
  <2> QED BY <2>2, FS_EmptySet
<1> HIDE DEF M, c
<1>5. s # 0 => (s - 1) * M \in Nat /\ (s - 1) * M = M * s - M
  BY <1>1
<1>6. M * s \in Nat /\ s * M = M * s /\ (s = 0 => M * s = 0)
  BY <1>1
<1>7. Due(s, n, k, m) \in Nat
  BY <1>1, <1>2, <1>5
<1>8. s # 0 \/ n = 0 => Due(s, n, k, m) <= M * s
  BY <1>1, <1>2, <1>4, <1>5, <1>6
<1>9. s # 0 => M * s <= Due(s + 1, n, k, m)
  BY <1>1, <1>3, <1>6
<1> QED BY <1>7, <1>8, <1>9 DEF M

\* With the next instruction there is no less behind, and the transfer that
\* was the last one is.
LEMMA BehindGrows ==
  ASSUME NEW n \in 1 .. LastSegment, NEW k \in 1 .. Len(Program[n]), NEW m,
         NEW l, NEW j, (l = n /\ j = k + 1) \/ (l = n + 1 /\ j = 1),
         NEW d \in {0, 1},
         d = 1 => Program[n][k].op = "transfer" /\ Program[n][k].to = m
  PROVE  Cardinality(Behind(n, k, m)) + d <= Cardinality(Behind(l, j, m))
<1> DEFINE A == Behind(n, k, m)
           B == Behind(l, j, m)
<1>0. n \in Nat /\ k \in Nat
  OBVIOUS
<1>1. A \subseteq B
  <2>1. ASSUME NEW p \in A PROVE p \in B
    <3>1. p \in TransfersInto(m) /\ (p[1] < n \/ (p[1] = n /\ p[2] < k))
      BY DEF Behind
    <3>2. p[1] \in Nat /\ p[2] \in Nat
      BY <3>1, TransferPlaces, Bounds
    <3> QED BY <1>0, <3>1, <3>2 DEF Behind
  <2> QED BY <2>1
<1>2. IsFiniteSet(A) /\ IsFiniteSet(B) /\ Cardinality(A) \in Nat /\ Cardinality(B) \in Nat
  BY BehindFacts, FS_CardinalityType
<1>3. CASE d = 0
  <2> HIDE DEF A, B
  <2>1. Cardinality(A) <= Cardinality(B)
    BY <1>1, <1>2, FS_Subset
  <2> QED BY <1>2, <1>3, <2>1 DEF A, B
<1>4. CASE d = 1
  <2> DEFINE p == <<n, k>>
  <2>1. p \in TransfersInto(m)
    BY <1>4, TransferPlaces
  <2>2. p \in B /\ p \notin A
    BY <1>0, <2>1 DEF Behind
  <2> HIDE DEF A, B, p
  <2>3. IsFiniteSet(A \cup {p}) /\ Cardinality(A \cup {p}) = Cardinality(A) + 1
    BY <1>2, <2>2, FS_AddElement
  <2>4. Cardinality(A \cup {p}) <= Cardinality(B)
    BY <1>1, <1>2, <2>2, FS_Subset
  <2> QED BY <1>2, <1>4, <2>3, <2>4 DEF A, B
<1> QED BY <1>3, <1>4

\* What TighteningPartialConfabulation does to the levels, and when it throws.
LEMMA TightenLevels ==
  ASSUME TypeOK, BandOK, ~aborted, NEW m \in Modules, NEW n \in {0, 1},
         TighteningPartialConfabulation(m, n)
  PROVE  /\ \A o \in Modules : level'[o] = IF o = m THEN level[o] + n ELSE level[o]
         /\ aborted' => level'[m] >= 128
<1>1. level[m] \in 0 .. 127 /\ level \in [Modules -> Nat]
  <2>1. level \in [Modules -> Nat]
    BY DEF TypeOK
  <2>2. level[m] \in Nat /\ level[m] <= 127
    BY <2>1 DEF BandOK
  <2> QED BY <2>1, <2>2
<1>2. level' = [level EXCEPT ![m] = level[m] + n] /\ aborted' = (Int8(level[m] + n) < 0)
  BY DEF TighteningPartialConfabulation
<1>3. level'[m] = level[m] + n /\ level[m] + n \in 0 .. 128
  BY <1>1, <1>2
<1>4. ASSUME aborted' PROVE level'[m] >= 128
  <2>1. Int8(level[m] + n) < 0
    BY <1>2, <1>4
  <2> QED BY <1>1, <1>3, <2>1 DEF Int8
<1>5. \A o \in Modules : level'[o] = IF o = m THEN level[o] + n ELSE level[o]
  BY <1>1, <1>2
<1> QED BY <1>4, <1>5

\* A step of thread t that tightens m by n at most is paid for if what t has paid
\* for m grows by as much.
LEMMA StepPaid ==
  ASSUME TypeOK, TypeOK', PaidOK, NEW t \in Threads, NEW m \in Modules, NEW n \in {0, 1},
         \A o \in Modules : level'[o] = IF o = m THEN level[o] + n ELSE level[o],
         aborted' => level'[m] >= 128,
         \A u \in Threads \ {t} : seg'[u] = seg[u] /\ at'[u] = at[u] /\ sweeps'[u] = sweeps[u],
         seg'[t] = 0 <=> sweeps'[t] = 0,
         \A o \in Modules : Paid(t, o) + (IF o = m THEN n ELSE 0) <= Paid(t, o)'
  PROVE  PaidOK'
<1>1. \A u \in Threads : seg'[u] = 0 <=> sweeps'[u] = 0
  BY DEF PaidOK
<1>2. ASSUME NEW o \in Modules
      PROVE  level'[o] <= SumFunctionOnSet(Payments(o)', Threads)
  <2> DEFINE d == IF o = m THEN n ELSE 0
             f == Payments(o)
             e == Payments(o)'
  <2>1. ASSUME NEW u \in Threads
        PROVE  /\ f[u] = Paid(u, o) /\ e[u] = Paid(u, o)'
               /\ Paid(u, o) \in Nat /\ Paid(u, o)' \in Nat
               /\ u # t => Paid(u, o)' = Paid(u, o)
    <3>1. f[u] = Paid(u, o) /\ e[u] = Paid(u, o)'
      BY DEF Payments, Paid
    <3>2. Paid(u, o) \in Nat
      BY DueFacts DEF Paid, TypeOK
    <3>3. Paid(u, o)' \in Nat
      <4>1. sweeps'[u] \in Nat
        BY DEF TypeOK
      <4> QED BY <4>1, DueFacts DEF Paid
    <3>4. u # t => Paid(u, o)' = Paid(u, o)
      BY DEF Paid
    <3> QED BY <3>1, <3>2, <3>3, <3>4
  <2>2. d \in Nat /\ d \in {0, 1} /\ IsFiniteSet(Threads)
    BY SwirlAssumption
  <2>3. Paid(t, o) + d <= Paid(t, o)'
    OBVIOUS
  <2> HIDE DEF f, e, d
  <2>4. /\ \A u \in Threads : f[u] \in Nat /\ e[u] \in Nat /\ f[u] <= e[u]
        /\ f[t] + d <= e[t]
    BY <2>1, <2>2, <2>3
  <2>5. /\ SumFunctionOnSet(f, Threads) \in Nat /\ SumFunctionOnSet(e, Threads) \in Nat
        /\ SumFunctionOnSet(f, Threads) + d <= SumFunctionOnSet(e, Threads)
    BY <2>2, <2>4, SumRaised
  <2>6. level[o] \in Nat /\ level[o] <= SumFunctionOnSet(f, Threads)
    BY DEF PaidOK, LevelsPaid, TypeOK, f
  <2>7. level'[o] = level[o] + d
    BY <2>6 DEF d
  <2>8. level'[o] <= SumFunctionOnSet(e, Threads)
    BY <2>2, <2>5, <2>6, <2>7
  <2> QED BY <2>8 DEF e
<1>3. aborted' => \E o \in Modules : level'[o] >= 128
  OBVIOUS
<1> QED BY <1>1, <1>2, <1>3 DEF PaidOK, LevelsPaid

\* What stays paid when neither the levels nor the places change.
LEMMA NothingToPay ==
  ASSUME PaidOK, UNCHANGED <<level, aborted, seg, at, sweeps>>
  PROVE  PaidOK'
<1>1. \A m \in Modules : Payments(m)' = Payments(m)
  BY DEF Payments, Paid
<1> QED BY <1>1 DEF PaidOK, LevelsPaid

\* A thread that goes on to its next instruction has paid for the tightening of
\* the one behind it.
LEMMA AdvancePaid ==
  ASSUME IInv, IInv', PaidOK, ~aborted, NEW t \in Threads, NEW n \in {0, 1},
         seg[t] \in 1 .. (LastSegment - 1), n = 1 => Instr(t).op = "transfer",
         TighteningPartialConfabulation(To(t), n), Advance(t), UNCHANGED sweeps
  PROVE  PaidOK'
<1> USE DEF IInv
<1> DEFINE m == To(t)
<1>1. m \in Modules
  BY InstrFacts
<1>2. /\ \A o \in Modules : level'[o] = IF o = m THEN level[o] + n ELSE level[o]
      /\ aborted' => level'[m] >= 128
  BY <1>1, TightenLevels
<1>3. /\ seg[t] \in 1 .. LastSegment /\ seg[t] \in Nat /\ seg[t] + 1 # 0
      /\ at[t] \in 1 .. Len(Program[seg[t]])
  BY Bounds DEF PlaceOK
<1>4. PICK l, j : GoTo(t, l, j) /\ ((l = seg[t] /\ j = at[t] + 1) \/ (l = seg[t] + 1 /\ j = 1))
  BY DEF Advance
<1>5. /\ \A u \in Threads \ {t} : seg'[u] = seg[u] /\ at'[u] = at[u] /\ sweeps'[u] = sweeps[u]
      /\ seg'[t] = l /\ at'[t] = j
  BY <1>4 DEF GoTo, TypeOK
<1>6. l # 0 /\ seg[t] # 0
  BY <1>3, <1>4
<1>7. seg'[t] = 0 <=> sweeps'[t] = 0
  BY <1>5, <1>6 DEF PaidOK
<1>8. ASSUME NEW o \in Modules PROVE Paid(t, o) + (IF o = m THEN n ELSE 0) <= Paid(t, o)'
  <2> DEFINE d == IF o = m THEN n ELSE 0
             a == Cardinality(Behind(seg[t], at[t], o))
             b == Cardinality(Behind(l, j, o))
             M == Cardinality(TransfersInto(o))
             s == IF sweeps[t] = 0 THEN 0 ELSE (sweeps[t] - 1) * M
  <2>1. d \in {0, 1} /\ (d = 1 => Program[seg[t]][at[t]].op = "transfer"
                                  /\ Program[seg[t]][at[t]].to = o)
    BY DEF Instr, To
  <2> HIDE DEF d
  <2>2. a + d <= b
    BY <1>3, <1>4, <2>1, BehindGrows
  <2>3. Paid(t, o) = s + a /\ Paid(t, o)' = s + b
    BY <1>5 DEF Paid, Due
  <2>4. s \in Nat /\ a \in Nat /\ b \in Nat
    <3>1. sweeps[t] \in Nat
      BY DEF TypeOK
    <3>2. M \in Nat
      BY BehindFacts
    <3>3. a \in Nat /\ b \in Nat
      BY BehindFacts, FS_CardinalityType
    <3>4. sweeps[t] # 0 => (sweeps[t] - 1) * M \in Nat
      BY <3>1, <3>2
    <3> QED BY <3>3, <3>4
  <2> HIDE DEF a, b, s
  <2>5. Paid(t, o) + d <= Paid(t, o)'
    BY <2>1, <2>2, <2>3, <2>4
  <2> QED BY <2>5 DEF d
<1> HIDE DEF m
<1> QED BY <1>1, <1>2, <1>5, <1>7, <1>8, StepPaid

\* A tightening by 0 throws nothing and costs nothing.
LEMMA LookPaid ==
  ASSUME IInv, PaidOK, ~aborted, NEW m \in Modules,
         TighteningPartialConfabulation(m, 0), UNCHANGED <<seg, at, sweeps>>
  PROVE  PaidOK'
<1> USE DEF IInv
<1>1. level \in [Modules -> Nat] /\ level' \in [Modules -> Nat]
  BY TightenFacts DEF TypeOK
<1>2. /\ \A o \in Modules : level'[o] = IF o = m THEN level[o] + 0 ELSE level[o]
      /\ aborted' => level'[m] >= 128
  BY TightenLevels
<1>3. \A o \in Modules : level'[o] = level[o]
  BY <1>1, <1>2
<1>4. \A o \in Modules : Payments(o)' = Payments(o)
  BY DEF Payments, Paid
<1> QED BY <1>2, <1>3, <1>4 DEF PaidOK, LevelsPaid

\* The end of a sweep: what was behind the thread is paid for by the sweep.
LEMMA SweepPaid ==
  ASSUME IInv, IInv', PaidOK, ~aborted, NEW t \in Threads, PhraseAtEnd(t)
  PROVE  PaidOK'
<1> USE DEF IInv
<1>1. To(t) \in Modules /\ TighteningPartialConfabulation(To(t), 0)
  BY InstrFacts DEF PhraseAtEnd
<1>2. CASE UNCHANGED <<seg, at, sweeps>>
  BY <1>1, <1>2, LookPaid
<1>3. CASE sweeps' = [sweeps EXCEPT ![t] = @ + 1] /\ GoTo(t, 1, 1)
  <2>1. /\ \A u \in Threads \ {t} : seg'[u] = seg[u] /\ at'[u] = at[u] /\ sweeps'[u] = sweeps[u]
        /\ seg'[t] = 1 /\ at'[t] = 1 /\ sweeps'[t] = sweeps[t] + 1
        /\ sweeps[t] \in Nat
    BY <1>3 DEF GoTo, TypeOK
  <2>2. seg'[t] = 0 <=> sweeps'[t] = 0
    BY <2>1
  <2>3. /\ \A o \in Modules : level'[o] = IF o = To(t) THEN level[o] + 0 ELSE level[o]
        /\ aborted' => level'[To(t)] >= 128
    BY <1>1, TightenLevels
  <2>4. ASSUME NEW o \in Modules
        PROVE  Paid(t, o) + (IF o = To(t) THEN 0 ELSE 0) <= Paid(t, o)'
    <3> DEFINE M == Cardinality(TransfersInto(o))
               s == sweeps[t]
               p == Due(s, seg[t], at[t], o)
               q == Due(s + 1, 1, 1, o)
    <3>1. Paid(t, o) = p /\ Paid(t, o)' = q
      BY <2>1 DEF Paid
    <3>2. p \in Nat /\ q \in Nat
      BY <2>1, DueFacts
    <3>3. seg[t] = 0 <=> s = 0
      BY DEF PaidOK
    <3>4. p <= M * s
      BY <2>1, <3>3, DueFacts
    <3>5. s # 0 => M * s <= q
      BY <2>1, DueFacts
    <3>6. M * s \in Nat /\ (s = 0 => M * s = 0)
      <4>1. M \in Nat
        BY BehindFacts
      <4> QED BY <2>1, <4>1
    <3> HIDE DEF M, s, p, q
    <3> QED BY <3>1, <3>2, <3>4, <3>5, <3>6
  <2> QED BY <1>1, <2>1, <2>2, <2>3, <2>4, StepPaid
<1> QED BY <1>2, <1>3 DEF PhraseAtEnd, place

LEMMA InitPaid == Init => PaidOK
<1> SUFFICES ASSUME Init PROVE PaidOK
  OBVIOUS
<1>1. \A t \in Threads : seg[t] = 0 /\ sweeps[t] = 0
  BY DEF Init
<1>2. ASSUME NEW m \in Modules PROVE level[m] <= SumFunctionOnSet(Payments(m), Threads)
  <2>1. \A t \in Threads : Payments(m)[t] \in Nat
    BY <1>1, DueFacts DEF Payments, Paid
  <2>2. SumFunctionOnSet(Payments(m), Threads) \in Nat
    BY <2>1, SumFacts, SwirlAssumption
  <2>3. level[m] = 0
    BY DEF Init, Clean
  <2> QED BY <2>2, <2>3
<1> QED BY <1>1, <1>2 DEF Init, PaidOK, LevelsPaid

LEMMA NextPaid == IInv /\ IInv' /\ PaidOK /\ [Next]_vars => PaidOK'
<1> SUFFICES ASSUME IInv, IInv', PaidOK, [Next]_vars PROVE PaidOK'
  OBVIOUS
<1>1. CASE UNCHANGED vars \/ Stopped
  BY <1>1, NothingToPay DEF vars, Stopped
<1>2. CASE MainStep
  <2>1. UNCHANGED <<level, aborted, seg, at, sweeps>>
    BY <1>2 DEF MainStep, InitializationAtIndex, Spawn, JoinAndAnswer, place, sizes, shared
  <2> QED BY <2>1, NothingToPay
<1>3. CASE ~aborted /\ \E t \in Threads : ThreadStep(t)
  <2>1. PICK t \in Threads : ThreadStep(t)
    BY <1>3
  <2>2. From(t) \in Modules /\ To(t) \in Modules /\ seg[t] \in 0 .. LastSegment
    BY InstrFacts DEF IInv, TypeOK
  <2>3. CASE Source(t) \/ Word(t)
    <3>1. TighteningPartialConfabulation(From(t), 0) /\ UNCHANGED <<seg, at, sweeps>>
      BY <2>3 DEF Source, Word, place, sizes
    <3> QED BY <1>3, <2>2, <3>1, LookPaid
  <2>4. CASE Lock1(t) \/ Lock2(t) \/ Transfer(t) \/ Unlock1(t) \/ Unlock2(t)
    <3>1. UNCHANGED <<level, aborted, seg, at, sweeps>>
      BY <2>4, Zenon DEF Lock1, Lock2, Transfer, Unlock1, Unlock2, Acquire, Release, place, sizes
    <3> QED BY <3>1, NothingToPay
  <2>5. CASE Target(t)
    <3>1. Instr(t).op = "transfer" /\ tighten[t] \in {0, 1}
      BY <2>5 DEF Target, IInv, PlaceOK, InTransfer, TypeOK
    <3>2. seg[t] \in 1 .. (LastSegment - 1)
      BY <3>1, TransferInside DEF IInv
    <3>3. TighteningPartialConfabulation(To(t), tighten[t]) /\ Advance(t) /\ UNCHANGED sweeps
      BY <2>5 DEF Target, sizes
    <3> QED BY <1>3, <3>1, <3>2, <3>3, AdvancePaid
  <2>6. CASE PhraseInside(t)
    <3>1. seg[t] \in 1 .. (LastSegment - 1)
      BY <2>2, <2>6, Bounds DEF PhraseInside, EndOfSweep
    <3>2. TighteningPartialConfabulation(To(t), 0) /\ Advance(t) /\ UNCHANGED sweeps
      BY <2>6 DEF PhraseInside, sizes
    <3> QED BY <1>3, <3>1, <3>2, AdvancePaid
  <2>7. CASE PhraseAtEnd(t)
    BY <1>3, <2>7, SweepPaid
  <2> QED BY <2>1, <2>3, <2>4, <2>5, <2>6, <2>7 DEF ThreadStep
<1> QED BY <1>1, <1>2, <1>3 DEF Next

\* An exception takes 128 tightenings of one module, and they take sweeps.
LEMMA ThrowTakesSweeps ==
  ASSUME IInv, PaidOK, aborted
  PROVE  128 <= MostTightenings * SumFunctionOnSet(sweeps, Threads)
<1> USE DEF IInv
<1>1. PICK m \in Modules : level[m] >= 128
  BY DEF PaidOK
<1> DEFINE f == Payments(m)
           sum == SumFunctionOnSet(f, Threads)
           all == MostTightenings * SumFunctionOnSet(sweeps, Threads)
<1>2. ASSUME NEW t \in Threads
      PROVE  f[t] \in Nat /\ sweeps[t] \in Nat /\ f[t] <= MostTightenings * sweeps[t]
  <2>1. sweeps[t] \in Nat
    BY DEF TypeOK
  <2> DEFINE T == Cardinality(TransfersInto(m))
             M == MostTightenings
             s == sweeps[t]
  <2>2. sweeps[t] # 0 \/ seg[t] = 0
    BY DEF PaidOK
  <2>3. f[t] \in Nat /\ f[t] <= T * s
    BY <2>1, <2>2, DueFacts DEF Payments, Paid
  <2>4. T \in 0 .. M /\ M \in Nat
    BY FewTransfers
  <2> HIDE DEF f, T, M, s
  <2>5. s \in Nat
    BY <2>1 DEF s
  <2>6. T * s \in Nat /\ (M - T) * s \in Nat /\ M * s = T * s + (M - T) * s
    BY <2>4, <2>5
  <2> DEFINE x == T * s
             y == (M - T) * s
             z == M * s
  <2>7. x \in Nat /\ y \in Nat /\ z = x + y /\ f[t] \in Nat /\ f[t] <= x
    BY <2>3, <2>6
  <2> HIDE DEF x, y, z
  <2>8. f[t] <= z
    BY <2>7
  <2> QED BY <2>1, <2>3, <2>8 DEF M, s, z
<1>3. MostTightenings \in Nat /\ IsFiniteSet(Threads)
  BY FewTransfers, SwirlAssumption
<1> HIDE DEF f
<1>4. sum <= all
  BY <1>2, <1>3, SumScaled
<1>5. sum \in Nat /\ SumFunctionOnSet(sweeps, Threads) \in Nat
  BY <1>2, <1>3, SumFacts
<1>6. all \in Nat
  BY <1>3, <1>5
<1>7. level[m] \in Nat /\ level[m] <= sum
  BY DEF PaidOK, LevelsPaid, TypeOK, f
<1> HIDE DEF sum, all
<1>8. 128 <= all
  BY <1>1, <1>4, <1>5, <1>6, <1>7
<1> QED BY <1>8 DEF all

\* The levels are paid for in every reachable state, and only a level of 128
\* throws.
LEMMA PaidInvariant == Spec => []PaidOK
<1>1. IInv /\ PaidOK /\ [Next]_vars => PaidOK'
  BY NextIInv, NextPaid
<1> QED BY <1>1, InitPaid, Invariance, PTL DEF Spec

\* A level is never above the number of transfers into its module that the
\* threads have made together, for any number of threads, links and inputs.
THEOREM LevelsArePaid == Spec => []LevelsPaid
<1>1. PaidOK => LevelsPaid
  BY DEF PaidOK
<1> QED BY <1>1, PaidInvariant, PTL

\* A thread throws only behind 128 tightenings of one module: with spans of up to
\* four words, the threads have entered the do-while 32 times together.
THEOREM ThrowsTakeSweeps ==
  Spec => [](aborted => MostTightenings * SumFunctionOnSet(sweeps, Threads) >= 128)
<1>1. IInv /\ PaidOK =>
        (aborted => MostTightenings * SumFunctionOnSet(sweeps, Threads) >= 128)
  <2> SUFFICES ASSUME IInv, PaidOK, aborted
               PROVE  MostTightenings * SumFunctionOnSet(sweeps, Threads) >= 128
    OBVIOUS
  <2> DEFINE all == MostTightenings * SumFunctionOnSet(sweeps, Threads)
  <2>1. 128 <= all
    BY ThrowTakesSweeps
  <2>2. all >= 128
    BY <2>1
  <2> QED BY <2>2
<1> QED BY <1>1, PaidInvariant, Invariance, PTL
=============================================================================
