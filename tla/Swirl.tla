------------------------------- MODULE Swirl --------------------------------
(***************************************************************************)
(* One round of TwoLevelMultiConfabulation::Confabulation at one index:    *)
(* InitializationAtIndex, the threads that each run                        *)
(* FullSwirlOverMultipleIndices, their join, and the elementary            *)
(* confabulation that gives the round's answer.                            *)
(*                                                                         *)
(* The threads share the word modules 0 .. N-1 and the phrase modules      *)
(* N .. 2N-1.  Each module has a mutex, an excitation vector and a         *)
(* tightening level; the knowledge bases are only read.  A critical        *)
(* section that takes one mutex is one step.  A transfer takes two, and    *)
(* each lock, the transfer and each unlock is a step of its own.           *)
(***************************************************************************)
EXTENDS Architecture, Excitation, Sequences

CONSTANTS Index,    \* the index to complete in this round
          Threads,  \* threads_; with one, the single-threaded mode
          Free,     \* the owner of a mutex nobody holds
          Inputs,   \* excitations Activate can leave, per module
          Link      \* Link[i, j][t][s]: strength from s in i to t in j

ASSUME SwirlAssumption ==
  /\ NumWordModules \in Nat /\ NumWordModules >= 3
  /\ MaxMultiWordSize \in Nat /\ MaxMultiWordSize >= 2
  /\ ReferenceFrameSize \in Nat \ {0}
  /\ Index \in 1 .. (NumWordModules - 1)
  /\ Threads # {} /\ IsFiniteSet(Threads)
  /\ Free \notin Threads

ASSUME DataAssumption ==
  /\ \A input \in Inputs : input \in [Modules -> Vectors]
  /\ Link \in [Modules \X Modules -> [Symbols -> Vectors]]

-----------------------------------------------------------------------------
(***************************************************************************)
(* What a thread runs.  An instruction is one TransferAndTightenAtIndex    *)
(* (from one module to another) or one ExcitedSymbolsAtIndex (a word       *)
(* module, then its phrase module).                                        *)
(***************************************************************************)
Instructions == [op : {"transfer", "excited"}, from : Modules, to : Modules]

TransferAndTightenAtIndex(i, j) == <<[op |-> "transfer", from |-> i, to |-> j]>>
ExcitedSymbolsAtIndex(i) == <<[op |-> "excited", from |-> i, to |-> Phrase(i)]>>

BasicSwirlAtIndex(i) ==
  TransferAndTightenAtIndex(Phrase(i), i)
  \o (IF i + 1 < N
      THEN TransferAndTightenAtIndex(i, i + 1)
           \o TransferAndTightenAtIndex(i + 1, Phrase(i))
           \o TransferAndTightenAtIndex(i + 1, i)
      ELSE <<>>)
  \o ExcitedSymbolsAtIndex(i)

BasicTransitionAtIndex(i) ==
  BasicSwirlAtIndex(i) \o TransferAndTightenAtIndex(i, Phrase(i) + 1)

\* max_span, the span of every thread
Span == IF N - Index < MaxMultiWordSize THEN N - Index ELSE MaxMultiWordSize

\* The step for one cursor (1 .. Span) of BasicTransitionOverMultipleIndices.
BasicTransitionOverMultipleIndices(cursor) ==
  IF cursor < Span
  THEN BasicTransitionAtIndex(Index + cursor - 1)
  ELSE BasicSwirlAtIndex(Index + cursor - 1) \o ExcitedSymbolsAtIndex(Index)

(***************************************************************************)
(* FullSwirlOverMultipleIndices as numbered segments: 0 before the loop,   *)
(* 1 .. Span the basic transitions, then one segment for each cursor       *)
(* 2 .. Span-1 of the inner loop, then the one that ends a sweep.          *)
(***************************************************************************)
LastSegment == IF Span = 1 THEN 2 ELSE 2 * Span - 1

Segment(n) ==
  IF n \in {0, LastSegment} THEN ExcitedSymbolsAtIndex(Index)
  ELSE IF n <= Span         THEN BasicTransitionOverMultipleIndices(n)
  ELSE LET i == Index + n - Span + 1
       IN  TransferAndTightenAtIndex(i, Phrase(Index))
           \o TransferAndTightenAtIndex(i, Index)

Program == [n \in 0 .. LastSegment |-> Segment(n)]

-----------------------------------------------------------------------------
VARIABLES
  exc,      \* exc[m]: excitations_ of module m
  level,    \* level[m]: current_tightening_level_ of module m
  owner,    \* owner[m]: the thread that holds mutex_ of module m
  main,     \* where the calling thread is
  answer,   \* what elementary confabulation answered
  aborted,  \* an exception left a thread: std::terminate
  pc,       \* pc[t]: the step of its instruction thread t is at
  seg,      \* seg[t], at[t]: segment, and place in it, of the instruction
  at,
  tighten,  \* tighten[t]: local of TransferAndTightenAtIndex
  found,    \* found[t]: size of result_word in ExcitedSymbolsAtIndex
  cur,      \* current_result_size
  prev,     \* previous_result_size
  sweeps    \* sweeps[t]: times the body of the do-while has been entered

shared == <<exc, level, owner, aborted>>
caller == <<main, answer>>
place  == <<seg, at>>
sizes  == <<cur, prev, sweeps>>
vars == <<exc, level, owner, main, answer, aborted, pc, seg, at, tighten,
          found, cur, prev, sweeps>>

Instr(t) == Program[seg[t]][at[t]]
From(t) == Instr(t).from
To(t)   == Instr(t).to

\* The two mutexes of a transfer, in the order they are taken: by id.
SourceFirst(t) == <<From(t), To(t)>>   \* mutant of LockOrder
LockOrder(t) == IF From(t) < To(t) THEN <<From(t), To(t)>> ELSE <<To(t), From(t)>>
Lower(t) == LockOrder(t)[1]
Upper(t) == LockOrder(t)[2]

NoAnswer == [kind |-> "none", symbol |-> Dummy]

\* Clean, before Activate puts the sentence into the vectors that it emptied.
Clean == level = [m \in Modules |-> 0]

Init ==
  /\ Clean
  /\ exc \in Inputs
  /\ owner = [m \in Modules |-> Free]
  /\ main = "initialize"
  /\ answer = NoAnswer
  /\ aborted = FALSE
  /\ pc = [t \in Threads |-> "idle"]
  /\ seg = [t \in Threads |-> 0]
  /\ at = [t \in Threads |-> 1]
  /\ tighten = [t \in Threads |-> 0]
  /\ found = [t \in Threads |-> 0]
  /\ cur = [t \in Threads |-> 0]
  /\ prev = [t \in Threads |-> 0]
  /\ sweeps = [t \in Threads |-> 0]

-----------------------------------------------------------------------------
(***************************************************************************)
(* TighteningPartialConfabulation(n) on module m.  The level is a size_t   *)
(* that reaches PartialConfabulation as an int8_t: from 128 it is negative *)
(* and PartialConfabulation throws, which ends the process.                *)
(***************************************************************************)
Int8(x) == ((x + 128) % 256) - 128

\* Mutants of TighteningPartialConfabulation: the level before the increment
\* cuts; the level goes down.
TightenBehind(m, n) ==
  LET cut == Int8(level[m])
  IN  /\ owner[m] = Free
      /\ level' = [level EXCEPT ![m] = @ + n]
      /\ aborted' = (cut < 0)
      /\ exc' = IF cut < 0 THEN exc
                ELSE [exc EXCEPT ![m] = ExcitationsAbove(cut, @)]
      /\ UNCHANGED owner

TightenDown(m, n) ==
  /\ owner[m] = Free
  /\ level' = [level EXCEPT ![m] = @ - n]
  /\ exc' = [exc EXCEPT ![m] = ExcitationsAbove(level[m] - n, @)]
  /\ UNCHANGED <<aborted, owner>>

TighteningPartialConfabulation(m, n) ==
  LET cut == Int8(level[m] + n)
  IN  /\ owner[m] = Free
      /\ level' = [level EXCEPT ![m] = @ + n]
      /\ aborted' = (cut < 0)
      /\ exc' = IF cut < 0 THEN exc
                ELSE [exc EXCEPT ![m] = ExcitationsAbove(cut, @)]
      /\ UNCHANGED owner

FirstStep(instruction) == IF instruction.op = "transfer" THEN "source" ELSE "word"

GoTo(t, n, k) ==
  /\ seg' = [seg EXCEPT ![t] = n]
  /\ at' = [at EXCEPT ![t] = k]
  /\ pc' = [pc EXCEPT ![t] = FirstStep(Program[n][k])]

\* On to the next instruction; never called on the last one of a sweep.
Advance(t) ==
  IF at[t] < Len(Program[seg[t]])
  THEN GoTo(t, seg[t], at[t] + 1)
  ELSE GoTo(t, seg[t] + 1, 1)

(***************************************************************************)
(* TransferAndTightenAtIndex.                                              *)
(***************************************************************************)
\* Mutant of Source: the look at the source tightens it.
SourceTightens(t) ==
  /\ pc[t] = "source"
  /\ TighteningPartialConfabulation(From(t), 1)
  /\ LET excited == NzElements(exc'[From(t)]) # {}
     IN  /\ tighten' = [tighten EXCEPT ![t] = IF excited THEN 1 ELSE 0]
         /\ pc' = [pc EXCEPT ![t] = IF excited /\ From(t) # To(t)
                                    THEN "lock1" ELSE "target"]
  /\ UNCHANGED <<caller, place, found, sizes>>

\* Tighten the source by 0 and see whether it has excited symbols.
Source(t) ==
  /\ pc[t] = "source"
  /\ TighteningPartialConfabulation(From(t), 0)
  /\ LET excited == NzElements(exc'[From(t)]) # {}
     IN  /\ tighten' = [tighten EXCEPT ![t] = IF excited THEN 1 ELSE 0]
         /\ pc' = [pc EXCEPT ![t] = IF excited /\ From(t) # To(t)
                                    THEN "lock1" ELSE "target"]
  /\ UNCHANGED <<caller, place, found, sizes>>

Acquire(t, m, next) ==
  /\ owner[m] = Free
  /\ owner' = [owner EXCEPT ![m] = t]
  /\ pc' = [pc EXCEPT ![t] = next]
  /\ UNCHANGED <<exc, level, aborted, caller, place, tighten, found, sizes>>

Release(t, m, next) ==
  /\ owner' = [owner EXCEPT ![m] = Free]
  /\ pc' = [pc EXCEPT ![t] = next]
  /\ UNCHANGED <<exc, level, aborted, caller, place, tighten, found, sizes>>

\* Mutant of Lock2: the second mutex is not taken.
Lock2Skipped(t) ==
  /\ pc[t] = "lock2"
  /\ pc' = [pc EXCEPT ![t] = "transfer"]
  /\ UNCHANGED <<shared, caller, place, tighten, found, sizes>>

Lock1(t) == pc[t] = "lock1" /\ Acquire(t, Lower(t), "lock2")
Lock2(t) == pc[t] = "lock2" /\ Acquire(t, Upper(t), "transfer")
Unlock1(t) == pc[t] = "unlock1" /\ Release(t, Upper(t), "unlock2")
Unlock2(t) == pc[t] = "unlock2" /\ Release(t, Lower(t), "target")

\* GetNormalizedExcitations, Transmit and AddExcitationVector, both locks held.
Transfer(t) ==
  /\ pc[t] = "transfer"
  /\ exc' = [exc EXCEPT ![To(t)] =
               AddVectors(@, Transmit(Link[From(t), To(t)], exc[From(t)]))]
  /\ pc' = [pc EXCEPT ![t] = "unlock1"]
  /\ UNCHANGED <<level, owner, aborted, caller, place, tighten, found, sizes>>

\* Tighten the target by 1 if the source was found excited, else by 0.
Target(t) ==
  /\ pc[t] = "target"
  /\ TighteningPartialConfabulation(To(t), tighten[t])
  /\ Advance(t)
  /\ UNCHANGED <<caller, tighten, found, sizes>>

(***************************************************************************)
(* ExcitedSymbolsAtIndex: two critical sections, and the size of the two   *)
(* results together.  After the first one, and after each sweep, the size  *)
(* decides whether the do-while goes on.                                   *)
(***************************************************************************)
Word(t) ==
  /\ pc[t] = "word"
  /\ TighteningPartialConfabulation(From(t), 0)
  /\ found' = [found EXCEPT ![t] = Cardinality(NzElements(exc'[From(t)]))]
  /\ pc' = [pc EXCEPT ![t] = "phrase"]
  /\ UNCHANGED <<caller, place, tighten, sizes>>

EndOfSweep(t) == seg[t] \in {0, LastSegment}

\* Mutant of GoesOn: a result of the same size is one more sweep.
GoesOnWhenEqual(t, size) == seg[t] = 0 \/ size <= prev[t]

GoesOn(t, size) == seg[t] = 0 \/ size < prev[t]

PhraseInside(t) ==
  /\ pc[t] = "phrase" /\ ~EndOfSweep(t)
  /\ TighteningPartialConfabulation(To(t), 0)
  /\ Advance(t)
  /\ UNCHANGED <<caller, tighten, found, sizes>>

PhraseAtEnd(t) ==
  /\ pc[t] = "phrase" /\ EndOfSweep(t)
  /\ TighteningPartialConfabulation(To(t), 0)
  /\ LET size == found[t] + Cardinality(NzElements(exc'[To(t)]))
     IN  /\ cur' = [cur EXCEPT ![t] = size]
         /\ IF GoesOn(t, size)
            THEN /\ prev' = [prev EXCEPT ![t] = size]
                 /\ sweeps' = [sweeps EXCEPT ![t] = @ + 1]
                 /\ GoTo(t, 1, 1)
            ELSE /\ pc' = [pc EXCEPT ![t] = "done"]
                 /\ UNCHANGED <<prev, sweeps, place>>
  /\ UNCHANGED <<caller, tighten, found>>

ThreadStep(t) ==
  \/ Source(t) \/ Lock1(t) \/ Lock2(t) \/ Transfer(t)
  \/ Unlock1(t) \/ Unlock2(t) \/ Target(t)
  \/ Word(t) \/ PhraseInside(t) \/ PhraseAtEnd(t)

-----------------------------------------------------------------------------
(***************************************************************************)
(* The calling thread, alone until it spawns and again after it joins.     *)
(***************************************************************************)
\* TransferAllExcitations: the transfers from every module with a knowledge
\* base to m, added to m's vector.
TransferAllExcitations(m, e) ==
  LET incoming(s) == [i \in Modules |->
                        IF HasKb(i, m) THEN Transmit(Link[i, m], e[i])[s] ELSE 0]
  IN  AddVectors(e[m], [s \in Symbols |-> SumFunctionOnSet(incoming(s), Modules)])

\* TransferAllExcitations and TighteningPartialConfabulation(0).
Initialized(m, e) ==
  [e EXCEPT ![m] = ExcitationsAbove(level[m], TransferAllExcitations(m, e))]

\* The word module is initialized first: the phrase module receives from it.
InitializationAtIndex ==
  /\ main = "initialize"
  /\ exc' = Initialized(Phrase(Index), Initialized(Index, exc))
  /\ main' = IF NzElements(exc'[Index]) \cup NzElements(exc'[Phrase(Index)]) = {}
             THEN "done" ELSE "spawn"
  /\ UNCHANGED <<level, owner, aborted, answer, pc, place, tighten, found, sizes>>

Spawn(t) ==
  /\ main = "spawn"
  /\ pc[t] = "idle"
  /\ pc' = [pc EXCEPT ![t] = "word"]
  /\ main' = IF \A u \in Threads \ {t} : pc[u] # "idle" THEN "join" ELSE "spawn"
  /\ UNCHANGED <<shared, answer, place, tighten, found, sizes>>

\* Mutant: the word wins a tie.
BestOfAtTie(word, phrase) ==
  IF word.excitation >= phrase.excitation
  THEN [kind |-> "word", symbol |-> word.symbol]
  ELSE [kind |-> "phrase", symbol |-> phrase.symbol]

\* The word wins only if it is strictly more excited than the phrase.
BestOf(word, phrase) ==
  IF word.excitation > phrase.excitation
  THEN [kind |-> "word", symbol |-> word.symbol]
  ELSE [kind |-> "phrase", symbol |-> phrase.symbol]

JoinAndAnswer ==
  /\ main = "join"
  /\ \A t \in Threads : pc[t] = "done"
  /\ LET word   == ElementaryConfabulation(exc[Index])
         phrase == ElementaryConfabulation(exc[Phrase(Index)])
     IN  /\ answer' = BestOf(word, phrase)
         /\ exc' = [exc EXCEPT ![Index] = Contracted(word),
                               ![Phrase(Index)] = Contracted(phrase)]
  /\ main' = "done"
  /\ UNCHANGED <<level, owner, aborted, pc, place, tighten, found, sizes>>

MainStep == InitializationAtIndex \/ (\E t \in Threads : Spawn(t)) \/ JoinAndAnswer

Stopped == (aborted \/ main = "done") /\ UNCHANGED vars

Next == \/ ~aborted /\ (MainStep \/ \E t \in Threads : ThreadStep(t))
        \/ Stopped

Spec == Init /\ [][Next]_vars

\* The operating system runs every thread that can run.
Fairness == /\ WF_vars(~aborted /\ MainStep)
            /\ \A t \in Threads : WF_vars(~aborted /\ ThreadStep(t))

FairSpec == Spec /\ Fairness

-----------------------------------------------------------------------------
(***************************************************************************)
(* Properties.                                                             *)
(***************************************************************************)
TypeOK ==
  /\ exc \in [Modules -> Vectors]
  /\ level \in [Modules -> Nat]
  /\ owner \in [Modules -> Threads \cup {Free}]
  /\ main \in {"initialize", "spawn", "join", "done"}
  /\ answer \in [kind : {"none", "word", "phrase"}, symbol : Symbols \cup {Dummy}]
  /\ aborted \in BOOLEAN
  /\ pc \in [Threads -> {"idle", "source", "lock1", "lock2", "transfer", "unlock1",
                         "unlock2", "target", "word", "phrase", "done"}]
  /\ seg \in [Threads -> 0 .. LastSegment]
  /\ at \in [Threads -> Nat \ {0}]
  /\ tighten \in [Threads -> {0, 1}]
  /\ found \in [Threads -> Nat]
  /\ cur \in [Threads -> Nat]
  /\ prev \in [Threads -> Nat]
  /\ sweeps \in [Threads -> Nat]

\* The module whose mutex a thread needs for its next step.
Needs(t, m) ==
  \/ pc[t] \in {"source", "word"} /\ m = From(t)
  \/ pc[t] \in {"target", "phrase"} /\ m = To(t)
  \/ pc[t] = "lock1" /\ m = Lower(t)
  \/ pc[t] = "lock2" /\ m = Upper(t)

WaitsFor(t, u) == \E m \in Modules : Needs(t, m) /\ owner[m] = u

\* No group of threads waits for each other: TransferExcitation locks the
\* module of the lower id first, whichever is the source.
NoWaitCycle ==
  \A S \in SUBSET Threads :
    S # {} => \E t \in S : \A u \in S : ~WaitsFor(t, u)

\* While a thread transfers, it alone holds the source and the target, and no
\* thread that is not inside a transfer holds a mutex.
TransferIsExclusive ==
  /\ \A t \in Threads :
       pc[t] = "transfer" => owner[From(t)] = t /\ owner[To(t)] = t
  /\ \A m \in Modules :
       owner[m] # Free => pc[owner[m]] \in {"lock2", "transfer", "unlock1", "unlock2"}

\* A thread between its transfer into m and the tightening of m that follows.
HasUnsettled(m) ==
  \E t \in Threads : /\ pc[t] \in {"unlock1", "unlock2", "target"}
                     /\ tighten[t] = 1
                     /\ To(t) = m

\* Whatever the interleaving of transfers and tightenings, a symbol survives in
\* a module only at or above the band of the module's tightening level.
SettledAboveBand ==
  \A m \in Modules :
    (~aborted /\ ~HasUnsettled(m)) =>
      \A s \in NzElements(exc[m]) : exc[m][s] >= level[m] * BandGap

\* The do-while is bounded by the symbols: each further sweep is paid for by
\* a symbol less in the result the thread samples, whatever the other threads
\* add to the modules meanwhile.
SweepsBounded ==
  \A t \in Threads : sweeps[t] + prev[t] <= 2 * NumSymbols + 1

\* The transfers into m of one sweep, each by its place in the program, and
\* those of them that are before the place <<n, k>>.
TransfersInto(m) ==
  {p \in UNION {{n} \X (1 .. Len(Program[n])) : n \in 1 .. LastSegment} :
     Program[p[1]][p[2]].op = "transfer" /\ Program[p[1]][p[2]].to = m}

Behind(n, k, m) == {p \in TransfersInto(m) : p[1] < n \/ (p[1] = n /\ p[2] < k)}

\* How many transfers into m a thread at <<n, k>> of its s-th sweep has behind it.
Due(s, n, k, m) ==
  (IF s = 0 THEN 0 ELSE (s - 1) * Cardinality(TransfersInto(m)))
  + Cardinality(Behind(n, k, m))

Paid(t, m) == Due(sweeps[t], seg[t], at[t], m)

Payments(m) == [t \in Threads |-> Paid(t, m)]

\* A level goes up only for an instruction that transfers into its module, by one
\* at most, whichever threads run it and however they are interleaved; excited
\* symbols are counted, and sources looked at, any number of times in between.
\* Nothing else keeps the level, which no thread resets, from 128, where
\* PartialConfabulation throws.
LevelsPaid ==
  \A m \in Modules : level[m] <= SumFunctionOnSet(Payments(m), Threads)

\* The comment above TransferAndTightenAtIndex: tighten only if the source
\* module actually has excited symbols, here at the moment of the transfer.
TransfersSomething ==
  \A t \in Threads : pc[t] = "transfer" => NzElements(exc[From(t)]) # {}

\* TransferExcitation asserts that the knowledge base is not null.
KnowledgeBaseExists ==
  \A t \in Threads : pc[t] = "transfer" => HasKb(From(t), To(t))

\* README, on extreme contraction: elementary confabulation "keeps only the
\* module symbol with the maximum excitation".
KeepsMaximum ==
  [][main = "join" /\ main' = "done" =>
       \A m \in {Index, Phrase(Index)} : \A s \in NzElements(exc'[m]) :
         \A other \in Symbols : exc[m][other] <= exc[m][s]]_vars

(***************************************************************************)
(* What the caller of a round sees of it: Round, without threads.          *)
(***************************************************************************)
Stage == IF main # "done" THEN "running"
         ELSE IF answer = NoAnswer THEN "failed" ELSE "answered"

R == INSTANCE Round WITH Answers <- Symbols, stage <- Stage,
                         kind <- answer.kind, symbol <- answer.symbol

\* For its caller a round fails or answers, once, and a word it answers is a
\* symbol and never the dummy, which the outer loop would append as a token.
RefinesRound == R!Spec

\* Every round ends: the threads are joined and the caller goes on.
Terminates == <>(main = "done")
=============================================================================
