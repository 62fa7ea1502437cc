# Confabulation engine: TLA+ models, checks and proofs

The engine learns word and phrase co-occurrences from a corpus and completes a
sentence word by word ("confabulation"). This directory models its text reading,
symbol selection, learning and generation, and the containers they keep their data
in, in TLA+, checks the models with TLC on
small instances, and proves the properties that matter most with TLAPS for every
value of the constants. All paths are relative to `src/`.

## 1. Inventory

| Part (source) | State | Operations | Hard behaviour |
|---|---|---|---|
| Generation round (`core/TwoLevelMultiConfabulation.cpp`, `TransferExcitation` in `core/ConfabulationBase.h`) | modules' excitations, levels and mutexes; threads | `InitializationAtIndex`, `FullSwirlOverMultipleIndices` on up to four threads, join, answer | interleaving of critical sections over one or two modules, lock order, stale samples, unbounded-looking do-while |
| Module (`core/Module.hpp`) | `excitations_`, `current_tightening_level_`, `mutex_` | add, normalise, tighten, contract | level kept as `size_t`, used as `int8_t`; running maximum |
| Generation loop (`TwoLevelMultiConfabulation::Confabulation`) | `temp_input`, index, `start_position_`, result | argument checks, activate, round, append | index and sentence must move in step; `int8_t`/`uint8_t`; termination |
| Organizer (`core/MultiLevelOrganizer.cpp`) | tries of both levels | `Organize` | overlapping and nested phrases; re-layout of a growing sentence |
| HashTrie (`utils/HashTrie.hpp`, `HashTrieNode.hpp`) | nodes with counts | `Add`, `FindLongest`, `FindAll` | sequences that begin one another; a flag that outlives a token |
| Learning (`ConfabulationBase::Build`, `Learn`; `utils/Utils.h`) | sentence buffer, knowledge bases | windows, shifts, links, strengths | window overlap, shift bounds, holes, signed sizes |
| KnowledgeBase (`core/KnowledgeBase.hpp`) | co-occurrence counts, target sums, link strengths | `Add`, `ComputeLinkStrengths`, `Transmit` | a fraction that must be a probability |
| NGramHandler (`text_processing/NGramHandler.*`) | one map of counts per n-gram size | count, seven cleanup stages, symbols | stages look up what earlier ones erased; key comparison; limits |
| TextReader (`text_processing/TextReader.cpp`, `SentenceTokenizer::Tokenize`) | current file, stream, left over text | `GetNextSentenceTokens` | sentences across lines, ends of files, recursion |
| SymbolMapping (`core/SymbolMapping.cpp`), filled by `ProduceSymbolMappings` | three maps between symbols and indices | add, look up | phrases as joined strings; indices without gaps |
| Vectors (`KHashExcitationVector`, `DOKExcitationVector`) | a hash table from index to excitation | set, add, normalise, iterate | zeros are absent elements, except where they are written; two notions of size |
| Matrices (`SparseHashLinksMatrix`, `CSRLinksMatrix`) | a hash table of pairs; compressed rows | set, copy, multiply, iterate | empty rows; order of iteration; deleted keys |
| Hash tables (`flat_hash_map/bytell_hash_map.hpp`, `klib/khash.h`, `google/sparsehash/sparsehashtable.h`) | slots with metadata bytes; buckets with flags; sparse buckets | insert, assign, erase, resize, copy | chains moved half way; in-place rehash; deleted buckets that fill the table |

How they interact. `ConfabulationBase::Initialize` reads the text once through the
TextReader into the NGramHandler, takes the word and phrase symbols from it, and
builds modules and knowledge bases; `Learn` reads the text again and lays every
window out with the organizer, which uses one trie per level. A call of
`Confabulation` lays the sentence out, activates the modules and runs rounds; in a
round the threads share the modules and read the knowledge bases. Everything but
the swirl of a round runs in one thread and by direct calls.

What makes each part correct:

* round: no deadlock, transfers exclusive, no symbol left below its band, bounded
  sweeps, levels raised only for transfers made (they must stay below 128, where a thread
  throws), every knowledge base it uses exists, one answer;
* loop: index and sentence in step, answers observed in later rounds, it returns;
* organizer and trie: what is stored is found, phrases sit over their words, none is
  missed, the past settles;
* learning: every near pair of the text is linked, nothing else is, the fractions of the
  links to a target are probabilities and add up to 1, position does not matter, no stretch is cut, it ends;
* symbols: phrases consist of word symbols, the limits keep the most frequent, each
  has one index and its string gives its words back;
* reader: every sentence once, whole and in order; the reading finishes;
* storage: a stored vector or matrix is the function or bag that learning and rounds
  compute with, and is never written outside its arrays;
* hash tables: each is the map its caller has in mind, iterates over it once, and its
  probes end.

## 2. Modules

| Module | Models | Correspondence |
|---|---|---|
| `Excitation` | vectors of `Module` and `Transmit` | a vector is a function from symbols to whole excitation units; `BandGap` is `kBandGap`; link strengths are rounded to a unit |
| `Architecture` | `kb_specs` of the constructor | `HasKb(i, j)`, and the four types of knowledge bases; word modules `0..N-1`, phrase modules `N..2N-1` |
| `Swirl` | one round | `exc`, `level`, `owner` are a module's excitations, level, mutex; `pc`, `seg`, `at` the place of a thread in `Program`, the straight-line expansion of `FullSwirlOverMultipleIndices` for its index and span; one step per critical section, and for a transfer one per lock, one for the transfer and one per unlock |
| `Round` | abstract specification of a round | fails or answers once; a word is never the dummy |
| `Confabulation` | the loop, several calls | `Answer(tokens)` stands for what `Round` promises; `int8_t` and `uint8_t` conversions are explicit |
| `Organizer`, `SentenceLayout` | the constructor that fills the tries, `Organize`; a sentence that grows | levels are functions from positions to symbols |
| `Trie`, `HashTrie` | the trie and `Add` in any order, `FindLongest`, `FindAll` | nodes are the stored beginnings, leaves those with a count |
| `KnowledgeBase`, `Learn` | `Add`, `Learn`, `Build`'s module pairs | counts are bags of (target, source) |
| `NGrams` | `ExtractAndStoreNGrams`, `CleanupNGrams` | `stage` numbers the seven stages of the log; a word is a sequence of letters, because keys are words strung together |
| `SentenceTokenizer` | `Tokenize`, `ExtractTokens`, `CleanToken` | a text is a sequence of characters; `index_` is the argument of `Tokenize` |
| `TextReader` | `GetNextSentenceTokens` | a line is a sequence of letters, marks, spaces, delimiters and dotted abbreviations; one step per activation of the recursive function |
| `SymbolMapping`, `Symbols` | the mapping; `ProduceSymbolMappings` | composes reader, n-grams and mapping: each sentence is counted before the next is read |
| `HashMap` | abstract specification of a hash table | one action per operation on a map |
| `Probing` | the probing of the two open tables | `Bucket(n, hash, s)` is the bucket of probe `s`, after steps of 1, 2 .. `s` |
| `BytellTable`, `KHashTable`, `SparseTable` | the three tables | operators from a table to the next: slots, chains and jumps; buckets with two flags; buckets with a deleted marker |
| `OpenTables`, `Containers` | any sequence of operations on one open table; on one of the three | beside the table the map of `HashMap` |
| `KHashVector`, `DokVector`, `SparseLinks`, `CsrLinks` | vectors and matrices | on the tables above; `stray` and `aborted` record a write behind the arrays and a failed assertion |
| `Knowledge` | abstract specification of a knowledge base and its modules | the bags and functions of `KnowledgeBase` and `Excitation` |
| `KnowledgePath` | the same with everything stored | `cooccurrence_counts_`, `target_symbol_sums_`, `kbase_`, `excitations_` of source and target |
| `Induction`, `OrganizerProofs`, `SwirlProofs`, `LayoutProofs`, `ConfabulationProofs`, `LearnProofs`, `SymbolsProofs`, `OpenTableProofs` | proofs | section 5 |
| `MC*` | instances for TLC | requests, corpora, texts, symmetry |

`Swirl` extends `Architecture` and `Excitation`; it implements `Round` through
`R == INSTANCE Round WITH ...`, and `Confabulation` uses what `Round` allows, so the
loop is checked against every answer a round may give. `Learn` composes `Organizer`,
`KnowledgeBase` and `Architecture`; `Organizer` composes two tries. `MCSwirl`
computes its links from a tiny corpus with the counting that `Learn` does.

`Symbols` extends `TextReader` (which extends `SentenceTokenizer`) and `SymbolMapping`
and instantiates `NGrams` on what the reader returned. `KnowledgePath` instantiates the
four vectors and matrices, which instantiate `KHashTable` and `SparseTable` (the DOK
vector is kept as the map its table is shown to be), and implements `Knowledge`. `Knowledge` uses the operators of
`Excitation` and `KnowledgeBase` that `Swirl` and `Learn` compute with, so what those two
assume of their data is what the storage is shown to do.

## 3. Runs

| Run | Question | Instance (states) |
|---|---|---|
| `swirl_threads` | deadlock, exclusion, bands, sweeps, levels, termination | two threads, three positions, two symbols, a span of two (5 506) |
| `swirl_single` | knowledge bases exist, refines `Round` | one thread, five positions, the full span of four (732) |
| `swirl_stale_source` | violation: a source emptied between sample and transfer | two threads, three symbols |
| `swirl_maximum` | violation: the answer is not the most excited symbol | one thread, three symbols |
| `organizer` | the trie stores and finds, one or all; the layout shows what the sentence has | any of three phrases added in any order, with repetitions, then every sentence of up to six of two words, a hole and an unknown word (43 688) |
| `confabulation` | in step, observed, returns | five positions, two calls, every kind of request (36 922) |
| `confabulation_padded` | violation: the answer behind the padding is not observed | one padded request |
| `learn` | the six properties of learning | four positions, sentences of up to three windows, pairs of sentences, holes, unknown words (11 885) |
| `symbols` | sentences read, symbols after the cleanup, indices, termination | 5042 texts: one to three lines, one or two files, missing and empty ones; sentences of up to nine words, holes, colliding keys (101 998) |
| `ngrams_counts` | violation: n-grams that share a count | sentences of four words |
| `containers` | each table is a map, iterated once, and probes end | five keys that collide, two values, jumps and tables so small that all tables relocate, grow, shrink and purge (15 968) |
| `knowledge_path` | refines `Knowledge`, no accident, both products agree | three symbols, three links, excitations up to 100 (32 958) |

Why the bounds are enough. Two threads are the fewest that interleave, and every
hazard listed for the round takes two; three positions are the fewest with a past,
an index and a future, and give both directions of transfer between the same
modules. `swirl_single` adds what a small span cannot show: the whole program for
`kMaxMultiWordSize` = 4 and a swirl that tightens the index empty. The corpora are
chosen so that sweeps do shrink (`ShrinkingCorpus`), a module empties
(`PalindromeCorpus`) and two symbols compete (`PairsCorpus`). Every safety property
of the round that a passing run checks is also proved for all sizes. The levels of the
instances stay far below 128: what they check is what the levels are paid with
(`LevelsPaid`), and what an exception takes follows from it by proof (section 5).
Phrases of up to four words (three in `confabulation`) nest, overlap and begin one
another. Texts of `learn` reach three windows, so both a seam and a window between
two seams occur. `MaxCalls` = 2 lets `start_position_`, which outlives a call,
matter. `Symbols` limits words to two and phrases to five, so both limits are met;
`SizeT` stands for 2^64, since counts of the instance are far below it. Its texts are of
two kinds, since one kind with both would be too many: cut everywhere, and whole
sentences full of phrases. In `containers` three of five keys start at one slot in every size of
table and two where the chain of these goes on; three jumps and tables of eight slots
are few enough that a chain is found without a free slot when half of it has moved, and
buckets are reused, purged and kicked out. `knowledge_path` has three symbols, so that a
row can be empty before, between and behind the others; two excitations of a source add
up in one target; its band gap is the code's, and no product is rounded to nothing
(`KnowledgePathAssumption`).

`CHECK_DEADLOCK FALSE` is set where the program ends (learning, cleanup, reading, a
sentence of maximal length); in the round, a state in which all threads block would
violate `Terminates` and `NoWaitCycle`.

### Fairness

* `Swirl`: weak fairness for the calling thread and for each worker. The operating
  system schedules every runnable thread, and a mutex that is free is taken: a
  waiting thread's lock step is enabled whenever the mutex is free. The program of a
  thread is finite except for the do-while, which `SweepsBounded` bounds, so weak
  fairness is enough in the instance; no assumption is made about lock fairness.
* `Confabulation`, `Learn`, `Symbols`: weak fairness of the next-state relation.
  One thread runs straight through; it never waits. `Returns` speaks of calls without
  `expectation`: with it the loop appends nothing and does not end.

## 4. Findings

* `swirl_maximum` (bug): `MaxExcitation` does not remember the first symbol's
  excitation, so the second displaces it. With 202 and 135 the word with 135 wins.
  `README.md:25` says contraction keeps the symbol with the maximum.
* `swirl_stale_source` (code and comment differ): a target is tightened for a source
  that has been emptied since it was sampled (`TwoLevelMultiConfabulation.cpp:298`).
  This needs `kUseMultiThreading`. `README.md:63` says the engine is single-threaded
  now and that multi-threaded results are not reproduced; `Globals.cpp:44` sets
  multi-threading on.
* `confabulation_padded` (code and README differ): in a sentence padded with empty
  strings the answer is appended behind the padding, not at the index.
* `ngrams_counts` (bug): `StringVector_Cmp` joins words without separator, so
  ("x", "yx") and ("xy", "x") share a count.

Further hazards without a run of their own (accepted indices that give nothing,
`expectation`, abbreviations after the first of a line, "CH.", wrap-around in stage VI,
fewer word modules than words of a phrase, a deleted key that is never set) are in `PROJECT.json` with their lines; a few in code that the engine never reaches are
only in section 7.

## 5. Proofs

All theorems are proved by `tlapm` from the assumptions named in the modules
(`SwirlAssumption`, `DataAssumption`, `ExcitationAssumption`, `OrganizerAssumption`,
`ConfabulationAssumption`, `HashTrieAssumption`, `SentenceLayoutAssumption`,
`LearnAssumption`, `SymbolsAssumption`, `TextReaderAssumption`, `OpenTablesAssumption`),
which state what the
code's constants and types give: at least three word modules, phrases of two words and
more, finitely many words and phrases (they come from files), phrases that are sequences
of words, texts that are sequences of files of lines of characters, letters that are
numbers, a null pointer that is neither a string nor a stream, vectors of natural numbers,
at least one thread, hashes that are natural numbers and a least table of a power of two
of buckets, four at least.

* **Induction** (`Induction`). The library's induction theorems take an operator, which no
  prover here can instantiate. `SimpleInduction`, `FiniteInduction`, `RemovalInduction` and
  `CompleteInduction` take the set of the numbers (or finite sets) for which a claim holds
  instead; a recursive function is handled by the set of bounds up to which some function
  satisfies its equation. From them follow what the proofs need of the community modules'
  folds: `SumFacts`, `SumMonotonic`, `SumScaled`, `FlattenType`, `FlattenAppend`, `FlattenConcat`,
  `FlattenOnly`, `FlattenEnds` (where each part lies in what was strung together),
  `ImageFacts`, and `Ranks` (the elements of a
  finite ordered set are numbered by how many come before each).
* **Swirl** (`SwirlProofs`). `IInv == TypeOK /\ PlaceOK /\ LocksOK /\
  SweepsOK /\ BandOK /\ SettledAboveBand`. None of the properties is inductive alone: that
  a thread is inside its program (`PlaceOK`) needs the types; that a transfer is exclusive
  needs `LocksOK`, which says exactly which mutexes each `pc` holds; the band survives a
  tightening only because levels stay below 128 (`BandOK`) until a thread throws, and
  because a thread inside a transfer still owes its tightening; a sweep is paid for by a
  symbol less only if the previous sample was at most `NumSymbols` (`SweepsOK`). There
  is one lemma per action. From `IInv` follow `TypeCorrect`, `ExclusiveTransfer`,
  `BandDiscipline`, `SweepBound` and `KnowledgeBases` (through `SoundProgram`: every
  instruction has its knowledge base). `NoDeadlock`: of threads that wait in a circle
  each would hold a module below the one it needs, and the largest has no place;
  `RoundRefined`: initial states and steps of `Swirl` are those of `Round`, with
  `ElementaryAnswer` (an answered word beats the phrase, so it is not the dummy).
  `LevelsArePaid`: a thread has tightened a module at most once for each transfer into it
  that lies behind it, in the sweeps it has finished and in the one it is in; so the level,
  which all threads raise and none resets, is at most the sum of what they have paid
  (`PaidOK` adds what makes it inductive). Of the transfers of a sweep at most
  `MostTightenings` (the span, three at least) go into one module, for `PlaceOf` numbers
  them (`TransitionPlace`, `CloserPlace`). A level of 128 is negative as an `int8_t`, and
  the thread throws: that takes 128 / `MostTightenings` sweeps of the threads together
  (`ThrowsTakeSweeps`), 32 with `kMaxMultiWordSize` = 4. Nothing in the code keeps the
  threads from so many: `SweepsBounded` allows two for each symbol, and the engine has
  thousands. So it is not claimed that no thread throws; `SettledAboveBand` and the steps
  of `Next` say what holds until one does.
* **Organizer** (`OrganizerProofs`). Lemmas about the operators that layout, loop and
  learning share: what a trie filled with any sequences in any order holds (`Holds`, whose
  nodes are closed under beginnings), what `FindLongest` and `FindAll` return from it, what
  the fold of `Organize` puts at each position, and that a layout depends on a sentence
  only as far as a phrase reaches.
* **Trie and layout** (`LayoutProofs`). `Stored`, `FindsLongest` and `FindsAll` from
  `Holds`; `LayoutInv` adds that all that was added are phrases and the sentence consists
  of tokens, from which `PhrasesStayInPlace`, `NothingIsMissed`, `WordsStayInPlace` and the
  action property `PastStaysSettled` follow by the lemmas of the organizer.
* **Confabulation** (`ConfabulationProofs`). `IndexInStep`, with `Accepted`: only a
  checked request is in the loop, so the index starts in range and cannot wrap.
  `AnswersAreObserved` and `PhrasesStayObserved` from `CallInv`: a sentence without holes
  is what was given followed by what was answered (`Appended`), and the levels are those
  of its layout (`LaidOut`).
* **Learn** (`LearnProofs`). `FractionsAreProbabilities`: every knowledge base is balanced
  (`AllBalanced`): the sum of a target is the total of the counts of its links, and only
  linked symbols have one. Adding the links of a window keeps it so, since the total over a
  union of bags is the sum of the totals (`UnionTotal`) and the bag of a window's links has
  as many to a target as the window has the target (`BagOfTotal`, `WindowTotals`).
  `ComputeLinkStrengths` takes the balance over into the fractions (`StrengthsBalanced`).
  `WindowsOverlap`: no stretch of
  `MaxMultiWordSize` + 1 words is cut. `SizesFit`: 63 word modules are safe in `int8_t`.
  `LinksAreShown`: `OnlyTheText` is inductive once the place in the sentence is one where a
  window may begin (`TextInv`). `LearningIsPositionNeutral` is inductive as it stands: two
  inner pairs of modules get the same links from every layout, by a bijection of the
  shifts. `PairsAreLearned`: `PairsInv` counts, for every distance, the pairs of the text
  before the window, those of the sentence that is cut included; a window adds each pair
  that lies in it, and only those of a seam twice.
* **Symbols** (`SymbolsProofs`, first part). `IndicesOfSymbols` follows from `Indexed`, which also says
  that the maps of a level are functions between its symbols and as many indices:
  `AddSymbolIndexed` needs the symbols finite, for only then is their number a free index.
  The cleanup has an invariant with a clause for every stage. `WordsOfPhrases`
  (`GramsInv`): from stage V on, phrases consist of words that are there, also those that
  stage VI makes. `WordsAreMostFrequent` (`CountsInv`): each word is counted as often as it
  occurs, stage I leaves the frequent ones, stage II chooses, and no later stage touches
  them; it needs that the reader returns sequences of words (`ReaderType`).
  `PhrasesAreFrequent` (`PhrasesInv`): the entries are all n-grams, after stage III the
  frequent ones, after stage IV those of words that are left. That stages V and VI then
  neither remove nor make one is the lemma `PartOccurs`: a beginning, or a word, of an
  n-gram occurs in every sentence as often at least.
* **Reader** (`SymbolsProofs`, second part). `SentencesAreRead`, from `ReaderInv`: the text of
  the current file is a complete part (`Whole`: it ends in a delimiter), whose sentences
  have been said behind those of the files before, then what is left over, then the lines
  that follow (`ReadUpTo`). The property takes a text apart by positions, the code by
  calls that search: `ExtractTokensFinds` proves that the calls of `Tokenize` give the
  longest runs without delimiter, `PhraseSays` that a cut says the sentences of the part it
  takes, `SentencesConcat` that behind a complete part nothing before it matters, so that
  neither the ends of lines nor those of files do.
* **Mappings** (`SymbolsProofs`, third part). `MappingsHoldTheGrams`, from `MappingInv`: what a mapping
  has and what still waits for it are the strings of the n-grams that were left.
  `KeyOrder`: letters are compared by their codes (`Letters \subseteq Int`), so the keys
  are in a total order, and with finitely many (`KeysInv`) the handler returns each entry
  once (`SymbolsFacts`). `TakenApart`: words are not empty and consist of letters
  (`WordKeys`), so the spaces in a symbol are where its words end.
* **Open tables** (`OpenTableProofs`). `OpenTablesInvariant` says of each element of a khash or a
  sparse_hash_map that the probing for its key comes to it over buckets that are not empty
  (`Sound`), that no key is there twice, that the elements are those of the caller's map
  (`Denotes`), and that the counters count what they are for and stay below the load limit
  (`KCounts`, `SCounts`). Without the counters no bucket would have to be empty, and
  without the way of each element a lookup could stop before it. `ProbesDiffer` is the
  fact about numbers both tables rest on: two triangular numbers below a power of two differ by
  a multiple of it only if they are equal (`OddFactor`), so n probes visit n buckets and an
  empty one is met. An in-place rehash of khash has an invariant of its own (`RInv`: each
  element is in an old bucket, in a fresh one or just out of the table), and so have the loops
  of `move_from` (`MoveInv`) and of the insertion of a range. `ProbingAlwaysEnds` and
  `OpenTablesAreMaps` follow, for any keys, hashes, sizes and sequences of operations.

Only model-checked:

* liveness (`Terminates`, `Returns`, `Finishes`), which is out of the prover's reach;
* `bytell_hash_map`: `BytellTable` grows while it emplaces and emplaces while it grows, so its
  operators are RECURSIVE, which the prover does not accept, and `BytellIsTheMap` stays with
  TLC. `Containers` reaches those operators, so the theorems about the two other tables are
  about `OpenSpec` of `OpenTables`, whose actions are those of `Containers` on these tables;
* the stored matrices and vectors (`KnowledgePath`): what is proved of the two tables is about
  `OpenTables`, and has yet to be carried over to their instances in the vectors and the
  matrices, whose operators are folds, each of which needs an induction of its own;
* what the runs with an expected violation check, which is false (section 4).

## 6. Abstractions

Excitations are whole units and logarithms are rounded, because the properties only
compare excitations with bands and with each other. Words and symbols are model values.
A transfer normalises the source and multiplies in one step, inside its two mutexes, as
the code does. A stored excitation is a whole number of the unit its vector carries, and
`Normalize` changes the unit, so that sums and order stay exact; `Transmit` rounds down.
The blocks of `bytell_hash_map` and the groups of `sparsetable` are one
sequence of slots each, and a table is replaced by the next whole. A hash is a constant
function, chosen to collide. The sizes of tables are natural numbers: a table of 2^31 buckets,
where the rounding up of khash wraps, is out of the memory the engine has. `std::sort`'s order of equal counts is open (`Limited`);
in `Rehash` and iteration the order of the slots is the code's. Log output, and the
text of answers, are left out.

## 7. Not modelled

* `SentenceTokenizer::KnowledgeTokenize`, and the tests of `ConfabulationTest` that `main` has
  commented out: nothing calls them. Of `main`, `Feed` is what it asks of the engine.
* Single elements of compressed rows: `CSRLinksMatrix::GetElementQuick` and `BinarySearch` have
  wrong offsets, but the engine only calls `Multiply`. `DOKLinksMatrix`, `Whiten` and
  `GetWhitenedExcitations` are used by a commented out test or by nothing.
* `flat_hash_map.hpp`'s own table and `google/sparsehash/densehashtable.h`: the engine never
  makes one. Allocation, exceptions of constructors, iterators and serialisation of the
  other containers. `text_data/`, `CMakeLists.txt`.
* From 128 word modules on `num_modules_` wraps and the constructor writes behind its
  specification; `LearnAssumption` and `ConfabulationAssumption` exclude it.
* `Globals`: its values are the CONSTANTS. `HandleSymbolFile` reads from a stream it never
  opens, and nothing uses what it would read.
* The swirl of several rounds in one state space: each round starts afresh from `Clean` and
  `Activate`, which `Confabulation` models as the layout and `Swirl` as its `Inputs`.

## 8. Plan

Done, in this order: round (with threads, abstract specification, proofs), trie,
organizer, loop, learning, n-grams, text reader; hash tables, vectors and matrices as
the implementation of what learning and rounds compute with, symbols from text to
mapping, the organizer with a trie filled in any order.

Next:

1. From the theorems about the open tables, that `KnowledgePath` implements `Knowledge` for any
   symbols and excitations.
2. `Learn` composed with `Symbols`: the same text read twice gives symbols and links that fit
   together, from the constructor to `LinkStrengths`.
