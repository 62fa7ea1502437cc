--------------------------- MODULE KnowledgePath ----------------------------
(***************************************************************************)
(* One knowledge base and the two modules it joins, as they are stored:    *)
(* links are counted in a SparseHashLinksMatrix, their strengths go        *)
(* through a second one into a CSRLinksMatrix, excitations are             *)
(* KHashExcitationVectors and Multiply returns a DOKExcitationVector.      *)
(* Knowledge is what the path implements.  Both symbol mappings have the   *)
(* same size, so no index is out of bounds.                                *)
(***************************************************************************)
EXTENDS Integers, Sequences, SequencesExt, FiniteSetsExt, Functions

CONSTANTS NumSymbols, BandGap, LinkStrength(_), Inputs, Levels,    \* of Knowledge
          MaxCol, MinBuckets,    \* of SparseLinks
          Null,                  \* a knowledge base that has not learned
          MaxLinks,              \* bound: pairs that are learned
          MaxTotal               \* bound: excitation of a module

Symbols == 0 .. (NumSymbols - 1)

\* The least excitation is a band gap; divided by MaxTotal no product of two is
\* rounded down to zero.
ASSUME KnowledgePathAssumption ==
  /\ NumSymbols \in Nat \ {0} /\ MaxCol >= NumSymbols
  /\ BandGap \in Nat \ {0} /\ MaxTotal <= BandGap * BandGap
  /\ \A c, n \in 1 .. MaxLinks : c <= n => LinkStrength(<<c, n>>) >= BandGap
  /\ \A input \in Inputs : \A s \in Symbols : input[s] = 0 \/ input[s] >= BandGap

VARIABLES counts,    \* cooccurrence_counts_
          sums,      \* target_symbol_sums_
          kbase,     \* kbase_
          source, target    \* excitations_ of the two modules

vars == <<counts, sums, kbase, source, target>>

V == INSTANCE KHashVector WITH NumRows <- NumSymbols
L == INSTANCE SparseLinks WITH NumRows <- NumSymbols, NumCols <- NumSymbols
C == INSTANCE CsrLinks WITH NumRows <- NumSymbols, NumCols <- NumSymbols
D == INSTANCE DokVector WITH NumRows <- NumSymbols

Init ==
  /\ counts = L!New /\ sums = [t \in Symbols |-> 0] /\ kbase = Null
  /\ source = V!New /\ target = V!New

Learned == kbase # Null

-----------------------------------------------------------------------------
\* KnowledgeBase::Add(row, col).
Add(t, s) ==
  /\ ~Learned /\ SumFunctionOnSet(sums, Symbols) < MaxLinks
  /\ sums' = [sums EXCEPT ![t] = @ + 1]
  /\ counts' = L!SetElement(counts, t, s, L!GetElement(counts, t, s) + 1)
  /\ UNCHANGED <<kbase, source, target>>

\* Mutant of Strengths: each count against the sum of the wrong symbol.
StrengthsByColumn ==
  FoldLeft(LAMBDA m, e : L!SetElement(m, e.row, e.col, LinkStrength(<<e.val, sums[e.col]>>)),
           L!New, L!GetNzElements(counts))

\* ComputeLinkStrengths and the two resets.
Strengths ==
  FoldLeft(LAMBDA m, e : L!SetElement(m, e.row, e.col, LinkStrength(<<e.val, sums[e.row]>>)),
           L!New, L!GetNzElements(counts))

ComputeLinkStrengths ==
  /\ ~Learned
  /\ kbase' = C!CopyOf(L!GetNzElements(Strengths))
  /\ counts' = L!New /\ sums' = [t \in Symbols |-> 0]
  /\ UNCHANGED <<source, target>>

-----------------------------------------------------------------------------
Total(v) == V!Sum(v)

\* ActivateSymbol of band 1.
ActivateSymbol(s) ==
  /\ Learned /\ Total(source) + BandGap <= MaxTotal
  /\ source' = V!SetElement(source, s, BandGap)
  /\ UNCHANGED <<counts, sums, kbase, target>>

\* What other knowledge bases transmit to the source.
DokOf(input) == Restrict(input, {s \in Symbols : input[s] # 0})

Receive(input) ==
  /\ Learned /\ Total(source) + SumFunctionOnSet(input, Symbols) <= MaxTotal
  /\ source' = V!Add(source, D!GetNzElements(DokOf(input)))
  /\ UNCHANGED <<counts, sums, kbase, target>>

GetNormalizedExcitations(v) == V!Normalize(V!SetAll(V!New, V!GetNzElements(v)))

\* The elements of a vector in units, in whole ones.
Whole(elements, unit) == [i \in DOMAIN elements |-> <<elements[i][1], elements[i][2] \div unit>>]

Elements(v) == [c \in Symbols |-> V!GetElement(v, c)]

Transmit(normalized) ==
  LET product == C!Multiply(kbase, Elements(normalized))
  IN  Whole(D!GetNzElements(product), normalized.unit)

TransferExcitation ==
  /\ Learned /\ Total(target) <= MaxTotal
  /\ target' = V!Add(target, Transmit(GetNormalizedExcitations(source)))
  /\ UNCHANGED <<counts, sums, kbase, source>>

ExcitationsAbove(level, elements) ==
  SelectSeq(elements, LAMBDA e : e[2] >= level * BandGap)

PartialConfabulation(level) ==
  /\ Learned
  /\ target' = V!SetAll(V!New, ExcitationsAbove(level, V!GetNzElements(target)))
  /\ UNCHANGED <<counts, sums, kbase, source>>

\* The loop of MaxExcitation over the elements; the result is one of them or empty.
MaxExcitation(elements) ==
  FoldLeft(LAMBDA r, e : IF r.result = <<>> THEN [r EXCEPT !.result = <<e>>]
                         ELSE IF e[2] > r.max THEN [result |-> <<e>>, max |-> e[2]]
                         ELSE r,
           [result |-> <<>>, max |-> 0], elements).result

\* ElementaryConfabulation(1): at level 0 its loop has ended.
Contract ==
  /\ Learned
  /\ target' = V!SetAll(V!New, MaxExcitation(ExcitationsAbove(1, V!GetNzElements(target))))
  /\ UNCHANGED <<counts, sums, kbase, source>>

ExcitationsToZero ==
  /\ Learned /\ source' = V!New /\ target' = V!New
  /\ UNCHANGED <<counts, sums, kbase>>

Next ==
  \/ \E t, s \in Symbols : Add(t, s)
  \/ ComputeLinkStrengths
  \/ \E s \in Symbols : ActivateSymbol(s)
  \/ \E input \in Inputs : Receive(input)
  \/ \E level \in Levels : PartialConfabulation(level)
  \/ TransferExcitation \/ Contract \/ ExcitationsToZero

Spec == Init /\ [][Next]_vars

\* GetExpectation fills a result of GetNnz symbols with one for each element that
\* it iterates over.
ExpectationFits(v) == Len(V!GetNzElements(v)) <= V!GetNnz(v)

-----------------------------------------------------------------------------
\* The path as Knowledge sees it: what the buckets and the rows hold.
Counted ==
  LET items == {b \in {counts.map.buckets[i] : i \in DOMAIN counts.map.buckets} :
                  b.state = "used"}
  IN  [p \in {b.key : b \in items} |-> (CHOOSE b \in items : b.key = p).val]

Links ==
  [t \in Symbols |-> [s \in Symbols |->
     IF ~Learned THEN 0
     ELSE LET at == {i \in (kbase.ia[t + 1] + 1) .. kbase.ia[t + 2] : kbase.ja[i] = s}
          IN  IF at = {} THEN 0 ELSE kbase.a[CHOOSE i \in at : TRUE]]]

Excitations(v) ==
  LET live == V!K!Live(v.table)
  IN  [s \in Symbols |->
         LET at == {i \in live : v.table.items[i].key = s}
         IN  IF at = {} THEN 0 ELSE v.table.items[CHOOSE i \in at : TRUE].val]

Promised == INSTANCE Knowledge WITH
  kb <- [counts |-> Counted, sums |-> Restrict(sums, {t \in Symbols : sums[t] > 0}),
         strengths |-> <<>>],
  link <- Links,
  learned <- Learned,
  source <- Excitations(source),
  target <- Excitations(target)

\* Whatever is learned, activated, sent, transferred, cut and contracted, in any
\* order: three kinds of matrix and two kinds of vector, with their zero elements,
\* empty rows and orders of iteration, behave as the bags and functions that the
\* models of learning and of a round compute with.
RefinesKnowledge == Promised!Spec

\* No zero is set where a vector has no element, nor where a matrix has one.
\* Multiply sets every row of its result, to zero too, and hands it to Add: only
\* that DOKExcitationVector drops the zeros keeps SetElement of the khash vector
\* from writing behind its arrays. Nor does GetExpectation write behind its result.
NoAccident ==
  /\ ~source.stray /\ ~target.stray /\ ~counts.aborted
  /\ ExpectationFits(source) /\ ExpectationFits(target)

\* The multiplication by columns of the matrix that learned, copied from the
\* compressed rows, gives the same vector as the one by rows.
MultiplyAgrees ==
  Learned =>
    L!Multiply(L!CopyOf(C!GetNzElements(kbase)), V!GetNzElements(source))
      = C!Multiply(kbase, Elements(source))
=============================================================================
