----------------------------- MODULE DokVector ------------------------------
(***************************************************************************)
(* DOKExcitationVector, the dictionary of keys that Multiply returns: a    *)
(* function on the rows that have an element.  What it stores is never 0.  *)
(***************************************************************************)
EXTENDS Integers, Sequences, SequencesExt, FiniteSetsExt, Functions, TLC

CONSTANT NumRows

Rows == 0 .. (NumRows - 1)

New == << >>

GetElement(v, r) == IF r \in DOMAIN v THEN v[r] ELSE 0

\* Mutant of SetElement: zeros are stored.
SetElementQuick(v, r, x) == (r :> x) @@ v

SetElement(v, r, x) ==
  IF x = 0 THEN Restrict(v, DOMAIN v \ {r}) ELSE SetElementQuick(v, r, x)

\* A std::set of pairs, so in the order of the rows.
GetNzElements(v) ==
  LET rows == SelectSeq([i \in 1 .. NumRows |-> i - 1], LAMBDA r : r \in DOMAIN v)
  IN  [i \in DOMAIN rows |-> <<rows[i], v[rows[i]]>>]
=============================================================================
