----------------------------- MODULE Excitation -----------------------------
(***************************************************************************)
(* The excitation vector of one module and what the engine computes from   *)
(* it: band cut, addition, transmission through a knowledge base and       *)
(* elementary confabulation.                                               *)
(*                                                                         *)
(* A vector gives every symbol index its excitation; an absent element of  *)
(* the sparse vector is 0.  Excitations are floats in the code.  Here they *)
(* are natural numbers, with the unit chosen by BandGap, and a division    *)
(* rounds down: the properties compare excitations with multiples of       *)
(* BandGap and with each other, never with a fraction of the unit.         *)
(***************************************************************************)
EXTENDS Integers, FiniteSets, Functions, FiniteSetsExt

CONSTANTS NumSymbols,   \* size of the symbol mapping of a module
          BandGap       \* Globals::kBandGap, the width of one excitation band

ASSUME ExcitationAssumption == /\ NumSymbols \in Nat \ {0}
                               /\ BandGap \in Nat \ {0}

Symbols == 0 .. (NumSymbols - 1)
Vectors == [Symbols -> Nat]

\* ExcitationsToZero
ZeroVector == [s \in Symbols |-> 0]

\* GetNzElements: the excited symbols.
NzElements(e) == {s \in Symbols : e[s] > 0}

PositiveClip(x) == IF x \in Nat THEN x ELSE 0

\* SetElement on a vector that holds nothing at s.
SingleElement(s, x) == [ZeroVector EXCEPT ![s] = x]

\* IExcitationVector::Add
AddVectors(e, other) == [s \in Symbols |-> PositiveClip(e[s] + other[s])]

\* ExcitationsAbove: the symbols of a band level, kept with their excitations.
ExcitationsAbove(level, e) ==
  [s \in Symbols |-> IF e[s] > 0 /\ e[s] >= level * BandGap THEN e[s] ELSE 0]

(***************************************************************************)
(* GetNormalizedExcitations followed by Transmit: the source, normalised   *)
(* to sum 1, times the matrix of link strengths (rows are targets).        *)
(* Normalize leaves a vector of sum 0 alone.                               *)
(***************************************************************************)
Total(e) == SumFunctionOnSet(e, Symbols)

Transmit(link, e) ==
  [t \in Symbols |->
     IF Total(e) = 0 THEN 0
     ELSE SumFunctionOnSet([s \in Symbols |-> link[t][s] * e[s]], Symbols)
            \div Total(e)]

(***************************************************************************)
(* MaxExcitation walks the excited symbols in index order.  The running    *)
(* maximum starts at 0 and is not set by the first symbol, so the second   *)
(* one always displaces the first: the winner is the strongest of the      *)
(* others (the first of them at a tie), and the first symbol only when it  *)
(* is alone.                                                               *)
(***************************************************************************)
MaxExcitation(e) ==
  LET nz     == NzElements(e)
      first  == Min(nz)
      others == nz \ {first}
      best   == {s \in others : \A o \in others : e[o] <= e[s]}
  IN  IF others = {} THEN first ELSE Min(best)

\* ElementaryConfabulation keeps one symbol of band 1 or more; the dummy
\* answer, with excitation 0, is -1.
Dummy == -1

ElementaryConfabulation(e) ==
  LET candidates == ExcitationsAbove(1, e)
  IN  IF NzElements(candidates) = {}
      THEN [symbol |-> Dummy, excitation |-> 0]
      ELSE LET w == MaxExcitation(candidates)
           IN  [symbol |-> w, excitation |-> e[w]]

\* What elementary confabulation leaves in the module.
Contracted(winner) ==
  IF winner.symbol = Dummy THEN ZeroVector
  ELSE SingleElement(winner.symbol, winner.excitation)
=============================================================================
