---------------------------- MODULE KnowledgeBase ---------------------------
(***************************************************************************)
(* KnowledgeBase: what one pair of modules knows of each other.  While it  *)
(* learns it counts links, pairs <<target, source>> of symbols, and how    *)
(* often each target was linked to; the strength of a link is in the end a *)
(* function of the ratio of the two, kept here as the fraction             *)
(* <<count, sum>> (ComputeLinkStrength is monotone in it, zero only at 0). *)
(***************************************************************************)
EXTENDS Naturals, FiniteSets, Bags

EmptyKb == [counts |-> EmptyBag, sums |-> EmptyBag, strengths |-> <<>>]

\* The bag of the values of f on S.
BagOf(f, S) == [e \in {f[k] : k \in S} |-> Cardinality({k \in S : f[k] = e})]

\* How often e is in a bag.
Copies(bag, e) == IF e \in DOMAIN bag THEN bag[e] ELSE 0

-----------------------------------------------------------------------------
\* Mutants of AddAll: the arguments of Add(row, col) swapped; the sums kept for
\* distinct targets only.
AddSwapped(kb, S, source, target) ==
  [kb EXCEPT !.counts = @ (+) BagOf([k \in S |-> <<source[k], target[k]>>], S),
             !.sums   = @ (+) BagOf(target, S)]

AddDistinct(kb, S, source, target) ==
  [kb EXCEPT !.counts = @ (+) BagOf([k \in S |-> <<target[k], source[k]>>], S),
             !.sums   = @ (+) SetToBag({target[k] : k \in S})]

\* Add, called for every k in S with source[k] and target[k].
AddAll(kb, S, source, target) ==
  [kb EXCEPT !.counts = @ (+) BagOf([k \in S |-> <<target[k], source[k]>>], S),
             !.sums   = @ (+) BagOf(target, S)]

\* ComputeLinkStrengths, followed by the two resets.
ComputeLinkStrengths(kb) ==
  [counts    |-> EmptyBag,
   sums      |-> EmptyBag,
   strengths |-> [link \in DOMAIN kb.counts |-> <<kb.counts[link], kb.sums[link[1]]>>]]
=============================================================================
