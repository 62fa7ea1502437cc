-------------------------- MODULE MCKnowledgePath ---------------------------
(***************************************************************************)
(* KnowledgePath with the constants of the engine where they matter: a     *)
(* band gap of 30 and columns of 16 bits, which hash the links of a        *)
(* diagonal to one bucket.                                                 *)
(***************************************************************************)
EXTENDS KnowledgePath

\* BandGap + log2(count / sum) - log2(0.0001), to a whole unit.
MCLinkStrength(link) ==
  CASE link[1] = link[2]      -> BandGap + 13
    [] 2 * link[1] >= link[2] -> BandGap + 12
    [] OTHER                  -> BandGap + 11

\* One symbol, or two with different excitations.
MCInputs ==
  {[s \in Symbols |-> IF s = 0 THEN 60 ELSE 0],
   [s \in Symbols |-> IF s = 0 THEN 0 ELSE 20 + 20 * s]}
=============================================================================
