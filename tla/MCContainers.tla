---------------------------- MODULE MCContainers ----------------------------
(***************************************************************************)
(* Five keys: three that start at one slot in every size of table, and two *)
(* that start where the chain of these goes on.  The jumps are so few, and *)
(* the smallest tables so small, that chains run out of free slots,        *)
(* half-moved ones too, elements are kicked out, and all tables grow,      *)
(* shrink and purge.                                                       *)
(***************************************************************************)
EXTENDS Containers, TLC

CONSTANTS k1, k2, k3, k4, k5

\* Of five bits: the upper ones give the slot.
MCFibonacci == (k1 :> 0) @@ (k2 :> 0) @@ (k3 :> 1) @@ (k4 :> 9) @@ (k5 :> 16)

\* The lower bits give the bucket.
MCHash == (k1 :> 0) @@ (k2 :> 8) @@ (k3 :> 3) @@ (k4 :> 11) @@ (k5 :> 19)

MCJumps == <<2, 4, 6>>

MCBatches == {<<k1, k5>>, <<k2, k3, k4>>}

Symmetry == Permutations(Values)
=============================================================================
