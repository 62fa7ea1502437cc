------------------------------ MODULE Probing -------------------------------
(***************************************************************************)
(* The two tables with open addressing, khash and sparse_hashtable, have a *)
(* power of two of buckets and look for a key with a step that grows by 1  *)
(* with every probe.                                                       *)
(***************************************************************************)
EXTENDS Integers

TwoTo[b \in Nat] == IF b = 0 THEN 1 ELSE 2 * TwoTo[b - 1]

\* After s probes the steps 1, 2 .. s were made.
Triangle(s) == (s * (s + 1)) \div 2
Bucket(n, hash, s) == (hash + Triangle(s)) % n

\* The least power of two that is not below m.
PowerAbove(m) ==
  TwoTo[CHOOSE b \in 0 .. m : TwoTo[b] >= m /\ \A c \in 0 .. (b - 1) : TwoTo[c] < m]
=============================================================================
