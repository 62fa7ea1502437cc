-------------------------------- MODULE Trie --------------------------------
(***************************************************************************)
(* The trie of HashTrie as a value: its nodes, which of them are leaves,   *)
(* and its size.  It holds the symbols of one level of the architecture as *)
(* sequences of tokens and finds the longest one at the head of a sequence.*)
(*                                                                         *)
(* A node is named by the sequence of tokens on its path from the root.    *)
(* The map of a node (an external hash map) is the set of its children.    *)
(***************************************************************************)
EXTENDS Naturals, FiniteSets, Sequences, SequencesExt

\* The non-empty beginnings of s.
Beginnings(s) == {SubSeq(s, 1, n) : n \in 1 .. Len(s)}

EmptyTrie == [nodes |-> {<<>>}, leaves |-> {}, size |-> 0]

-----------------------------------------------------------------------------
\* Mutants: every node put on the way is a leaf; a repeated symbol counts.
AddMarkingAll(trie, s) ==
  [nodes  |-> trie.nodes \cup Beginnings(s),
   leaves |-> trie.leaves \cup Beginnings(s),
   size   |-> trie.size + 1]

AddCountingAll(trie, s) ==
  [nodes  |-> trie.nodes \cup Beginnings(s),
   leaves |-> trie.leaves \cup {s},
   size   |-> trie.size + 1]

\* Add: Put creates the nodes that are missing and leaves the flag of the ones
\* it finds alone; only the last node becomes a leaf.
Add(trie, s) ==
  IF s = <<>> THEN trie
  ELSE [nodes  |-> trie.nodes \cup Beginnings(s),
        leaves |-> trie.leaves \cup {s},
        size   |-> IF s \in trie.leaves THEN trie.size ELSE trie.size + 1]

\* How far FindLongest walks: until a token has no child.
Walked(trie, s) ==
  {n \in 1 .. Len(s) : \A k \in 1 .. n : SubSeq(s, 1, k) \in trie.nodes}

\* The places where the tokens still unconfirmed become part of the result.
Confirmed(trie, s) == {n \in Walked(trie, s) : SubSeq(s, 1, n) \in trie.leaves}

\* Mutant of FindLongest: the first leaf ends the search.
FindShortest(trie, s) ==
  IF Confirmed(trie, s) = {} THEN <<>> ELSE SubSeq(s, 1, Min(Confirmed(trie, s)))

FindLongest(trie, s) ==
  IF Confirmed(trie, s) = {} THEN <<>> ELSE SubSeq(s, 1, Max(Confirmed(trie, s)))

-----------------------------------------------------------------------------
\* Mutant of PassOn: partial_is_symbol is not reset.
PassOnAgain(trie, before, token) ==
  LET longer  == Append(before.partial, token)
      partial == IF longer \in trie.nodes THEN longer ELSE before.partial
      symbol  == before.isSymbol \/ (longer \in trie.nodes /\ longer \in trie.leaves)
  IN  [partial  |-> partial,
       isSymbol |-> symbol,
       result   |-> IF Len(partial) > 1 /\ symbol THEN Append(before.result, partial)
                    ELSE before.result]

\* The loop of FindAll: a token without child is passed over, the node stays.
PassOn(trie, before, token) ==
  LET longer  == Append(before.partial, token)
      partial == IF longer \in trie.nodes THEN longer ELSE before.partial
      symbol  == before.isSymbol \/ (longer \in trie.nodes /\ longer \in trie.leaves)
      found   == Len(partial) > 1 /\ symbol
  IN  [partial  |-> partial,
       isSymbol |-> symbol /\ ~found,
       result   |-> IF found THEN Append(before.result, partial) ELSE before.result]

FindAll(trie, s) ==
  LET Walk[n \in 0 .. Len(s)] ==
        IF n = 0 THEN [partial |-> <<>>, isSymbol |-> FALSE, result |-> <<>>]
        ELSE PassOn(trie, Walk[n - 1], s[n])
  IN  Walk[Len(s)].result
=============================================================================
