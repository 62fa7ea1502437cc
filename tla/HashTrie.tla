------------------------------ MODULE HashTrie ------------------------------
(***************************************************************************)
(* A HashTrie that is filled one symbol after the other, as the            *)
(* constructor of MultiLevelOrganizer does, and what a lookup then finds.  *)
(***************************************************************************)
EXTENDS Trie

CONSTANTS Tokens,      \* the words a sequence is made of
          MaxLength    \* bound on the length of what is added and looked up

ASSUME HashTrieAssumption == MaxLength \in Nat

-----------------------------------------------------------------------------
VARIABLES trie,    \* root_ and size_
          added    \* the sequences given to Add so far

vars == <<trie, added>>

Sequence == BoundedSeq(Tokens, MaxLength)

Init == trie = EmptyTrie /\ added = {}

AddSequence(s) ==
  /\ trie' = Add(trie, s)
  /\ added' = added \cup {s}

Next == \E s \in Sequence : AddSequence(s)

Spec == Init /\ [][Next]_vars

-----------------------------------------------------------------------------
\* What has been added and is not empty, each sequence once, is what is stored:
\* a prefix shared with a longer sequence is not a symbol by itself.
StoresWhatWasAdded ==
  /\ trie.leaves = added \ {<<>>}
  /\ trie.size = Cardinality(trie.leaves)

\* FindLongest returns the longest added sequence that the looked up one begins
\* with, and the empty one if there is none: the walk node by node never stops
\* before a longer match and never confirms tokens that were not added.
LongestMatch ==
  \A s \in Sequence :
    LET m       == FindLongest(trie, s)
        matches == {p \in added \ {<<>>} : IsPrefix(p, s)}
    IN  /\ matches = {} => m = <<>>
        /\ matches # {} => m \in matches /\ \A p \in matches : Len(p) <= Len(m)

\* FindAll finds every added sequence that the looked up one begins with, and
\* returns nothing else than added sequences, as long as none is a single token:
\* a single one sets partial_is_symbol for the node after it.  It passes over
\* tokens, so what it returns need not stand together in the sequence.
AllMatches ==
  (\A p \in added : Len(p) > 1) =>
    \A s \in Sequence :
      LET found == ToSet(FindAll(trie, s))
      IN  {p \in added : IsPrefix(p, s)} \subseteq found /\ found \subseteq added
=============================================================================
