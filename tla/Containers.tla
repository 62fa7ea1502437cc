----------------------------- MODULE Containers -----------------------------
(***************************************************************************)
(* The three hash tables the engine keeps its data in: the two of          *)
(* OpenTables, and bytell_hash_map.  Again one table is under test in a    *)
(* behaviour, and dict is the map its caller has in mind.                  *)
(***************************************************************************)
EXTENDS OpenTables

CONSTANTS Fibonacci,    \* the multiplied hash of a key, of HashBits bits
          HashBits, Jumps, MinGrow    \* of bytell_hash_map

ASSUME ContainersAssumption ==
  /\ HashBits \in Nat \ {0} /\ MinGrow \in Nat \ {0}
  /\ Fibonacci \in [Keys -> 0 .. (2 ^ HashBits - 1)]
  /\ \A j \in DOMAIN Jumps : Jumps[j] \in Nat \ {0}

B == INSTANCE BytellTable WITH Hash <- Fibonacci

Init == OpenInit \/ (kind = "bytell" /\ table = B!Unallocated /\ MapInit)

Item(k, v) == [key |-> k, val |-> v]

BytellInsert(k, v) == /\ Becomes("bytell", B!Emplace(table, Item(k, v)))
                      /\ MapInsert(k, v)
BytellAssign(k, v) == /\ Becomes("bytell", B!AssignAt(table, k, v))
                      /\ MapAssign(k, v)
BytellErase(k)     == Becomes("bytell", B!EraseKey(table, k)) /\ MapErase(k)
BytellClear        == Becomes("bytell", B!Cleared(table)) /\ MapClear
BytellShrinkToFit  == Becomes("bytell", B!ShrunkToFit(table)) /\ MapUnchanged
BytellReserve(m)   == Becomes("bytell", B!Reserved(table, m)) /\ MapUnchanged
BytellCopy         == Becomes("bytell", B!CopyOf(table)) /\ MapUnchanged

BytellInsertAll(ks, v) ==
  /\ Becomes("bytell", B!InsertAll(table, [i \in DOMAIN ks |-> Item(ks[i], v)]))
  /\ MapInsertAll(ToSet(ks), v)

\* Assigned to a table that had room for m elements, and used on from there.
BytellOperatorAssign(m) ==
  /\ Becomes("bytell", B!AssignedTo(B!Reserved(B!Unallocated, m), table))
  /\ MapUnchanged

\* What an iteration visits from its element number i to number j.
BytellEraseRange(i, j) ==
  LET range == ToSet(SubSeq(B!Iterated(table), i, j))
  IN  /\ Becomes("bytell", B!EraseRange(table, range))
      /\ MapEraseAll({table.slots[s].item.key : s \in range})

BytellEraseSome ==
  /\ kind = "bytell"
  /\ \E i, j \in DOMAIN B!Iterated(table) : i <= j /\ BytellEraseRange(i, j)

Next ==
  \/ OpenNext
  \/ \E k \in Keys, v \in Values : BytellInsert(k, v) \/ BytellAssign(k, v)
  \/ \E k \in Keys : BytellErase(k)
  \/ \E m \in Sizes : BytellReserve(m) \/ BytellOperatorAssign(m)
  \/ \E ks \in Batches, v \in Values : BytellInsertAll(ks, v)
  \/ BytellEraseSome
  \/ BytellClear \/ BytellShrinkToFit \/ BytellCopy

Spec == Init /\ [][Next]_vars

-----------------------------------------------------------------------------
\* What a caller can see of a bytell_hash_map.
BytellFound    == {k \in Keys : B!Find(table, k) # B!NotFound}
BytellContents == [k \in BytellFound |-> table.slots[B!Find(table, k)].item.val]
BytellVisited  == ToSet(B!Iterated(table))

\* The same as OpenTableIsTheMap: whatever the table does inside a call
\* (relocates a chain, grows and starts again), lookups, an iteration and size()
\* give the map of its caller, each element once.
BytellIsTheMap ==
  kind = "bytell" =>
    /\ BytellContents = dict
    /\ {table.slots[i].item.key : i \in BytellVisited} = BytellFound
    /\ Cardinality(BytellVisited) = Cardinality(BytellFound)
    /\ table.size = Cardinality(BytellFound)
=============================================================================
