----------------------------- MODULE OpenTables -----------------------------
(***************************************************************************)
(* The two hash tables with open addressing, khash and sparse_hash_map,    *)
(* each under any sequence of the operations of its interface.  One table  *)
(* is under test in a behaviour; beside it dict is the map its caller has  *)
(* in mind, by the actions of HashMap.                                     *)
(***************************************************************************)
EXTENDS Integers, Sequences, FiniteSets, SequencesExt, HashMap, Probing

CONSTANTS Keys, Values,
          Hash,         \* the hash of a key
          MinBuckets,   \* of sparse_hash_map
          Batches,      \* bound: the ranges of keys that are inserted at once
          Sizes         \* bound: the sizes a table is asked to have

ASSUME OpenTablesAssumption ==
  /\ Hash \in [Keys -> Nat]
  /\ \E b \in 2 .. 30 : MinBuckets = TwoTo[b]
  /\ Batches \subseteq Seq(Keys)
  /\ Sizes \subseteq Nat

VARIABLES kind,     \* which table is under test
          table     \* the table

vars == <<kind, table, dict>>

K == INSTANCE KHashTable
S == INSTANCE SparseTable

OpenKinds == {"khash", "sparse"}

OpenInit ==
  /\ kind \in OpenKinds
  /\ table = IF kind = "khash" THEN K!Initial ELSE S!Initial
  /\ MapInit

Becomes(of, t) == kind = of /\ table' = t /\ UNCHANGED kind

KHashPut(k, v)     == Becomes("khash", K!Put(table, k, v)) /\ MapAssign(k, v)
KHashDel(k)        == /\ Becomes("khash", K!Deleted(table, K!Get(table, k)))
                      /\ MapErase(k)
KHashResize(m)     == Becomes("khash", K!Resize(table, m)) /\ MapUnchanged
KHashClear         == Becomes("khash", K!Cleared(table)) /\ MapClear

SparseInsert(k, v) == /\ Becomes("sparse", S!Insert(table, S!Element(k, v)))
                      /\ MapInsert(k, v)
SparseAssign(k, v) == Becomes("sparse", S!AssignAt(table, k, v)) /\ MapAssign(k, v)
SparseErase(k)     == Becomes("sparse", S!EraseKey(table, k)) /\ MapErase(k)
SparseResize(m)    == Becomes("sparse", S!Resized(table, m)) /\ MapUnchanged
SparseClear        == Becomes("sparse", S!Cleared(table)) /\ MapClear
SparseSetDeletedKey == Becomes("sparse", S!Squashed(table)) /\ MapUnchanged
SparseCopy         == Becomes("sparse", S!CopyOf(table)) /\ MapUnchanged

\* Assigned to a table made with m buckets, with which it is then swapped.
SparseSwap(m) ==
  Becomes("sparse", S!AssignedTo(S!Constructed(m), table)) /\ MapUnchanged

SparseInsertAll(ks, v) ==
  /\ Becomes("sparse", S!InsertAll(table, [i \in DOMAIN ks |-> S!Element(ks[i], v)]))
  /\ MapInsertAll(ToSet(ks), v)

\* What an iteration visits from bucket i to bucket j.
SparseEraseRange(i, j) ==
  LET range == {b \in S!Used(table) : i <= b /\ b <= j}
  IN  /\ Becomes("sparse", S!EraseRange(table, range))
      /\ MapEraseAll({table.buckets[b].key : b \in range})

SparseEraseSome ==
  kind = "sparse" /\ \E i, j \in S!Used(table) : i <= j /\ SparseEraseRange(i, j)

OpenNext ==
  \/ \E k \in Keys, v \in Values : \/ KHashPut(k, v)
                                   \/ SparseInsert(k, v) \/ SparseAssign(k, v)
  \/ \E k \in Keys : KHashDel(k) \/ SparseErase(k)
  \/ \E m \in Sizes : KHashResize(m) \/ SparseResize(m) \/ SparseSwap(m)
  \/ \E ks \in Batches, v \in Values : SparseInsertAll(ks, v)
  \/ SparseEraseSome
  \/ KHashClear \/ SparseClear \/ SparseSetDeletedKey \/ SparseCopy

OpenSpec == OpenInit /\ [][OpenNext]_vars

-----------------------------------------------------------------------------
(***************************************************************************)
(* What a caller can see of the table: lookups and an iteration.           *)
(***************************************************************************)
\* The bucket a lookup gives; it holds the key unless it is end().
Looked(k) == IF kind = "khash" THEN K!Get(table, k) ELSE S!Find(table, k)
End       == IF kind = "khash" THEN table.n ELSE S!IllegalBucket
ItemAt(i) == IF kind = "khash" THEN table.items[i] ELSE table.buckets[i]

Found    == {k \in Keys : Looked(k) # End}
Contents == [k \in Found |-> ItemAt(Looked(k)).val]

\* The buckets of an iteration, and size().
Visited == IF kind = "khash" THEN K!Live(table) ELSE S!Used(table)
SizeOf  == IF kind = "khash" THEN table.size ELSE S!Size(table)

\* Whatever the table does inside a call (kicks elements out, grows or shrinks,
\* purges the deleted), its caller sees the insertion, assignment or erasure of
\* the one key it asked for.  An iteration visits each element of the map once,
\* and size() counts them: none is stored twice, or where no lookup finds it.
OpenTableIsTheMap ==
  kind \in OpenKinds =>
    /\ Contents = dict
    /\ {ItemAt(i).key : i \in Visited} = Found
    /\ Cardinality(Visited) = Cardinality(Found)
    /\ SizeOf = Cardinality(Found)

\* The two open tables always keep an empty bucket on the way of every key, the
\* absent ones too: without it kh_put takes the bucket of another key and
\* find_position fails its assertion on the number of probes.
ProbingEnds ==
  /\ kind = "khash" /\ table.n > 0 =>
       \A k \in Keys : LET i == K!Probe(table.n, k, K!LastProbe(table, k))
                       IN  K!IsEmpty(table, i) \/ K!Holds(table, i, k)
  /\ kind = "sparse" =>
       \A k \in Keys : \E p \in 0 .. (table.n - 1) :
         LET i == S!Probe(table.n, k, p)
         IN  S!Is(table, i, "empty") \/ S!Holds(table, i, k)
=============================================================================
