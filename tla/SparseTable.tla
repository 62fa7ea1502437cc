----------------------------- MODULE SparseTable ----------------------------
(***************************************************************************)
(* google::sparse_hash_map over sparse_hashtable, the table of             *)
(* SparseHashLinksMatrix: open addressing with quadratic probing.  An      *)
(* erased element stays in its bucket with the deleted key, which has to   *)
(* be set before: set_deleted asserts it.  A table is a record: n buckets, *)
(* the buckets (an element, the deleted marker or nothing), num_deleted    *)
(* and consider_shrink.  The sparsetable below it, which packs the used    *)
(* buckets in memory, is an array of buckets here.                         *)
(***************************************************************************)
EXTENDS Integers, Sequences, FiniteSetsExt, Probing

CONSTANTS Hash,         \* the hash of a key (PairHash of a matrix)
          MinBuckets    \* HT_MIN_BUCKETS: 32

Nothing == [state |-> "empty"]
Marker  == [state |-> "deleted"]
Element(k, v) == [state |-> "used", key |-> k, val |-> v]

Empty(n) == [n |-> n, buckets |-> [i \in 0 .. (n - 1) |-> Nothing],
             deleted |-> 0, shrink |-> FALSE]
NumNonempty(s) == Cardinality({i \in DOMAIN s.buckets : s.buckets[i].state # "empty"})
Size(s) == NumNonempty(s) - s.deleted

\* HT_OCCUPANCY_FLT is 0.8 and HT_EMPTY_FLT 0.32.
EnlargeThreshold(n) == (8 * n) \div 10
ShrinkThreshold(n) == (32 * n) \div 100

\* min_size: the least size that takes m elements and is at least wanted.
Doubled(b) == MinBuckets * TwoTo[b]
Fits(n, m, wanted) == n >= wanted /\ 10 * m < 8 * n
MinSize(m, wanted) ==
  Doubled(CHOOSE b \in 0 .. (m + wanted) :
            /\ Fits(Doubled(b), m, wanted)
            /\ \A c \in 0 .. (b - 1) : ~Fits(Doubled(c), m, wanted))

\* The constructor, with the number of buckets that are wanted.
Constructed(wanted) == Empty(MinSize(0, wanted))
Initial == Constructed(0)

\* JUMP_ is the number of probes.
Probe(n, k, p) == Bucket(n, Hash[k], p)

(***************************************************************************)
(* find_position: the bucket of the key, or the one to insert it at.  The  *)
(* assertion num_probes < bucket_count() ends a probing of a full table;   *)
(* Probing is defined for a table it does not fail on.                     *)
(***************************************************************************)
IllegalBucket == -1
Is(s, i, state) == s.buckets[i].state = state
Holds(s, i, k) == Is(s, i, "used") /\ s.buckets[i].key = k

Probing(s, k) ==
  Min({p \in 0 .. (s.n - 1) : LET i == Probe(s.n, k, p)
                               IN  Is(s, i, "empty") \/ Holds(s, i, k)})

Position(s, k) ==
  LET i == Probe(s.n, k, Probing(s, k))
  IN  IF Holds(s, i, k) THEN i ELSE IllegalBucket

InsertPosition(s, k) ==
  LET last   == Probing(s, k)
      passed == {p \in 0 .. last : Is(s, Probe(s.n, k, p), "deleted")}
  IN  IF passed = {} THEN Probe(s.n, k, last) ELSE Probe(s.n, k, Min(passed))

\* find: end() is the illegal bucket.
Find(s, k) == IF Size(s) = 0 THEN IllegalBucket ELSE Position(s, k)

\* What begin() and ++ visit, in the order of the buckets, past the deleted ones.
Used(s) == {i \in DOMAIN s.buckets : Is(s, i, "used")}

\* move_from: what is not deleted, in the order of the buckets, in a table of n
\* buckets, at the first bucket that is empty.
FirstEmpty(t, k) ==
  Probe(t.n, k, Min({p \in 0 .. (t.n - 1) : Is(t, Probe(t.n, k, p), "empty")}))
MoveElement(t, s, i) ==
  IF i \in Used(s) THEN [t EXCEPT !.buckets[FirstEmpty(t, s.buckets[i].key)] = s.buckets[i]]
  ELSE t
Moved(s, n) ==
  LET Past[j \in 0 .. s.n] ==
        IF j = 0 THEN Empty(n) ELSE MoveElement(Past[j - 1], s, j - 1)
  IN  Past[s.n]
MoveDontCopy(s, wanted) == Moved(s, MinSize(Size(s), wanted))

\* maybe_shrink
Shrunk(s) ==
  LET fits == {n \in MinBuckets .. (s.n - 1) :
                 n = MinSize(0, n) /\ (n = MinBuckets \/ 100 * Size(s) > 32 * n)}
  IN  IF Size(s) <= ShrinkThreshold(s.n) /\ s.n > MinBuckets
      THEN MoveDontCopy(s, Max(fits))
      ELSE [s EXCEPT !.shrink = FALSE]

\* resize_delta(delta): deleted elements count as long as they are not purged.
Considered(s) == IF s.shrink THEN Shrunk(s) ELSE s
Enlarged(s, delta) ==
  LET wanted == MinSize(NumNonempty(s) + delta, 0)
  IN  IF NumNonempty(s) + delta <= EnlargeThreshold(s.n) \/ wanted <= s.n THEN s
      ELSE MoveDontCopy(s, wanted)
ResizeDelta(s, delta) == Enlarged(Considered(s), delta)

\* insert_noresize; insert.
InsertNoResize(s, item) ==
  LET i == InsertPosition(s, item.key)
  IN  IF Position(s, item.key) # IllegalBucket THEN s
      ELSE [s EXCEPT !.buckets[i] = item,
                     !.deleted = @ - (IF Is(s, i, "deleted") THEN 1 ELSE 0)]
Insert(s, item) == InsertNoResize(ResizeDelta(s, 1), item)

\* operator[] and an assignment.
AssignAt(s, k, v) ==
  LET t == IF Find(s, k) = IllegalBucket THEN Insert(s, Element(k, v)) ELSE s
  IN  [t EXCEPT !.buckets[Find(t, k)].val = v]

\* erase, once set_deleted_key was called.
EraseKey(s, k) ==
  IF Find(s, k) = IllegalBucket THEN s
  ELSE [s EXCEPT !.buckets[Find(s, k)] = Marker, !.deleted = @ + 1, !.shrink = TRUE]

\* resize(m)
Resized(s, m) ==
  LET t == IF s.shrink \/ m = 0 THEN Shrunk(s) ELSE s
  IN  IF m > NumNonempty(t) THEN ResizeDelta(t, m - NumNonempty(t)) ELSE t

Cleared(s) == Empty(s.n)

\* insert of a range: the table grows once, for all of it.
InsertAll(s, items) ==
  LET With[j \in 0 .. Len(items)] ==
        IF j = 0 THEN ResizeDelta(s, Len(items)) ELSE InsertNoResize(With[j - 1], items[j])
  IN  With[Len(items)]

\* erase of a range.
EraseRange(s, range) ==
  [s EXCEPT !.buckets = [i \in DOMAIN @ |-> IF i \in range THEN Marker ELSE @[i]],
            !.deleted = @ + Cardinality(range), !.shrink = TRUE]

\* set_deleted_key: what is deleted under the key before is purged first.
Squashed(s) == IF s.deleted > 0 THEN Moved(s, s.n) ELSE s

\* copy_from; operator= keeps the buckets it has if they are more than it needs.
CopyOf(s) == MoveDontCopy(s, 0)
AssignedTo(own, s) == Moved(s, Max({Cleared(own).n, MinSize(Size(s), 0)}))
=============================================================================
