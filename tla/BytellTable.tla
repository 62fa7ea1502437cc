----------------------------- MODULE BytellTable ----------------------------
(***************************************************************************)
(* ska::bytell_hash_map, the table of SymbolMapping and of every node of   *)
(* HashTrie: closed addressing with the chains laid out in one array.      *)
(*                                                                         *)
(* A slot is empty, a direct hit (an element at the slot its hash gives),  *)
(* an entry of a chain (an element elsewhere) or reserved; its metadata    *)
(* byte also holds the number of the jump that leads to the next slot of   *)
(* its chain, 0 at the end.  A table is a record: n slots, 0 before the    *)
(* first allocation (entries is the shared empty block), the slots and     *)
(* num_elements.  Blocks of 8 slots are a matter of layout and left out.   *)
(***************************************************************************)
EXTENDS Integers, Sequences, SequencesExt, FiniteSetsExt

CONSTANTS Hash,       \* the hash of a key after the fibonacci multiplication
          HashBits,   \* the bits of that hash: 64
          Jumps,      \* jump_distances, without the 0 of the end of a chain
          MinGrow     \* the least size grow() asks for: 10

NoItem == [key |-> "none", val |-> "none"]
EmptySlot == [kind |-> "empty", jump |-> 0, item |-> NoItem]
Allocated(n) == [n |-> n, slots |-> [i \in 0 .. (n - 1) |-> EmptySlot], size |-> 0]
Unallocated == Allocated(0)

\* index_for_hash: the upper bits; keep_in_range: the lower ones.
Home(t, k) == Hash[k] \div ((2 ^ HashBits) \div t.n)
JumpTo(t, i, j) == (i + Jumps[j]) % t.n
Following(t, i) == JumpTo(t, i, t.slots[i].jump)
HasNext(t, i) == t.slots[i].jump # 0

\* The slots of the chain from slot i on.
Chain(t, i) ==
  LET From[j \in 0 .. (t.n - 1)] ==
        IF HasNext(t, j) THEN <<j>> \o From[Following(t, j)] ELSE <<j>>
  IN  From[i]

\* find: the slot of a key, and -1 for end().
NotFound == -1
Find(t, k) ==
  IF t.n = 0 THEN NotFound
  ELSE LET home  == Home(t, k)
           chain == Chain(t, home)
           hits  == {i \in DOMAIN chain : t.slots[chain[i]].item.key = k}
       IN  IF t.slots[home].kind # "direct" \/ hits = {} THEN NotFound
           ELSE chain[Min(hits)]

\* begin() and ++, from the last slot to the first.
Iterated(t) == SelectSeq([i \in 1 .. t.n |-> t.n - i],
                         LAMBDA i : t.slots[i].kind # "empty")

IsFull(t) == t.n = 0 \/ 16 * (t.size + 1) > 15 * t.n
NumBucketsForReserve(m) == (16 * m + 14) \div 15

\* next_size_over
NextSizeOver(m) == Min({n \in {2 ^ b : b \in 1 .. HashBits} : n >= m})

Put(t, i, kind, item) ==
  [t EXCEPT !.slots[i] = [kind |-> kind, jump |-> 0, item |-> item]]
SetNext(t, i, j) == [t EXCEPT !.slots[i].jump = j]
ClearNext(t, i) == SetNext(t, i, 0)

\* find_parent_block: the slot of the chain whose next one is child.
ParentOf(t, child) ==
  LET chain == Chain(t, Home(t, t.slots[child].item.key))
  IN  chain[Min({i \in 1 .. (Len(chain) - 1) : chain[i + 1] = child})]

\* find_free_index: the first jump from slot i to an empty slot, 0 if none.
FreeJump(t, i) ==
  LET free == {j \in DOMAIN Jumps : t.slots[JumpTo(t, i, j)].kind = "empty"}
  IN  IF free = {} THEN 0 ELSE Min(free)

\* Mutant of Vacated: the slot the chain leaves is not reserved.
VacatedOpen(t, head, i) == [t EXCEPT !.slots[i] = EmptySlot]

\* The slot a moved element leaves is empty, but the one the new key waits for
\* is reserved while the rest of the chain moves.
Vacated(t, head, i) ==
  LET left == [t EXCEPT !.slots[i] = EmptySlot]
  IN  IF HasNext(t, i) THEN [left EXCEPT !.slots[head].kind = "reserved"] ELSE left

(***************************************************************************)
(* The loop of emplace_direct_hit: the chain from slot i on moves, one     *)
(* element at a time, to free slots behind parent.  It stops where no jump *)
(* of the last moved element leads to a free slot.                         *)
(***************************************************************************)
RECURSIVE Relocated(_, _, _, _)
Relocated(t, parent, head, i) ==
  LET j  == FreeJump(t, parent)
      to == JumpTo(t, parent, j)
      moved == Vacated(SetNext(Put(t, to, "entry", t.slots[i].item), parent, j), head, i)
  IN  IF j = 0 THEN [table |-> t, done |-> FALSE]
      ELSE IF ~HasNext(t, i) THEN [table |-> moved, done |-> TRUE]
      ELSE Relocated(moved, to, head, Following(t, i))

Counted(t) == [t EXCEPT !.size = @ + 1]

(***************************************************************************)
(* emplace with emplace_direct_hit and emplace_new_key, rehash and grow,   *)
(* which call each other: a table that is full, or where no jump leads to  *)
(* a free slot, is grown and the element is emplaced again.                *)
(***************************************************************************)
RECURSIVE Emplace(_, _)

\* rehash: every element is emplaced in a new table, in the order of the slots.
Rehash(t, m) ==
  LET wanted == Max({m, NumBucketsForReserve(t.size)})
      n      == NextSizeOver(wanted)
      live   == SelectSeq([i \in 1 .. t.n |-> t.slots[i - 1]],
                          LAMBDA s : s.kind \notin {"empty", "reserved"})
  IN  IF wanted = 0 THEN Unallocated
      ELSE IF n = t.n THEN t
      ELSE FoldLeft(LAMBDA new, s : Emplace(new, s.item), Allocated(n), live)

Grow(t) == Rehash(t, Max({MinGrow, 2 * t.n}))

EmplaceDirectHit(t, item) ==
  LET home  == Home(t, item.key)
      moved == Relocated(t, ParentOf(t, home), home, home)
  IN  IF t.slots[home].kind = "empty" THEN Counted(Put(t, home, "direct", item))
      ELSE IF moved.done THEN Counted(Put(moved.table, home, "direct", item))
      ELSE Emplace(Grow(moved.table), item)

EmplaceNewKey(t, parent, item) ==
  LET j == FreeJump(t, parent)
  IN  IF j = 0 THEN Emplace(Grow(t), item)
      ELSE Counted(SetNext(Put(t, JumpTo(t, parent, j), "entry", item), parent, j))

Emplace(t, item) ==
  IF Find(t, item.key) # NotFound THEN t
  ELSE IF IsFull(t) THEN Emplace(Grow(t), item)
  ELSE LET home == Home(t, item.key)
       IN  IF t.slots[home].kind # "direct" THEN EmplaceDirectHit(t, item)
           ELSE EmplaceNewKey(t, Last(Chain(t, home)), item)

\* emplace(key, value).first->second = value
AssignAt(t, k, v) ==
  LET u == Emplace(t, [key |-> k, val |-> v])
  IN  [u EXCEPT !.slots[Find(u, k)].item.val = v]

\* erase: the last element of the chain takes the place of the erased one.
EraseAt(t, i) ==
  LET chain == Chain(t, i)
      last  == Last(chain)
      filled == [t EXCEPT !.slots[i].item = t.slots[last].item,
                          !.slots[last] = EmptySlot]
      rest  == IF HasNext(t, i) THEN ClearNext(filled, chain[Len(chain) - 1])
               ELSE [IF t.slots[i].kind = "direct" THEN t
                     ELSE ClearNext(t, ParentOf(t, i)) EXCEPT !.slots[i] = EmptySlot]
  IN  [rest EXCEPT !.size = @ - 1]

EraseKey(t, k) == IF Find(t, k) = NotFound THEN t ELSE EraseAt(t, Find(t, k))

Cleared(t) == Allocated(t.n)

(***************************************************************************)
(* erase of the slots of a range.  An erased slot is refilled from the end *)
(* of its chain, so the deepest ones of every chain go first.              *)
(***************************************************************************)
Depth(t, i) ==
  LET chain == Chain(t, Home(t, t.slots[i].item.key))
  IN  CHOOSE d \in DOMAIN chain : chain[d] = i

EraseRange(t, range) ==
  LET Deeper(i, j) == Depth(t, i) > Depth(t, j)
  IN  IF range = ToSet(Iterated(t)) THEN Cleared(t)
      ELSE FoldLeft(EraseAt, t, SetToSortSeq(range, Deeper))

\* reserve; rehash_for_other_container, of shrink_to_fit and of a copy.
Reserved(t, m) ==
  IF NumBucketsForReserve(m) > t.n THEN Rehash(t, NumBucketsForReserve(m)) ELSE t

ForOther(t, other) == Rehash(t, Min({NumBucketsForReserve(other.size), other.n}))
ShrunkToFit(t) == ForOther(t, t)

\* insert of a range, one after the other; operator= and the copy constructor.
InsertAll(t, items) == FoldLeft(Emplace, t, items)

AssignedTo(own, t) ==
  InsertAll(ForOther(Cleared(own), t), [i \in DOMAIN Iterated(t) |-> t.slots[Iterated(t)[i]].item])

CopyOf(t) == AssignedTo(Unallocated, t)
=============================================================================
