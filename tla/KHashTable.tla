----------------------------- MODULE KHashTable -----------------------------
(***************************************************************************)
(* khash of klib, the table of KHashExcitationVector: open addressing with *)
(* quadratic probing and two flag bits per bucket, here "empty", "deleted" *)
(* or "live".  A table is a record: the number n of buckets (0 before the  *)
(* first put), size (live), occupied (live and deleted), the limit at      *)
(* which a put resizes, the flags and the elements.  A put that cannot     *)
(* allocate returns -1 and is not modelled.                                *)
(***************************************************************************)
EXTENDS Integers, Sequences, FiniteSetsExt, Probing

CONSTANT Hash       \* kh_int_hash_func of a key

\* What a bucket that is not live holds: nothing reads it.
NoItem == [key |-> "none", val |-> "none"]

\* __ac_HASH_UPPER is 0.77.
UpperBound(n) == (77 * n + 50) \div 100

Flags(n, flag) == [i \in 0 .. (n - 1) |-> flag]
NoItems(n) == [i \in 0 .. (n - 1) |-> NoItem]

\* kh_init
Initial == [n |-> 0, size |-> 0, occupied |-> 0, limit |-> 0,
            flags |-> Flags(0, "empty"), items |-> NoItems(0)]

\* The bucket of the probe number s.
Probe(n, k, s) == Bucket(n, Hash[k], s)

(***************************************************************************)
(* Where the probing for a key ends: at an empty bucket, at the key, or    *)
(* back at the first bucket (i == last).                                   *)
(***************************************************************************)
IsEmpty(h, i) == h.flags[i] = "empty"
Holds(h, i, k) == h.flags[i] = "live" /\ h.items[i].key = k
Returned(h, k, s) == s > 0 /\ Probe(h.n, k, s) = Probe(h.n, k, 0)
LastProbe(h, k) ==
  Min({s \in 0 .. (2 * h.n) : LET i == Probe(h.n, k, s)
                              IN  IsEmpty(h, i) \/ Holds(h, i, k) \/ Returned(h, k, s)})

\* kh_get: the bucket of a key, and n, which is kh_end, if it has none.
Get(h, k) ==
  IF h.n = 0 THEN 0
  ELSE LET i == Probe(h.n, k, LastProbe(h, k))
       IN  IF Holds(h, i, k) THEN i ELSE h.n

(***************************************************************************)
(* The loop of kh_resize over the old buckets, in place: an element is     *)
(* taken out and put at its first free bucket of the new size; if an old   *)
(* element is still there, that one is kicked out and goes on.  A rehash r *)
(* has the old flags, the fresh ones, the elements, and what is out of the *)
(* table: no element or one.                                               *)
(***************************************************************************)
FirstFree(n, fresh, k) ==
  Probe(n, k, Min({s \in 0 .. (2 * n) : fresh[Probe(n, k, s)] = "empty"}))

\* Mutant of Displaced: what is kicked out is lost.
DisplacedLost(r, i) == FALSE

Displaced(r, i) == i \in DOMAIN r.old /\ r.old[i] = "live"

\* One turn of the kick-out loop, which ends when nothing is out of the table.
KickOut(n, r) ==
  LET item == r.out[1]
      i    == FirstFree(n, r.fresh, item.key)
  IN  IF r.out = << >> THEN r
      ELSE [old   |-> IF Displaced(r, i) THEN [r.old EXCEPT ![i] = "deleted"] ELSE r.old,
            fresh |-> [r.fresh EXCEPT ![i] = "live"],
            items |-> [r.items EXCEPT ![i] = item],
            out   |-> IF Displaced(r, i) THEN <<r.items[i]>> ELSE << >>]

\* Every turn but the last one empties an old bucket: they are m at most.
PutBack(n, m, r) ==
  LET Turn[t \in 0 .. m] == IF t = 0 THEN r ELSE KickOut(n, Turn[t - 1])
  IN  Turn[m]

TakenOut(r, j) == [r EXCEPT !.old[j] = "deleted", !.out = <<r.items[j]>>]
Rehash(n, m, r, j) == IF Displaced(r, j) THEN PutBack(n, m, TakenOut(r, j)) ELSE r
Rehashed(n, m, start) ==
  LET After[j \in 0 .. m] == IF j = 0 THEN start ELSE Rehash(n, m, After[j - 1], j - 1)
  IN  After[m]

\* kh_resize: nothing happens if the requested size is too small.
RoundUp(m) == IF m <= 4 THEN 4 ELSE PowerAbove(m)

Resize(h, m) ==
  LET n == RoundUp(m)
      start == [old |-> h.flags, fresh |-> Flags(n, "empty"),
                items |-> [i \in 0 .. (IF n < h.n THEN h.n - 1 ELSE n - 1) |->
                             IF i < h.n THEN h.items[i] ELSE NoItem],
                out |-> << >>]
      end == Rehashed(n, h.n, start)
  IN  IF h.size >= UpperBound(n) THEN h
      ELSE [n |-> n, size |-> h.size, occupied |-> h.size, limit |-> UpperBound(n),
            flags |-> end.fresh,
            items |-> [i \in 0 .. (n - 1) |->
                         IF end.fresh[i] = "live" THEN end.items[i] ELSE NoItem]]

\* Mutant of AtLimit: deleted buckets do not count.
AtLimitLive(h) == h.size >= h.limit

AtLimit(h) == h.occupied >= h.limit

\* Before a put: a table at its limit is rehashed in place when most of what
\* occupies it is deleted, and doubled otherwise.
Prepared(h) ==
  IF ~AtLimit(h) THEN h
  ELSE IF h.n > 2 * h.size THEN Resize(h, h.n - 1) ELSE Resize(h, h.n + 1)

\* The bucket a put chooses: the key's own, else the last deleted one on the
\* way, else the empty one at the end.
Site(h, k) ==
  LET last == LastProbe(h, k)
      i    == Probe(h.n, k, last)
      passed == {s \in 0 .. (last - 1) : h.flags[Probe(h.n, k, s)] = "deleted"}
      site == IF passed = {} THEN h.n ELSE Probe(h.n, k, Max(passed))
  IN  IF Holds(h, i, k) \/ site = h.n THEN i ELSE site

\* kh_put and the assignment of the value.
PutAt(h, k, v) ==
  LET i == Site(h, k)
  IN  [h EXCEPT !.flags[i] = "live", !.items[i] = [key |-> k, val |-> v],
                !.size = @ + (IF h.flags[i] = "live" THEN 0 ELSE 1),
                !.occupied = @ + (IF h.flags[i] = "empty" THEN 1 ELSE 0)]
Put(h, k, v) == PutAt(Prepared(h), k, v)

\* kh_del; kh_clear.
Deleted(h, i) ==
  IF i = h.n \/ h.flags[i] # "live" THEN h
  ELSE [h EXCEPT !.flags[i] = "deleted", !.items[i] = NoItem, !.size = @ - 1]
Cleared(h) == [h EXCEPT !.flags = Flags(h.n, "empty"), !.size = 0, !.occupied = 0,
                        !.items = NoItems(h.n)]

\* kh_begin to kh_end where kh_exist.
Live(h) == {i \in 0 .. (h.n - 1) : h.flags[i] = "live"}
=============================================================================
