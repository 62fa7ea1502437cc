---------------------------- MODULE KHashVector -----------------------------
(***************************************************************************)
(* KHashExcitationVector, the excitations of a module, over khash.  A      *)
(* vector is a record: the table of its elements; the unit its values are  *)
(* counted in, since Normalize divides by the sum, which makes the sum the *)
(* unit; and stray, set when an element is written behind the arrays of    *)
(* the table, which in C++ is undefined.                                   *)
(***************************************************************************)
EXTENDS Integers, Sequences, SequencesExt, FiniteSetsExt

CONSTANT NumRows

Rows == 0 .. (NumRows - 1)

\* kh_int_hash_func is the identity.
RowHash == [r \in Rows |-> r]

K == INSTANCE KHashTable WITH Hash <- RowHash

\* The constructor; a module that is set to zero gets a new vector.
New == [table |-> K!Initial, unit |-> 1, stray |-> FALSE]

Present(v, r) == K!Get(v.table, r) # v.table.n

GetElement(v, r) ==
  IF Present(v, r) THEN v.table.items[K!Get(v.table, r)].val ELSE 0

(***************************************************************************)
(* SetElement(r, 0) writes to the bucket of r without asking whether there *)
(* is one: kh_get answers kh_end for a row without element.                *)
(***************************************************************************)
SetElementQuick(v, r, x) == [v EXCEPT !.table = K!Put(@, r, x)]

SetElement(v, r, x) ==
  IF x # 0 THEN SetElementQuick(v, r, x)
  ELSE IF Present(v, r) THEN [v EXCEPT !.table.items[K!Get(v.table, r)].val = 0]
  ELSE [v EXCEPT !.stray = TRUE]

GetNnz(v) == v.table.size

\* A std::set of pairs of what the buckets hold, so in the order of the rows.
GetNzElements(v) ==
  LET Holder(r) == {i \in K!Live(v.table) : v.table.items[i].key = r}
      rows == SelectSeq([i \in 1 .. NumRows |-> i - 1], LAMBDA r : Holder(r) # {})
  IN  [i \in DOMAIN rows |-> <<rows[i], v.table.items[Min(Holder(rows[i]))].val>>]

\* A loop of SetElement over such pairs.
SetAll(v, elements) == FoldLeft(LAMBDA w, e : SetElement(w, e[1], e[2]), v, elements)

PositiveClip(x) == Max({x, 0})
Add(v, elements) ==
  FoldLeft(LAMBDA w, e : SetElement(w, e[1], PositiveClip(e[2] + GetElement(w, e[1]))),
           v, elements)

Sum(v) == MapThenSumSet(LAMBDA i : v.table.items[i].val, K!Live(v.table))

Normalize(v) == IF Sum(v) > 0 THEN [v EXCEPT !.unit = @ * Sum(v)] ELSE v
=============================================================================
