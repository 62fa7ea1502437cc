---------------------------- MODULE SparseLinks -----------------------------
(***************************************************************************)
(* SparseHashLinksMatrix, the matrix a knowledge base learns in, over      *)
(* sparse_hash_map.  Nothing ever calls set_deleted_key, so a map that has *)
(* to erase an element fails the assertion of set_deleted: aborted.        *)
(***************************************************************************)
EXTENDS Integers, Sequences, SequencesExt, FiniteSetsExt

CONSTANTS NumRows, NumCols,
          MaxCol,       \* std::numeric_limits<TCol>::max()
          MinBuckets    \* of sparse_hash_map

Rows == 0 .. (NumRows - 1)
Cols == 0 .. (NumCols - 1)

\* PairHash, while the product is within int.
PairHash == [p \in Rows \X Cols |-> p[1] * MaxCol + p[2]]

S == INSTANCE SparseTable WITH Hash <- PairHash

D == INSTANCE DokVector

New == [map |-> S!Initial, aborted |-> FALSE]

GetElement(m, r, c) ==
  LET i == S!Find(m.map, <<r, c>>)
  IN  IF i = S!IllegalBucket THEN 0 ELSE m.map.buckets[i].val

SetElementQuick(m, r, c, x) == [m EXCEPT !.map = S!AssignAt(@, <<r, c>>, x)]

SetElement(m, r, c, x) ==
  IF x # 0 THEN SetElementQuick(m, r, c, x)
  ELSE [m EXCEPT !.aborted = @ \/ S!Find(m.map, <<r, c>>) # S!IllegalBucket]

\* A std::set of pairs, so in the order of rows and, in a row, of columns.
GetNzElements(m) ==
  LET At(i) == <<(i - 1) \div NumCols, (i - 1) % NumCols>>
      Bucket(p) == {i \in DOMAIN m.map.buckets : S!Holds(m.map, i, p)}
      indices == SelectSeq([i \in 1 .. (NumRows * NumCols) |-> i],
                           LAMBDA i : Bucket(At(i)) # {})
  IN  [k \in DOMAIN indices |->
         [row |-> At(indices[k])[1], col |-> At(indices[k])[2],
          val |-> m.map.buckets[Min(Bucket(At(indices[k])))].val]]

\* The constructor from another matrix.
CopyOf(elements) ==
  FoldLeft(LAMBDA m, e : [m EXCEPT !.map = S!Insert(@, S!Element(<<e.row, e.col>>, e.val))],
           New, elements)

\* Multiply: column by column of the elements of the vector, row by row.
\* Mutant of Times: the column before is forgotten.
TimesAlone(m, v, r, e) ==
  LET link == GetElement(m, r, e[1])
  IN  IF link = 0 THEN v ELSE D!SetElement(v, r, link * e[2])

Times(m, v, r, e) ==
  LET link == GetElement(m, r, e[1])
  IN  IF link = 0 THEN v ELSE D!SetElement(v, r, D!GetElement(v, r) + link * e[2])

Multiply(m, elements) ==
  FoldLeft(LAMBDA result, e :
             FoldLeft(LAMBDA v, r : Times(m, v, r, e), result, [i \in 1 .. NumRows |-> i - 1]),
           D!New, elements)
=============================================================================
