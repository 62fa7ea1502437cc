------------------------------ MODULE CsrLinks ------------------------------
(***************************************************************************)
(* CSRLinksMatrix, the compressed rows a knowledge base transmits with: a  *)
(* and ja hold the values and columns of all elements row by row, and      *)
(* ia[r + 1] is how many of them lie before row r.  The matrix is made     *)
(* once; its SetElement does nothing.                                      *)
(***************************************************************************)
EXTENDS Integers, Sequences, SequencesExt

CONSTANTS NumRows, NumCols

D == INSTANCE DokVector

\* The while loop before an element of the row, and the loop after the last one.
Advance(m, row) ==
  [m EXCEPT !.ia = @ \o [i \in 1 .. (row - m.row) |-> Len(m.a)], !.row = row]

Append1(m, e) == [m EXCEPT !.a = Append(@, e.val), !.ja = Append(@, e.col)]

\* The constructor from what GetNzElements of another matrix gives: it relies on
\* the order of the rows.
CopyOf(elements) ==
  LET filled == FoldLeft(LAMBDA m, e : Append1(Advance(m, e.row), e),
                         [a |-> <<>>, ja |-> <<>>, ia |-> <<0>>, row |-> 0], elements)
      done == Advance(filled, NumRows)
  IN  [a |-> done.a, ja |-> done.ja, ia |-> done.ia]

Row(m, r) == [i \in 1 .. (m.ia[r + 2] - m.ia[r + 1]) |-> m.ia[r + 1] + i]

\* Multiply, with vec[c] for vec.GetElement(c): every row is set, to zero too.
Multiply(m, vec) ==
  FoldLeft(LAMBDA v, r :
             D!SetElement(v, r, FoldLeft(LAMBDA sum, i : sum + m.a[i] * vec[m.ja[i]],
                                         0, Row(m, r))),
           D!New, [i \in 1 .. NumRows |-> i - 1])

GetNzElements(m) ==
  FlattenSeq([i \in 1 .. NumRows |->
    [k \in DOMAIN Row(m, i - 1) |->
       [row |-> i - 1, col |-> m.ja[Row(m, i - 1)[k]], val |-> m.a[Row(m, i - 1)[k]]]]])
=============================================================================
