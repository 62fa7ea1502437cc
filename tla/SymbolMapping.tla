--------------------------- MODULE SymbolMapping ----------------------------
(***************************************************************************)
(* SymbolMapping, the indices of the symbols of a level: all_symbols_ owns *)
(* the symbols, and the two other maps hold pointers to what it owns; a    *)
(* pointer is here the symbol it points to, since a table that grows moves *)
(* the owners and not the symbols.                                         *)
(***************************************************************************)
EXTENDS Integers, Sequences, SequencesExt, FiniteSets, TLC

EmptyMapping == [symbols |-> {}, toIndex |-> <<>>, toSymbol |-> <<>>]

\* Contains.
HasSymbol(m, s) == s \in m.symbols
IndexOf(m, s) == m.toIndex[s]
GetSymbol(m, i) == m.toSymbol[i]
GetAllSymbols(m) == m.symbols

\* Mutant of NextIndex: the size is asked for after the insertion.
IndexAfter(m) == Cardinality(m.symbols) + 1

NextIndex(m) == Cardinality(m.symbols)

Inserted(map, k, v) == [x \in DOMAIN map \cup {k} |-> IF x = k THEN v ELSE map[x]]

AddSymbol(m, s) ==
  IF HasSymbol(m, s) THEN m
  ELSE [symbols  |-> m.symbols \cup {s},
        toIndex  |-> Inserted(m.toIndex, s, NextIndex(m)),
        toSymbol |-> Inserted(m.toSymbol, NextIndex(m), s)]
=============================================================================
