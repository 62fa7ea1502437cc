------------------------------- MODULE HashMap ------------------------------
(***************************************************************************)
(* What every hash table of the repository promises: a map from keys to    *)
(* values.  The tables below it differ in where they put an element; the   *)
(* map does not know of places, probes or growing.                         *)
(***************************************************************************)
EXTENDS Functions

VARIABLE dict      \* the map, a function whose domain grows and shrinks

\* f, and g where f has no value: the @@ of TLC, which provers do not know.
Over(f, g) == [k \in DOMAIN f \cup DOMAIN g |-> IF k \in DOMAIN f THEN f[k] ELSE g[k]]
Single(k, v) == [x \in {k} |-> v]

MapInit == dict = << >>

\* insert: the first value of a key stays.
MapInsert(k, v) == dict' = Over(dict, Single(k, v))

\* insert of a range: one after the other.
MapInsertAll(ks, v) == dict' = Over(dict, [k \in ks |-> v])

\* operator[] and an assignment: the last value of a key stays.
MapAssign(k, v) == dict' = Over(Single(k, v), dict)

MapEraseAll(ks) == dict' = Restrict(dict, DOMAIN dict \ ks)
MapErase(k) == MapEraseAll({k})

MapClear == dict' = << >>

MapUnchanged == UNCHANGED dict
=============================================================================
