----------------------------- MODULE MCContexts -----------------------------
(* Data blocks of forty bytes and real record sizes: two records to a page *)
(* of the B-tree and a heap block of its own for nearly every value.       *)
EXTENDS Contexts

MCLengths == {0, 1, 39, 40, 41, 80, 81, 120, 121, 240, 241, 360, 361, 401}
MCNidSets == SUBSET {31, 63, 95, 127, 1649, 1682, 2047}

Inline == [kind |-> "inline", n |-> 4]
Bytes(n) == [kind |-> "bytes", n |-> n]
Spilled(n) == [kind |-> "spilled", n |-> n]
MCShapes == {Inline, Bytes(0), Bytes(2), Bytes(9), Bytes(17), Bytes(18), Spilled(90)}
MCIds == {3, 5, 8}
MCFillings == {<<>>,
  [i \in 1 .. 5 |-> [id |-> 12 - 2 * i, shape |-> IF i % 2 = 0 THEN Inline ELSE Bytes(i)]],
  [i \in 1 .. 3 |-> [id |-> 2 * i, shape |-> Bytes(16)]]}

\* Tags by width: the hundreds digit is the size of a value, none is variable.
MCWidth == [t \in {1, 2, 3, 101, 102, 201, 401, 801, 802, 26610, 26611} |->
              IF t >= 26610 THEN 4 ELSE t \div 100]
MCColumnLists == {<<>>, <<1>>, <<101, 1, 201, 801>>, <<101, 2, 201, 1, 201, 102, 401, 3>>}
MCCellLens == {0, 9, 18}
=============================================================================
