---------------------------- MODULE MCNameIdMap ----------------------------
(* Three header names, one of them in two spellings, against a map that    *)
(* has room for two names besides the categories.                          *)
EXTENDS NameIdMap

H(n, s) == [name |-> n, spelling |-> s, structured |-> FALSE]
Structured == [name |-> "from", spelling |-> "From", structured |-> TRUE]

MCHeaders == {H("x-a", "X-A"), H("x-a", "x-a"), H("x-b", "X-B"), H("keywords", "Keywords"), Structured}
MCHeaderLists == {<<>>} \cup {<<h>> : h \in MCHeaders} \cup {<<g, h>> : g, h \in MCHeaders}
=============================================================================
