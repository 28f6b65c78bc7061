------------------------------- MODULE MCNdb -------------------------------
(* Small geometries for Ndb: pages of two slots, maps of eight slots, a    *)
(* page map in every second span, blocks of one to three slots.            *)
EXTENDS Ndb

MCShapes  == {<<1, TRUE>>, <<2, FALSE>>, <<3, FALSE>>}
MCOneSlot == {<<1, FALSE>>}

\* Packed NIDs, index * 32 + type: a folder and two messages; the folder's
\* index is below the user range of the instance.
MCOneNid == {1028}
MCNids   == {1026, 1028, 1124}
=============================================================================
