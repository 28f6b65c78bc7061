-------------------------- MODULE MCStreamingTable --------------------------
(* Small heaps for StreamingTable: blocks of 24 bytes that hold at most    *)
(* three items, every second block from block 2 on a bitmap block.         *)
EXTENDS StreamingTable

\* Empty, short, long, and too long for the heap.
MCLengths == {0, 2, 7, 12}
MCRowIds  == {3, 5, 8}
=============================================================================
