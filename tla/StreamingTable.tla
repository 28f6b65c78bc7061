--------------------------- MODULE StreamingTable ---------------------------
(***************************************************************************)
(* A folder's contents table, written while messages arrive: StreamingHeap *)
(* and TableContextWriter of src/src/pst/streaming_table.cpp, with the     *)
(* B-tree-on-heap of heap.h that closes the table.                         *)
(*                                                                         *)
(* The caller is PstWriter: addMessage() begins a row, sets its strings    *)
(* and ends it, and gives the row up when a call throws; writeFolders()    *)
(* finishes the table once.  A heap item carries what it holds and its     *)
(* length; a leaf chunk handed to the node database is the items or the    *)
(* rows in it.  A chunk may fail to be written, and then every later one   *)
(* fails too.                                                              *)
(***************************************************************************)
EXTENDS Integers, Sequences, FiniteSets, FiniteSetsExt

CONSTANTS
  BlockSize,     \* kMaxBlockData
  HnHdr,         \* kHnHdrSize, header of block 0
  PageHdr,       \* kHnPageHdrSize
  BitmapHdr,     \* kHnBitmapHdrSize, header of every BitmapEvery-th block
  FirstBitmap,   \* index of the first bitmap block
  BitmapEvery,
  MaxItems,      \* allocations per block, the 11-bit limit of an HID
  MaxIndex,      \* largest block index, the 16-bit limit of an HID
  RowsPerBlock,  \* rows_per_block_
  Columns,       \* number of string cells addMessage() sets in a row
  Lengths,       \* the lengths such a cell may have
  RowIds,        \* the NIDs of the messages, in no particular order
  RecordLen,     \* bytes of one BTH record, and of one BTH index entry
  MaxLevels,     \* BTH depth limit
  BthHdrLen,     \* length of a BTHHEADER
  InfoLen        \* length of the TCINFO

ASSUME TableAssumption ==
  /\ {BlockSize, HnHdr, PageHdr, BitmapHdr, FirstBitmap, BitmapEvery, MaxItems, MaxIndex,
      RowsPerBlock, Columns, RecordLen, MaxLevels, BthHdrLen, InfoLen} \subseteq Nat \ {0}
  /\ Lengths \subseteq Nat /\ RowIds \subseteq Nat
  /\ HnHdr <= BitmapHdr /\ PageHdr <= BitmapHdr
  /\ \A len \in {RecordLen, BthHdrLen, InfoLen} : len + BitmapHdr + 9 <= BlockSize

VARIABLES
  block0,     \* block0_: the block held back until finish()
  current,    \* current_: the block being filled
  index,      \* current_index_
  leaves,     \* leaves_: the heap's blocks in reading order, the first reserved
  userRoot,   \* user_root_
  rowBlock,   \* row_block_: rows not yet written
  rowLeaves,  \* row_leaves_: blocks of rows
  rowIndex,   \* row_index_: row id and ordinal
  rowCount,   \* row_count_
  inRow,      \* in_row_
  row,        \* current_row_: its id and the cells set so far
  subnodes,   \* subnodes_: values too long for the heap
  bth,        \* locals of buildBthInto
  pc,         \* what the caller is doing
  kept,       \* rows addMessage() completed, and so counted
  bad         \* the node database can no longer write
vars == <<block0, current, index, leaves, userRoot, rowBlock, rowLeaves, rowIndex,
          rowCount, inRow, row, subnodes, bth, pc, kept, bad>>

heapVars == <<block0, current, index, leaves>>
tableVars == <<rowBlock, rowLeaves, rowIndex, rowCount, inRow, row, subnodes, kept>>

----------------------------------------------------------------------------
(* Geometry of a heap block.                                               *)

Empty == [items |-> <<>>, used |-> 0]
NoHid == <<0, 0>>

isBitmapBlock(i) == i >= FirstBitmap /\ (i - FirstBitmap) % BitmapEvery = 0

blockHeaderSize(i) == CASE i = 0 -> HnHdr [] isBitmapBlock(i) -> BitmapHdr [] OTHER -> PageHdr

pageMapSize(n) == 4 + 2 * (n + 1)

maxAllocSize == BlockSize - BitmapHdr - pageMapSize(1) - 1

\* Fault: the page map is sized without the item about to be added.
fits_OldPageMap(b, i, len) ==
  blockHeaderSize(i) + b.used + len + pageMapSize(Len(b.items)) + 1 <= BlockSize

\* The extra byte is the one that may be needed to align the page map.
fits(b, i, len) ==
  blockHeaderSize(i) + b.used + len + pageMapSize(Len(b.items) + 1) + 1 <= BlockSize

\* makeHid: 16 bits of block index and 11 of allocation index.
makeHid(i, n) == <<i % (MaxIndex + 1), n % (MaxItems + 1)>>

Filled(b, item) == [items |-> Append(b.items, item), used |-> b.used + item.len]

\* renderBlock: only the last block of the heap is shorter than BlockSize.
Aligned(n) == n + (n % 2)
renderBlock(b, i, last) ==
  [items |-> b.items,
   size  |-> IF last THEN Aligned(blockHeaderSize(i) + b.used) + pageMapSize(Len(b.items))
             ELSE BlockSize]

----------------------------------------------------------------------------
(* alloc().  The block an allocation lands in, the identifier it gets, and *)
(* what the call does to the heap.  When it throws, the block just flushed *)
(* and the advanced index stay as they are.                                *)

InBlock0(len) == index = 0 /\ fits(block0, 0, len) /\ Len(block0.items) < MaxItems
InCurrent(len) == index > 0 /\ fits(current, index, len) /\ Len(current.items) < MaxItems

NewHid(len) ==
  IF InBlock0(len) THEN makeHid(0, Len(block0.items) + 1)
  ELSE IF InCurrent(len) THEN makeHid(index, Len(current.items) + 1)
  ELSE makeHid(index + 1, 1)

\* Fault: a block in the middle of the heap is not padded.
flushCurrent_Unpadded == leaves' = Append(leaves, renderBlock(current, index, TRUE))

flushCurrent == leaves' = Append(leaves, renderBlock(current, index, FALSE))

\* Fault: the block index is not checked against the 16 bits an HID has.
alloc_NoLimit(item) ==
  \/ /\ InBlock0(item.len)
     /\ block0' = Filled(block0, item) /\ UNCHANGED <<current, index, leaves, bad>>
  \/ /\ index = 0 /\ ~InBlock0(item.len)
     /\ index' = 1 /\ current' = Filled(current, item)
     /\ UNCHANGED <<block0, leaves, bad>>
  \/ /\ InCurrent(item.len)
     /\ current' = Filled(current, item) /\ UNCHANGED <<block0, index, leaves, bad>>
  \/ /\ index > 0 /\ ~InCurrent(item.len)
     /\ ~bad /\ flushCurrent
     /\ index' = index + 1 /\ current' = Filled(Empty, item)
     /\ UNCHANGED <<block0, bad>>

alloc(item) ==
  \/ /\ InBlock0(item.len)
     /\ block0' = Filled(block0, item) /\ UNCHANGED <<current, index, leaves, bad>>
  \/ /\ index = 0 /\ ~InBlock0(item.len)
     /\ index' = 1 /\ current' = Filled(current, item)
     /\ UNCHANGED <<block0, leaves, bad>>
  \/ /\ InCurrent(item.len)
     /\ current' = Filled(current, item) /\ UNCHANGED <<block0, index, leaves, bad>>
  \/ /\ index > 0 /\ ~InCurrent(item.len) /\ index < MaxIndex
     /\ ~bad /\ flushCurrent
     /\ index' = index + 1 /\ current' = Filled(Empty, item)
     /\ UNCHANGED <<block0, bad>>

allocThrows(len) ==
  /\ index > 0 /\ ~InCurrent(len)
  /\ UNCHANGED block0
  /\ \/ /\ index >= MaxIndex /\ ~bad /\ flushCurrent
        /\ index' = index + 1 /\ current' = Empty /\ UNCHANGED bad
     \/ bad' = TRUE /\ UNCHANGED <<current, index, leaves>>

----------------------------------------------------------------------------
(* A row of addMessage(): beginRow, one setString per column, endRow.      *)

Item(kind, data, len) == [kind |-> kind, data |-> data, len |-> len]

beginRow(id) ==
  /\ pc = "idle" /\ ~inRow
  /\ id \notin {e.id : e \in rowIndex}
  /\ inRow' = TRUE
  /\ row' = [id |-> id, cells |-> <<>>]
  /\ rowIndex' = rowIndex \cup {[id |-> id, ordinal |-> rowCount]}
  /\ pc' = "cells"
  /\ UNCHANGED <<heapVars, userRoot, rowBlock, rowLeaves, rowCount, subnodes, bth, kept, bad>>

SetCell(ref) == row' = [row EXCEPT !.cells = Append(@, ref)]
\* Fault: one cell too many.
AfterCell_OneMore == pc' = IF Len(row.cells) + 1 > Columns THEN "end" ELSE "cells"

AfterCell == pc' = IF Len(row.cells) + 1 = Columns THEN "end" ELSE "cells"

\* setString / setBinary: nothing, a heap item, or a subnode, by length.
setBinary(len) ==
  LET value == Item("cell", <<row.id, Len(row.cells) + 1>>, len)
  IN  /\ pc = "cells"
      /\ \/ /\ len = 0
            /\ SetCell([in |-> "nowhere", at |-> 0]) /\ AfterCell
            /\ UNCHANGED <<heapVars, subnodes, bad>>
         \/ /\ len \in 1 .. maxAllocSize /\ alloc(value)
            /\ SetCell([in |-> "heap", at |-> NewHid(len)]) /\ AfterCell
            /\ UNCHANGED subnodes
         \/ /\ len > maxAllocSize /\ ~bad
            /\ subnodes' = Append(subnodes, value)
            /\ SetCell([in |-> "subnode", at |-> Len(subnodes) + 1]) /\ AfterCell
            /\ UNCHANGED <<heapVars, bad>>
         \/ /\ len \in 1 .. maxAllocSize /\ allocThrows(len)
            /\ pc' = "idle" /\ UNCHANGED <<row, subnodes>>
         \/ /\ len > maxAllocSize /\ bad' = TRUE
            /\ pc' = "idle" /\ UNCHANGED <<heapVars, row, subnodes>>
      /\ UNCHANGED <<userRoot, rowBlock, rowLeaves, rowIndex, rowCount, inRow, bth, kept>>

\* endRow: a full block of rows is written before the row joins the next one.
RowBlockFull == Len(rowBlock) + 1 > RowsPerBlock

endRow ==
  /\ pc = "end"
  /\ inRow' = FALSE /\ pc' = "idle"
  /\ \/ /\ RowBlockFull /\ ~bad
        /\ rowLeaves' = Append(rowLeaves, rowBlock) /\ rowBlock' = <<row>>
        /\ rowCount' = rowCount + 1 /\ kept' = kept \cup {row.id} /\ UNCHANGED bad
     \/ /\ ~RowBlockFull
        /\ rowBlock' = Append(rowBlock, row)
        /\ rowCount' = rowCount + 1 /\ kept' = kept \cup {row.id} /\ UNCHANGED <<rowLeaves, bad>>
     \/ /\ RowBlockFull /\ bad' = TRUE
        /\ UNCHANGED <<rowBlock, rowLeaves, rowCount, kept>>
  /\ UNCHANGED <<heapVars, userRoot, rowIndex, row, subnodes, bth>>

----------------------------------------------------------------------------
(* finish(): the last rows, the row index as a B-tree on the heap, the     *)
(* table header, and at last block 0, which goes to the head of the list.  *)

Lost == pc' = "lost" /\ UNCHANGED <<userRoot, bth>>

finish ==
  /\ pc = "idle"
  /\ \/ /\ ~bad
        /\ rowLeaves' = IF rowBlock = <<>> THEN rowLeaves ELSE Append(rowLeaves, rowBlock)
        /\ rowBlock' = <<>>
        /\ bth' = [level |-> 0, todo |-> {<<e.id, e.ordinal>> : e \in rowIndex},
                   next |-> {}, root |-> NoHid]
        /\ pc' = IF rowIndex = {} THEN "header" ELSE "bth"
        /\ UNCHANGED <<userRoot, bad>>
     \/ bad' = TRUE /\ Lost /\ UNCHANGED <<rowBlock, rowLeaves>>
  /\ UNCHANGED <<heapVars, rowIndex, rowCount, inRow, row, subnodes, kept>>

\* One page of buildBthInto: the smallest keys left, named by the first.
perPage == Max({1, maxAllocSize \div RecordLen})
NextPage == {e \in bth.todo : Cardinality({f \in bth.todo : f[1] < e[1]}) < perPage}

BthPage ==
  LET key  == Min({e[1] : e \in NextPage})
      page == Item(IF bth.level = 0 THEN "leaf" ELSE "index", NextPage, RecordLen * Cardinality(NextPage))
      todo == bth.todo \ NextPage
      next == bth.next \cup {<<key, NewHid(page.len)>>}
  IN  /\ pc = "bth"
      /\ \/ /\ alloc(page) /\ UNCHANGED userRoot
            /\ CASE todo # {} ->
                      bth' = [bth EXCEPT !.todo = todo, !.next = next] /\ UNCHANGED pc
                 [] todo = {} /\ Cardinality(next) = 1 ->
                      /\ bth' = [bth EXCEPT !.todo = {}, !.next = {}, !.root = NewHid(page.len)]
                      /\ pc' = IF bth.level > MaxLevels THEN "lost" ELSE "header"
                 [] todo = {} /\ Cardinality(next) > 1 ->
                      /\ bth' = [bth EXCEPT !.level = @ + 1, !.todo = next, !.next = {}]
                      /\ pc' = IF bth.level > MaxLevels THEN "lost" ELSE "bth"
         \/ allocThrows(page.len) /\ Lost
      /\ UNCHANGED tableVars

BthHeader ==
  LET header == Item("bth", [levels |-> bth.level, root |-> bth.root], BthHdrLen)
  IN  /\ pc = "header"
      /\ \/ /\ alloc(header) /\ pc' = "info"
            /\ bth' = [bth EXCEPT !.root = NewHid(BthHdrLen)] /\ UNCHANGED userRoot
         \/ allocThrows(BthHdrLen) /\ Lost
      /\ UNCHANGED tableVars

Info ==
  /\ pc = "info"
  /\ \/ /\ alloc(Item("info", bth.root, InfoLen)) /\ pc' = "close"
        /\ userRoot' = NewHid(InfoLen) /\ UNCHANGED bth
     \/ allocThrows(InfoLen) /\ Lost
  /\ UNCHANGED tableVars

\* StreamingHeap::finish, then the two trees over what was written.
CloseHeap ==
  /\ pc = "close"
  /\ \/ /\ ~bad
        /\ leaves' = [(IF index = 0 THEN leaves
                       ELSE Append(leaves, renderBlock(current, index, TRUE)))
                      EXCEPT ![1] = renderBlock(block0, 0, index = 0)]
        /\ pc' = "done" /\ UNCHANGED <<userRoot, bth, bad>>
     \/ bad' = TRUE /\ Lost /\ UNCHANGED leaves
  /\ UNCHANGED <<block0, current, index, tableVars>>

----------------------------------------------------------------------------
Init ==
  /\ block0 = Empty /\ current = Empty /\ index = 0 /\ leaves = <<Empty>>
  /\ userRoot = NoHid
  /\ rowBlock = <<>> /\ rowLeaves = <<>> /\ rowIndex = {} /\ rowCount = 0
  /\ inRow = FALSE /\ row = [id |-> 0, cells |-> <<>>] /\ subnodes = <<>> /\ kept = {}
  /\ bth = [level |-> 0, todo |-> {}, next |-> {}, root |-> NoHid]
  /\ pc = "idle" /\ bad = FALSE

Next ==
  \/ \E id \in RowIds : beginRow(id)
  \/ \E len \in Lengths : setBinary(len)
  \/ endRow
  \/ finish
  \/ BthPage
  \/ BthHeader
  \/ Info
  \/ CloseHeap

Spec == Init /\ [][Next]_vars

----------------------------------------------------------------------------
(* Correctness.                                                            *)

Kinds == {"cell", "leaf", "index", "bth", "info"}

\* The members of the two writers keep their types; a row never gets more cells
\* than addMessage() sets.
TypeOK ==
  /\ block0.used \in Nat /\ \A i \in DOMAIN block0.items : block0.items[i].kind \in Kinds
  /\ current.used \in Nat /\ \A i \in DOMAIN current.items : current.items[i].kind \in Kinds
  /\ index \in Nat /\ rowCount \in Nat /\ inRow \in BOOLEAN /\ bad \in BOOLEAN
  /\ userRoot \in (0 .. MaxIndex) \X (0 .. MaxItems)
  /\ \A e \in rowIndex : e.id \in RowIds /\ e.ordinal \in Nat
  /\ kept \subseteq RowIds
  /\ pc \in {"idle", "cells", "end", "bth", "header", "info", "close", "done", "lost"}
  /\ Len(row.cells) <= Columns /\ (pc = "end" => Len(row.cells) = Columns)

\* The bytes renderBlock() lays out for a block.
Rendered(b, i) == Aligned(blockHeaderSize(i) + b.used) + pageMapSize(Len(b.items))

\* No block ever holds more than renderBlock() can lay out in one data block, so
\* the page map never runs into the items, at any mix of lengths, in the block
\* with the long header, the ones with the short header and the bitmap blocks.
BlocksFit ==
  /\ Rendered(block0, 0) <= BlockSize /\ Rendered(current, index) <= BlockSize
  /\ Len(block0.items) <= MaxItems /\ Len(current.items) <= MaxItems

\* "HID block indexes stay in step with the data tree's leaves"
\* (streaming_table.cpp:76-77): the block being filled is the next leaf, and
\* chunks are "exactly kMaxBlockData bytes except the last" (ndb.h:49-50).
InStep ==
  /\ pc # "done" => Len(leaves) = Max({1, index})
  /\ \A k \in DOMAIN leaves :
       k > 1 /\ (pc = "done" => k < Len(leaves)) => leaves[k].size = BlockSize
  /\ pc = "done" => Len(leaves) = index + 1 /\ (index > 0 => leaves[1].size = BlockSize)

\* What a reader of the finished table does: an HID is a leaf and a place in
\* it, an ordinal a row block and a place in it, a row id a path down the BTH.
\* An HID that leads to nothing, or to an item of another kind, reads as none.
ReadHeap(hid, kind, none) ==
  IF /\ hid[1] + 1 \in DOMAIN leaves /\ hid[2] \in DOMAIN leaves[hid[1] + 1].items
     /\ leaves[hid[1] + 1].items[hid[2]].kind = kind
  THEN leaves[hid[1] + 1].items[hid[2]].data ELSE none

RowAt(n) == rowLeaves[n \div RowsPerBlock + 1][(n % RowsPerBlock) + 1]

\* The last entry of a page whose key is not above id, and the page an HID
\* leads to on level l.
LastUpTo(page, id) ==
  LET below == {e \in page : e[1] <= id}
  IN  IF below = {} THEN <<0, NoHid>> ELSE CHOOSE e \in below : \A f \in below : f[1] <= e[1]

IndexPage(hid, l) == ReadHeap(hid, IF l = 0 THEN "leaf" ELSE "index", {})

LeafFor(id, root, levels) ==
  LET path[l \in 0 .. levels] ==
        IndexPage(IF l = levels THEN root ELSE LastUpTo(path[l + 1], id)[2], l)
  IN  path[0]

LookUp(id) ==
  LET info   == ReadHeap(userRoot, "info", NoHid)
      header == ReadHeap(info, "bth", [levels |-> 0, root |-> NoHid])
  IN  LastUpTo(LeafFor(id, header.root, header.levels), id)

CellOf(id, c, cell) ==
  CASE cell.in = "heap"    -> ReadHeap(cell.at, "cell", NoHid) = <<id, c>>
    [] cell.in = "subnode" -> subnodes[cell.at].data = <<id, c>>
    [] OTHER               -> TRUE

\* A table whose finish() returned can be read back: every message that was
\* counted is found by its id, its row is its own, and every cell of the row
\* leads to the string that was set, whichever block, flush or subnode it went
\* through; and the index names no message that was given up.
TableReadable ==
  pc = "done" =>
    /\ {e.id : e \in rowIndex} = kept
    /\ \A id \in kept :
         LET found == LookUp(id)
             r     == RowAt(found[2])
         IN  found[1] = id /\ r.id = id /\ Len(r.cells) = Columns
             /\ \A c \in 1 .. Columns : CellOf(id, c, r.cells[c])
=============================================================================
