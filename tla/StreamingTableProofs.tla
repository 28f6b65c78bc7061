------------------------ MODULE StreamingTableProofs ------------------------
(***************************************************************************)
(* Theorems about StreamingTable, for every block size, header length,     *)
(* limit and sequence of rows and failures the assumptions of the module   *)
(* admit: no block overflows, the block being filled is the next leaf,     *)
(* every row that was counted is where its ordinal says, with every cell   *)
(* leading to the string that was set, and, in a heap as wide as the       *)
(* code's, the row index leads to each of these rows.                      *)
(***************************************************************************)
EXTENDS StreamingTable, NatLemmas, TLAPS

----------------------------------------------------------------------------
(* The inductive invariant, in parts.                                      *)

Hids == (0 .. MaxIndex) \X (0 .. MaxItems)
Records == Nat \X (Nat \cup Hids)
CellNames == Nat \X Nat
BthHeaders == [levels : Nat, root : Hids]
Pages == SUBSET Records
HeapData == CellNames \cup BthHeaders \cup Pages \cup Hids
HeapItems == [kind : Kinds, data : HeapData, len : Nat]
Blocks == [items : Seq(HeapItems), used : Nat]
Chunks == [items : Seq(HeapItems), size : Nat] \cup {Empty}
Cells == [in : {"nowhere", "heap", "subnode"}, at : Nat \cup Hids]
Rows == [id : Nat, cells : Seq(Cells)]

\* A block that has room for its page map and the byte that aligns it.
Fit(b, i) ==
  /\ blockHeaderSize(i) + b.used + pageMapSize(Len(b.items)) + 1 <= BlockSize
  /\ Len(b.items) <= MaxItems

\* The heap: every block fits, and nothing is in the rolling block before it
\* is needed.
HeapInv ==
  /\ block0 \in Blocks /\ current \in Blocks /\ index \in Nat /\ bad \in BOOLEAN
  /\ Fit(block0, 0) /\ Fit(current, index) /\ (index = 0 => current = Empty)

\* The leaves written so far, ls, when the block being filled is block i.
Steady(ls, i) ==
  /\ ls \in Seq(Chunks) /\ Len(ls) = (IF i = 0 THEN 1 ELSE i)
  /\ \A k \in DOMAIN ls : k > 1 => ls[k].size = BlockSize

LeavesInv ==
  /\ pc # "done" => Steady(leaves, index)
  /\ pc = "done" => /\ leaves \in Seq(Chunks) /\ Len(leaves) = index + 1
                    /\ \A k \in 2 .. index : leaves[k].size = BlockSize
                    /\ index > 0 => /\ leaves[1].size = BlockSize
                                    /\ leaves[index + 1].items = current.items
                    /\ leaves[1].items = block0.items

\* The caller: how far it is with a row, and the row index.
Busy == pc \in {"cells", "end"}

RowInv ==
  /\ pc \in {"idle", "cells", "end", "bth", "header", "info", "close", "done", "lost"}
  /\ inRow \in BOOLEAN /\ rowCount \in Nat /\ kept \subseteq RowIds
  /\ row \in Rows /\ Len(row.cells) <= Columns
  /\ pc = "cells" => Len(row.cells) < Columns
  /\ pc = "end" => Len(row.cells) = Columns
  /\ rowIndex \subseteq [id : RowIds, ordinal : Nat] /\ IsFiniteSet(rowIndex)
  /\ \A e, f \in rowIndex : e.id = f.id => e = f
  /\ Busy => /\ inRow /\ [id |-> row.id, ordinal |-> rowCount] \in rowIndex

\* The records of a level of the row index have keys of their own.
KeysApart(records) == \A e, f \in records : e[1] = f[1] => e = f

BthInv ==
  /\ userRoot \in Hids
  /\ bth \in [level : Nat, todo : SUBSET Records, next : SUBSET Records, root : Hids]
  /\ pc = "bth" => /\ bth.todo # {} /\ IsFiniteSet(bth.todo) /\ IsFiniteSet(bth.next)
                   /\ KeysApart(bth.todo) /\ KeysApart(bth.next)
                   /\ \A e \in bth.next, f \in bth.todo : e[1] < f[1]

\* The heap as its identifiers see it: the items of every block, held back,
\* being filled or written.
HeapOf(b0, cur, last, ls) ==
  [i \in 0 .. last |-> IF i = 0 THEN b0.items ELSE IF i = last THEN cur.items ELSE ls[i + 1].items]

Heap == HeapOf(block0, current, index, leaves)

\* The identifier leads to the item that holds data.
Lands(heap, hid, kind, data) ==
  /\ hid[1] \in DOMAIN heap /\ hid[2] \in DOMAIN heap[hid[1]]
  /\ heap[hid[1]][hid[2]].kind = kind /\ heap[hid[1]][hid[2]].data = data

\* A row whose cells are in place, and one that is complete.
Sound(r, heap, subs) ==
  /\ r \in Rows
  /\ \A c \in DOMAIN r.cells :
       /\ r.cells[c].in = "heap" => Lands(heap, r.cells[c].at, "cell", <<r.id, c>>)
       /\ r.cells[c].in = "subnode" =>
            r.cells[c].at \in DOMAIN subs /\ subs[r.cells[c].at].data = <<r.id, c>>

Whole(r, heap, subs) == Sound(r, heap, subs) /\ Len(r.cells) = Columns

\* Every row, complete or in the making, has its cells in place.  Block indexes
\* have not wrapped round while a row can still be added to.
CellsInv ==
  /\ subnodes \in Seq(HeapItems)
  /\ \A k \in DOMAIN rowBlock : Whole(rowBlock[k], Heap, subnodes)
  /\ \A k \in DOMAIN rowLeaves :
       \A l \in DOMAIN rowLeaves[k] : Whole(rowLeaves[k][l], Heap, subnodes)
  /\ Busy => Sound(row, Heap, subnodes)
  /\ Busy \/ (pc = "idle" /\ ~inRow) => index <= MaxIndex

\* The row of ordinal n, counted over all the blocks of rows and the open one,
\* has this id.
RowAtOrdinal(n, id, blocks, open) ==
  \/ \E k \in DOMAIN blocks : \E l \in DOMAIN blocks[k] :
       n = RowsPerBlock * (k - 1) + (l - 1) /\ blocks[k][l].id = id
  \/ \E l \in DOMAIN open :
       n = RowsPerBlock * Len(blocks) + (l - 1) /\ open[l].id = id

\* Before finish() every block of rows is full, and every row that was counted
\* is where its ordinal says.
OrdinalInv ==
  /\ rowBlock \in Seq(Rows) /\ rowLeaves \in Seq(Seq(Rows))
  /\ Len(rowBlock) <= RowsPerBlock
  /\ \A k \in DOMAIN rowLeaves : Len(rowLeaves[k]) <= RowsPerBlock
  /\ pc \in {"idle", "cells", "end"} =>
       /\ \A k \in DOMAIN rowLeaves : Len(rowLeaves[k]) = RowsPerBlock
       /\ rowCount = RowsPerBlock * Len(rowLeaves) + Len(rowBlock)
  /\ pc \notin {"idle", "cells", "end", "lost"} => rowBlock = <<>>
  /\ kept \subseteq {e.id : e \in rowIndex}
  /\ \A e \in rowIndex : e.id \in kept => RowAtOrdinal(e.ordinal, e.id, rowLeaves, rowBlock)

IInv == HeapInv /\ LeavesInv /\ RowInv /\ BthInv /\ CellsInv /\ OrdinalInv

----------------------------------------------------------------------------
(* Geometry.                                                               *)

\* The sizes of the format are positive, and what finish() allocates fits.
LEMMA Sizes ==
  /\ BlockSize \in Nat \ {0} /\ HnHdr \in Nat \ {0} /\ PageHdr \in Nat \ {0}
  /\ BitmapHdr \in Nat \ {0} /\ MaxItems \in Nat \ {0} /\ MaxIndex \in Nat \ {0}
  /\ RowsPerBlock \in Nat \ {0} /\ Columns \in Nat \ {0} /\ RecordLen \in Nat \ {0}
  /\ BthHdrLen \in Nat \ {0} /\ InfoLen \in Nat \ {0}
  /\ HnHdr <= BitmapHdr /\ PageHdr <= BitmapHdr
  /\ maxAllocSize \in Nat /\ maxAllocSize = BlockSize - BitmapHdr - 9
  /\ RecordLen <= maxAllocSize /\ BthHdrLen <= maxAllocSize /\ InfoLen <= maxAllocSize
<1>1. /\ BlockSize \in Nat \ {0} /\ HnHdr \in Nat \ {0} /\ PageHdr \in Nat \ {0}
      /\ BitmapHdr \in Nat \ {0} /\ MaxItems \in Nat \ {0} /\ MaxIndex \in Nat \ {0}
      /\ RowsPerBlock \in Nat \ {0} /\ Columns \in Nat \ {0} /\ RecordLen \in Nat \ {0}
      /\ BthHdrLen \in Nat \ {0} /\ InfoLen \in Nat \ {0}
      /\ HnHdr <= BitmapHdr /\ PageHdr <= BitmapHdr
      /\ RecordLen + BitmapHdr + 9 <= BlockSize /\ BthHdrLen + BitmapHdr + 9 <= BlockSize
      /\ InfoLen + BitmapHdr + 9 <= BlockSize
  BY TableAssumption DEF TableAssumption
<1>2. maxAllocSize = BlockSize - BitmapHdr - 9
  BY <1>1 DEF maxAllocSize, pageMapSize
<1> QED
  BY <1>1, <1>2

\* No header is longer than that of a bitmap block.
LEMMA HeaderBound ==
  ASSUME NEW i \in Nat
  PROVE  blockHeaderSize(i) \in Nat /\ blockHeaderSize(i) <= BitmapHdr
<1>1. blockHeaderSize(i) \in {HnHdr, BitmapHdr, PageHdr}
  BY DEF blockHeaderSize
<1> QED
  BY <1>1, Sizes

\* What an item adds to a block.
LEMMA FilledFacts ==
  ASSUME NEW b \in Blocks, NEW item \in HeapItems
  PROVE  /\ Filled(b, item) \in Blocks /\ Len(b.items) \in Nat
         /\ Filled(b, item).used = b.used + item.len
         /\ DOMAIN b.items = 1 .. Len(b.items)
         /\ DOMAIN Filled(b, item).items = 1 .. (Len(b.items) + 1)
         /\ Len(Filled(b, item).items) = Len(b.items) + 1
         /\ \A n \in 1 .. Len(b.items) : Filled(b, item).items[n] = b.items[n]
         /\ Filled(b, item).items[Len(b.items) + 1] = item
<1>1. /\ b.items \in Seq(HeapItems) /\ b.used \in Nat
  BY DEF Blocks
<1>2. item.len \in Nat
  BY DEF HeapItems
<1>3. Filled(b, item) = [items |-> Append(b.items, item), used |-> b.used + item.len]
  BY DEF Filled
<1> HIDE DEF HeapItems
<1>4. /\ Append(b.items, item) \in Seq(HeapItems) /\ Len(b.items) \in Nat
      /\ Len(Append(b.items, item)) = Len(b.items) + 1
      /\ DOMAIN b.items = 1 .. Len(b.items)
      /\ DOMAIN Append(b.items, item) = 1 .. (Len(b.items) + 1)
      /\ \A n \in 1 .. Len(b.items) : Append(b.items, item)[n] = b.items[n]
      /\ Append(b.items, item)[Len(b.items) + 1] = item
  BY <1>1
<1>5. Filled(b, item) \in Blocks
  BY <1>1, <1>2, <1>3, <1>4 DEF Blocks
<1> QED
  BY <1>3, <1>4, <1>5

\* An empty block, and one with a single item, fit wherever they are.
LEMMA FreshFits ==
  ASSUME NEW i \in Nat
  PROVE  /\ Empty \in Blocks /\ Fit(Empty, i)
         /\ \A item \in HeapItems : item.len <= maxAllocSize => Fit(Filled(Empty, item), i)
<1>1. Empty \in Blocks /\ Empty.used = 0 /\ Empty.items = <<>> /\ Len(Empty.items) = 0
  BY DEF Empty, Blocks
<1>2. Fit(Empty, i)
  BY <1>1, Sizes, HeaderBound DEF Fit, pageMapSize
<1>3. ASSUME NEW item \in HeapItems, item.len <= maxAllocSize
      PROVE  Fit(Filled(Empty, item), i)
  <2>1. item.len \in Nat
    BY DEF HeapItems
  <2>2. /\ Filled(Empty, item).used = Empty.used + item.len
        /\ Len(Filled(Empty, item).items) = Len(Empty.items) + 1
    BY <1>1, FilledFacts
  <2>3. Filled(Empty, item).used = item.len /\ Len(Filled(Empty, item).items) = 1
    BY <1>1, <2>1, <2>2
  <2> QED
    BY <1>3, <2>1, <2>3, Sizes, HeaderBound DEF Fit, pageMapSize
<1> QED
  BY <1>1, <1>2, <1>3

\* fits() leaves room for the item and its entry of the page map.
LEMMA FitsFits ==
  ASSUME NEW b \in Blocks, NEW i \in Nat, NEW item \in HeapItems,
         fits(b, i, item.len), Len(b.items) < MaxItems
  PROVE  Fit(Filled(b, item), i)
<1>1. b.used \in Nat /\ item.len \in Nat
  BY DEF Blocks, HeapItems
<1>2. /\ Len(b.items) \in Nat /\ Filled(b, item).used = b.used + item.len
      /\ Len(Filled(b, item).items) = Len(b.items) + 1
  BY FilledFacts
<1>3. blockHeaderSize(i) \in Nat
  BY HeaderBound
<1> QED
  BY <1>1, <1>2, <1>3, Sizes DEF Fit, fits, pageMapSize

----------------------------------------------------------------------------
(* alloc().                                                                *)

\* Every block still fits after an allocation.
LEMMA AllocHeap ==
  ASSUME HeapInv, NEW item \in HeapItems, item.len <= maxAllocSize, alloc(item)
  PROVE  HeapInv'
<1>0. /\ block0 \in Blocks /\ current \in Blocks /\ index \in Nat /\ bad \in BOOLEAN
      /\ Fit(block0, 0) /\ Fit(current, index) /\ (index = 0 => current = Empty)
  BY DEF HeapInv
<1>1. CASE InBlock0(item.len) /\ block0' = Filled(block0, item)
           /\ UNCHANGED <<current, index, leaves, bad>>
  <2>1. block0' \in Blocks /\ Fit(block0', 0)
    BY <1>0, <1>1, FilledFacts, FitsFits DEF InBlock0
  <2> QED
    BY <1>0, <1>1, <2>1 DEF HeapInv, Fit
<1>2. CASE index = 0 /\ index' = 1 /\ current' = Filled(current, item)
           /\ UNCHANGED <<block0, leaves, bad>>
  <2>1. current' = Filled(Empty, item)
    BY <1>0, <1>2
  <2>2. current' \in Blocks /\ Fit(current', 1)
    BY <2>1, FilledFacts, FreshFits
  <2> QED
    BY <1>0, <1>2, <2>2 DEF HeapInv, Fit
<1>3. CASE InCurrent(item.len) /\ current' = Filled(current, item)
           /\ UNCHANGED <<block0, index, leaves, bad>>
  <2>1. current' \in Blocks /\ Fit(current', index) /\ index > 0
    BY <1>0, <1>3, FilledFacts, FitsFits DEF InCurrent
  <2> QED
    BY <1>0, <1>3, <2>1 DEF HeapInv, Fit
<1>4. CASE index > 0 /\ index' = index + 1 /\ current' = Filled(Empty, item)
           /\ UNCHANGED <<block0, bad>>
  <2>1. current' \in Blocks /\ Fit(current', index + 1) /\ index + 1 \in Nat /\ index + 1 # 0
    BY <1>0, <1>4, FilledFacts, FreshFits
  <2> QED
    BY <1>0, <1>4, <2>1 DEF HeapInv, Fit
<1> QED
  BY <1>1, <1>2, <1>3, <1>4 DEF alloc

\* And after one that threw.
LEMMA ThrowHeap ==
  ASSUME HeapInv, NEW len, allocThrows(len)
  PROVE  HeapInv'
<1>0. /\ block0 \in Blocks /\ current \in Blocks /\ index \in Nat /\ bad \in BOOLEAN
      /\ Fit(block0, 0) /\ Fit(current, index) /\ (index = 0 => current = Empty)
  BY DEF HeapInv
<1>1. CASE index' = index + 1 /\ current' = Empty /\ UNCHANGED <<block0, bad>>
  BY <1>0, <1>1, FreshFits DEF HeapInv, Fit
<1>2. CASE bad' = TRUE /\ UNCHANGED <<block0, current, index, leaves>>
  BY <1>0, <1>2 DEF HeapInv, Fit
<1> QED
  BY <1>1, <1>2 DEF allocThrows

\* One heap has all that the other has, in the same places.
Longer(s, t) == \A n \in DOMAIN s : n \in DOMAIN t /\ t[n] = s[n]
HeapGrows(h, g) == \A i \in DOMAIN h : i \in DOMAIN g /\ Longer(h[i], g[i])

\* flushCurrent() writes the block being filled as the next leaf, padded.
LEMMA FlushFacts ==
  ASSUME HeapInv, Steady(leaves, index), index > 0, flushCurrent
  PROVE  /\ Steady(leaves', index + 1) /\ leaves'[index + 1].items = current.items
         /\ \A k \in 1 .. index : leaves'[k] = leaves[k]
<1> DEFINE chunk == renderBlock(current, index, FALSE)
<1>1. index \in Nat /\ current.items \in Seq(HeapItems)
  BY DEF HeapInv, Blocks
<1>2. chunk = [items |-> current.items, size |-> BlockSize] /\ BlockSize \in Nat
  BY Sizes DEF renderBlock
<1> HIDE DEF chunk
<1>3. chunk \in Chunks /\ chunk.items = current.items /\ chunk.size = BlockSize
  <2> HIDE DEF HeapItems
  <2>1. chunk \in [items : Seq(HeapItems), size : Nat]
    BY <1>1, <1>2
  <2> QED
    BY <1>2, <2>1 DEF Chunks
<1>4. leaves \in Seq(Chunks) /\ Len(leaves) = index /\ DOMAIN leaves = 1 .. index
      /\ \A k \in DOMAIN leaves : k > 1 => leaves[k].size = BlockSize
  BY <1>1 DEF Steady
<1>5. leaves' = Append(leaves, chunk)
  BY DEF flushCurrent, chunk
<1> HIDE DEF Chunks
<1>6. /\ leaves' \in Seq(Chunks) /\ Len(leaves') = index + 1 /\ DOMAIN leaves' = 1 .. (index + 1)
      /\ leaves'[index + 1] = chunk /\ \A k \in 1 .. index : leaves'[k] = leaves[k]
  BY <1>3, <1>4, <1>5
<1>7. ASSUME NEW k \in DOMAIN leaves', k > 1 PROVE leaves'[k].size = BlockSize
  <2>1. k \in 1 .. index \/ k = index + 1
    BY <1>1, <1>6
  <2> QED
    BY <1>3, <1>4, <1>6, <1>7, <2>1
<1>8. Len(leaves') = IF index + 1 = 0 THEN 1 ELSE index + 1
  BY <1>1, <1>6
<1> QED
  BY <1>3, <1>6, <1>7, <1>8 DEF Steady

\* A new block takes the place of the one just written.
LEMMA FlushGrows ==
  ASSUME HeapInv, Steady(leaves, index), index > 0, flushCurrent, NEW cur
  PROVE  HeapGrows(Heap, HeapOf(block0, cur, index + 1, leaves'))
<1> DEFINE g == HeapOf(block0, cur, index + 1, leaves')
<1>1. index \in Nat /\ index + 1 \in Nat
  BY DEF HeapInv
<1>2. /\ DOMAIN Heap = 0 .. index /\ Heap[0] = block0.items /\ Heap[index] = current.items
      /\ \A i \in 1 .. (index - 1) : Heap[i] = leaves[i + 1].items
  BY <1>1 DEF Heap, HeapOf
<1>3. /\ DOMAIN g = 0 .. (index + 1) /\ g[0] = block0.items
      /\ \A i \in 1 .. ((index + 1) - 1) : g[i] = leaves'[i + 1].items
  BY <1>1 DEF HeapOf
<1> HIDE DEF g
<1>4. ASSUME NEW i \in 0 .. index PROVE i \in DOMAIN g /\ g[i] = Heap[i]
  <2>1. i \in DOMAIN g
    BY <1>1, <1>3
  <2>2. CASE i = 0
    BY <1>2, <1>3, <2>1, <2>2
  <2>3. CASE i = index
    <3>1. i \in 1 .. ((index + 1) - 1)
      BY <1>1, <2>3
    <3> QED
      BY <1>2, <1>3, <2>1, <2>3, <3>1, FlushFacts
  <2>4. CASE i # 0 /\ i # index
    <3>1. i \in 1 .. ((index + 1) - 1) /\ i \in 1 .. (index - 1) /\ i + 1 \in 1 .. index
      BY <1>1, <2>4
    <3> QED
      BY <1>2, <1>3, <2>1, <3>1, FlushFacts
  <2> QED
    BY <2>2, <2>3, <2>4
<1> QED
  BY <1>2, <1>4 DEF HeapGrows, Longer, g

\* alloc() changes nothing that is there already.
LEMMA AllocGrows ==
  ASSUME HeapInv, Steady(leaves, index), NEW item \in HeapItems, alloc(item)
  PROVE  Steady(leaves', index') /\ HeapGrows(Heap, Heap') /\ bad' = bad
<1>0. /\ block0 \in Blocks /\ current \in Blocks /\ index \in Nat
  BY DEF HeapInv
<1>h. /\ DOMAIN Heap = 0 .. index /\ Heap[0] = block0.items
      /\ index > 0 => Heap[index] = current.items
      /\ \A i \in 1 .. (index - 1) : Heap[i] = leaves[i + 1].items
  BY <1>0 DEF Heap, HeapOf
<1>g. ASSUME index' \in Nat
      PROVE  /\ DOMAIN Heap' = 0 .. index' /\ Heap'[0] = block0'.items
             /\ index' > 0 => Heap'[index'] = current'.items
             /\ \A i \in 1 .. (index' - 1) : Heap'[i] = leaves'[i + 1].items
  <2>1. Heap' = [i \in 0 .. index' |-> IF i = 0 THEN block0'.items
                   ELSE IF i = index' THEN current'.items ELSE leaves'[i + 1].items]
    BY DEF Heap, HeapOf
  <2> QED
    BY <1>g, <2>1
<1>1. CASE InBlock0(item.len) /\ block0' = Filled(block0, item)
           /\ UNCHANGED <<current, index, leaves, bad>>
  <2>0. /\ DOMAIN block0.items = 1 .. Len(block0.items) /\ Len(block0.items) \in Nat
        /\ DOMAIN block0'.items = 1 .. (Len(block0.items) + 1)
        /\ \A n \in 1 .. Len(block0.items) : block0'.items[n] = block0.items[n]
    BY <1>0, <1>1, FilledFacts
  <2>1. Longer(block0.items, block0'.items) /\ index = 0
    BY <1>1, <2>0 DEF Longer, InBlock0
  <2>2. DOMAIN Heap = {0} /\ 0 \in DOMAIN Heap' /\ Heap'[0] = block0'.items
    BY <1>0, <1>1, <1>h, <1>g, <2>1
  <2> QED
    BY <1>h, <1>1, <2>1, <2>2 DEF HeapGrows
<1>2. CASE index = 0 /\ index' = 1 /\ current' = Filled(current, item)
           /\ UNCHANGED <<block0, leaves, bad>>
  <2>1. DOMAIN Heap = {0} /\ 0 \in DOMAIN Heap' /\ Heap'[0] = block0.items
    BY <1>0, <1>2, <1>h, <1>g
  <2>2. Steady(leaves', index')
    BY <1>2 DEF Steady
  <2> QED
    BY <1>h, <1>2, <2>1, <2>2 DEF HeapGrows, Longer
<1>3. CASE InCurrent(item.len) /\ current' = Filled(current, item)
           /\ UNCHANGED <<block0, index, leaves, bad>>
  <2>0. /\ DOMAIN current.items = 1 .. Len(current.items) /\ Len(current.items) \in Nat
        /\ DOMAIN current'.items = 1 .. (Len(current.items) + 1)
        /\ \A n \in 1 .. Len(current.items) : current'.items[n] = current.items[n]
    BY <1>0, <1>3, FilledFacts
  <2>1. Longer(current.items, current'.items) /\ index > 0
    BY <1>3, <2>0 DEF Longer, InCurrent
  <2>2. ASSUME NEW i \in 0 .. index
        PROVE  i \in DOMAIN Heap' /\ Longer(Heap[i], Heap'[i])
    <3>1. CASE i = index
      BY <1>0, <1>h, <1>g, <1>3, <2>1, <3>1
    <3>2. CASE i # index
      <4>1. i = 0 \/ i \in 1 .. (index - 1)
        BY <1>0, <3>2
      <4>2. i \in DOMAIN Heap' /\ Heap'[i] = Heap[i]
        BY <1>0, <1>h, <1>g, <1>3, <4>1
      <4> QED
        BY <4>2 DEF Longer
    <3> QED
      BY <3>1, <3>2
  <2> QED
    BY <1>h, <1>3, <2>2 DEF HeapGrows
<1>4. CASE index > 0 /\ flushCurrent /\ index' = index + 1 /\ current' = Filled(Empty, item)
           /\ UNCHANGED <<block0, bad>>
  <2>1. Heap' = HeapOf(block0, current', index + 1, leaves')
    BY <1>4 DEF Heap
  <2>2. HeapGrows(Heap, Heap')
    BY <1>4, <2>1, FlushGrows
  <2> QED
    BY <1>4, <2>2, FlushFacts
<1> QED
  BY <1>1, <1>2, <1>3, <1>4 DEF alloc

\* Nor does an alloc() that throws.
LEMMA ThrowGrows ==
  ASSUME HeapInv, Steady(leaves, index), NEW len, allocThrows(len)
  PROVE  Steady(leaves', index') /\ HeapGrows(Heap, Heap')
<1>1. CASE index > 0 /\ flushCurrent /\ index' = index + 1 /\ current' = Empty /\ UNCHANGED block0
  <2>1. Heap' = HeapOf(block0, current', index + 1, leaves')
    BY <1>1 DEF Heap
  <2>2. HeapGrows(Heap, Heap')
    BY <1>1, <2>1, FlushGrows
  <2> QED
    BY <1>1, <2>2, FlushFacts
<1>2. CASE UNCHANGED <<block0, current, index, leaves>>
  <2>1. Heap' = Heap
    BY <1>2 DEF Heap
  <2> QED
    BY <1>2, <2>1 DEF HeapGrows, Longer, Steady
<1> QED
  BY <1>1, <1>2 DEF allocThrows

\* An identifier keeps the numbers it is made of while they are within limits.
LEMMA HidFacts ==
  ASSUME NEW i \in Nat, NEW n \in Nat
  PROVE  /\ makeHid(i, n) \in Hids
         /\ i <= MaxIndex /\ n <= MaxItems => makeHid(i, n) = <<i, n>>
<1>1. MaxIndex + 1 \in Nat \ {0} /\ MaxItems + 1 \in Nat \ {0}
  BY Sizes
<1>2. i % (MaxIndex + 1) \in 0 .. MaxIndex /\ n % (MaxItems + 1) \in 0 .. MaxItems
  BY <1>1, Sizes
<1>3. makeHid(i, n) = <<i % (MaxIndex + 1), n % (MaxItems + 1)>>
  BY DEF makeHid
<1>4. ASSUME i <= MaxIndex, n <= MaxItems
      PROVE  i % (MaxIndex + 1) = i /\ n % (MaxItems + 1) = n
  BY <1>1, <1>4, Sizes
<1> QED
  BY <1>2, <1>3, <1>4 DEF Hids

\* The identifier of an allocation is one.
LEMMA NewHidType ==
  ASSUME HeapInv, NEW len
  PROVE  NewHid(len) \in Hids
<1>1. index \in Nat /\ index + 1 \in Nat /\ Len(block0.items) + 1 \in Nat
      /\ Len(current.items) + 1 \in Nat
  BY DEF HeapInv, Blocks
<1>2. /\ makeHid(0, Len(block0.items) + 1) \in Hids /\ makeHid(index + 1, 1) \in Hids
      /\ makeHid(index, Len(current.items) + 1) \in Hids
  BY <1>1, HidFacts
<1> QED
  BY <1>2 DEF NewHid

\* The identifier alloc() returns leads to what was allocated, as long as block
\* indexes are within the sixteen bits they have.
LEMMA AllocLands ==
  ASSUME HeapInv, Steady(leaves, index), NEW item \in HeapItems, alloc(item), index <= MaxIndex
  PROVE  index' <= MaxIndex /\ Lands(Heap', NewHid(item.len), item.kind, item.data)
<1>0. /\ block0 \in Blocks /\ current \in Blocks /\ index \in Nat
      /\ (index = 0 => current = Empty)
  BY DEF HeapInv
<1>g. ASSUME index' \in Nat
      PROVE  /\ DOMAIN Heap' = 0 .. index' /\ Heap'[0] = block0'.items
             /\ index' > 0 => Heap'[index'] = current'.items
  <2>1. Heap' = [i \in 0 .. index' |-> IF i = 0 THEN block0'.items
                   ELSE IF i = index' THEN current'.items ELSE leaves'[i + 1].items]
    BY DEF Heap, HeapOf
  <2> QED
    BY <1>g, <2>1
<1>e. Empty \in Blocks /\ Len(Empty.items) = 0
  BY FreshFits DEF Empty
<1>1. CASE InBlock0(item.len) /\ block0' = Filled(block0, item)
           /\ UNCHANGED <<current, index, leaves, bad>>
  <2> DEFINE n == Len(block0.items) + 1
  <2>1. n \in Nat /\ n <= MaxItems /\ index = 0
    BY <1>0, <1>1, Sizes DEF InBlock0, Blocks
  <2>2. NewHid(item.len) = <<0, n>>
    BY <1>1, <2>1, HidFacts, Sizes DEF NewHid
  <2>3. n \in DOMAIN block0'.items /\ block0'.items[n] = item
    BY <1>0, <1>1, <2>1, FilledFacts
  <2>4. 0 \in DOMAIN Heap' /\ Heap'[0] = block0'.items
    BY <1>0, <1>1, <1>g, <2>1
  <2> QED
    BY <1>1, <2>2, <2>3, <2>4 DEF Lands
<1>2. CASE index = 0 /\ ~InBlock0(item.len) /\ index' = 1 /\ current' = Filled(current, item)
           /\ UNCHANGED <<block0, leaves, bad>>
  <2>1. NewHid(item.len) = <<1, 1>>
    <3>1. NewHid(item.len) = makeHid(1, 1)
      BY <1>2 DEF NewHid, InCurrent
    <3> QED
      BY <3>1, HidFacts, Sizes
  <2>2. current' = Filled(Empty, item)
    BY <1>0, <1>2
  <2>3. 1 \in DOMAIN current'.items /\ current'.items[1] = item
    BY <1>e, <2>2, FilledFacts
  <2>4. 1 \in DOMAIN Heap' /\ Heap'[1] = current'.items
    BY <1>2, <1>g
  <2> QED
    BY <1>2, <2>1, <2>3, <2>4, Sizes DEF Lands
<1>3. CASE InCurrent(item.len) /\ current' = Filled(current, item)
           /\ UNCHANGED <<block0, index, leaves, bad>>
  <2> DEFINE n == Len(current.items) + 1
  <2>1. n \in Nat /\ n <= MaxItems /\ index > 0
    BY <1>0, <1>3, Sizes DEF InCurrent, Blocks
  <2>2. NewHid(item.len) = <<index, n>>
    <3>1. NewHid(item.len) = makeHid(index, n)
      BY <1>0, <1>3, <2>1 DEF NewHid, InBlock0
    <3> QED
      BY <1>0, <2>1, <3>1, HidFacts
  <2>3. n \in DOMAIN current'.items /\ current'.items[n] = item
    BY <1>0, <1>3, <2>1, FilledFacts
  <2>4. index \in DOMAIN Heap' /\ Heap'[index] = current'.items
    BY <1>0, <1>3, <1>g, <2>1
  <2> QED
    BY <1>3, <2>2, <2>3, <2>4 DEF Lands
<1>4. CASE index > 0 /\ ~InCurrent(item.len) /\ index < MaxIndex /\ flushCurrent
           /\ index' = index + 1 /\ current' = Filled(Empty, item) /\ UNCHANGED <<block0, bad>>
  <2>1. index' \in Nat /\ index' <= MaxIndex /\ index' > 0
    BY <1>0, <1>4, Sizes
  <2>2. NewHid(item.len) = <<index', 1>>
    <3>1. NewHid(item.len) = makeHid(index', 1)
      BY <1>0, <1>4 DEF NewHid, InBlock0
    <3> QED
      BY <2>1, <3>1, HidFacts, Sizes
  <2>3. 1 \in DOMAIN current'.items /\ current'.items[1] = item
    BY <1>e, <1>4, FilledFacts
  <2>4. index' \in DOMAIN Heap' /\ Heap'[index'] = current'.items
    BY <1>g, <2>1
  <2> QED
    BY <2>1, <2>2, <2>3, <2>4 DEF Lands
<1> QED
  BY <1>1, <1>2, <1>3, <1>4 DEF alloc

----------------------------------------------------------------------------
(* What a step does to the heap.                                           *)

\* The ways the heap moves before it is closed.
HeapMove ==
  \/ UNCHANGED heapVars /\ bad' \in BOOLEAN
  \/ \E item \in HeapItems : item.len <= maxAllocSize /\ alloc(item)
  \/ \E len \in Nat : allocThrows(len)

\* They keep the blocks within bounds, the leaves in step and the items in place.
LEMMA MoveFacts ==
  ASSUME HeapInv, Steady(leaves, index), HeapMove
  PROVE  HeapInv' /\ Steady(leaves', index') /\ HeapGrows(Heap, Heap')
<1>1. CASE UNCHANGED heapVars /\ bad' \in BOOLEAN
  <2>1. Heap' = Heap
    BY <1>1 DEF Heap, heapVars
  <2>2. HeapInv' /\ Steady(leaves', index')
    BY <1>1 DEF HeapInv, heapVars, Fit, Steady
  <2> QED
    BY <2>1, <2>2 DEF HeapGrows, Longer
<1>2. CASE \E item \in HeapItems : item.len <= maxAllocSize /\ alloc(item)
  BY <1>2, AllocHeap, AllocGrows
<1>3. CASE \E len \in Nat : allocThrows(len)
  BY <1>3, ThrowHeap, ThrowGrows
<1> QED
  BY <1>1, <1>2, <1>3 DEF HeapMove

\* Closing the heap writes the last block and puts block 0 at the head.
LEMMA CloseFacts ==
  ASSUME HeapInv, Steady(leaves, index), pc = "close", CloseHeap
  PROVE  HeapInv' /\ LeavesInv' /\ HeapGrows(Heap, Heap')
<1>0. /\ block0 \in Blocks /\ current \in Blocks /\ index \in Nat /\ bad \in BOOLEAN
      /\ block0' = block0 /\ current' = current /\ index' = index
  BY DEF HeapInv, CloseHeap
<1>1. bad' \in BOOLEAN
  BY <1>0 DEF CloseHeap
<1>2. HeapInv'
  BY <1>0, <1>1 DEF HeapInv, Fit
<1>3. CASE bad' = TRUE /\ Lost /\ UNCHANGED leaves
  <2>1. Heap' = Heap /\ pc' = "lost"
    BY <1>0, <1>3 DEF Heap, Lost
  <2>2. LeavesInv'
    BY <1>0, <1>3, <2>1 DEF LeavesInv, Steady
  <2> QED
    BY <1>2, <2>1, <2>2 DEF HeapGrows, Longer
<1>4. CASE /\ leaves' = [(IF index = 0 THEN leaves
                          ELSE Append(leaves, renderBlock(current, index, TRUE)))
                         EXCEPT ![1] = renderBlock(block0, 0, index = 0)]
           /\ pc' = "done"
  <2> DEFINE last == renderBlock(current, index, TRUE)
             first == renderBlock(block0, 0, index = 0)
             base == IF index = 0 THEN leaves ELSE Append(leaves, last)
  <2>1. /\ last \in Chunks /\ last.items = current.items
        /\ first \in Chunks /\ first.items = block0.items
        /\ index > 0 => first.size = BlockSize
    <3>1. /\ block0.used \in Nat /\ current.used \in Nat
          /\ block0.items \in Seq(HeapItems) /\ current.items \in Seq(HeapItems)
      BY <1>0 DEF Blocks
    <3>2. blockHeaderSize(0) \in Nat /\ blockHeaderSize(index) \in Nat /\ BlockSize \in Nat
      BY <1>0, HeaderBound, Sizes
    <3>3. ASSUME NEW n \in Nat PROVE Aligned(n) \in Nat
      BY DEF Aligned
    <3>4. ASSUME NEW n \in Nat PROVE pageMapSize(n) \in Nat
      BY DEF pageMapSize
    <3>5. Len(current.items) \in Nat /\ Len(block0.items) \in Nat
      BY <3>1
    <3> DEFINE m == Aligned(blockHeaderSize(0) + block0.used) + pageMapSize(Len(block0.items))
               n == Aligned(blockHeaderSize(index) + current.used)
                      + pageMapSize(Len(current.items))
    <3>6. m \in Nat /\ n \in Nat
      <4>1. blockHeaderSize(0) + block0.used \in Nat /\ blockHeaderSize(index) + current.used \in Nat
        BY <3>1, <3>2
      <4>2. /\ Aligned(blockHeaderSize(0) + block0.used) \in Nat /\ pageMapSize(Len(block0.items)) \in Nat
            /\ Aligned(blockHeaderSize(index) + current.used) \in Nat
            /\ pageMapSize(Len(current.items)) \in Nat
        BY <3>3, <3>4, <3>5, <4>1
      <4> QED
        BY <4>2
    <3>7. /\ last = [items |-> current.items, size |-> n]
          /\ first = [items |-> block0.items, size |-> IF index = 0 THEN m ELSE BlockSize]
      BY DEF renderBlock
    <3> HIDE DEF m, n, last, first, HeapItems
    <3>8. last \in [items : Seq(HeapItems), size : Nat] /\ first \in [items : Seq(HeapItems), size : Nat]
      BY <3>1, <3>2, <3>6, <3>7
    <3> QED
      BY <1>0, <3>7, <3>8 DEF Chunks
  <2>2. leaves' = [base EXCEPT ![1] = first]
    BY <1>4
  <2> HIDE DEF last, first, Chunks
  <2>3. /\ leaves \in Seq(Chunks) /\ Len(leaves) = (IF index = 0 THEN 1 ELSE index)
        /\ \A k \in DOMAIN leaves : k > 1 => leaves[k].size = BlockSize
    BY DEF Steady
  <2>4. /\ base \in Seq(Chunks) /\ Len(base) = index + 1 /\ DOMAIN base = 1 .. (index + 1)
        /\ index > 0 => base[index + 1] = last
        /\ \A k \in 2 .. index : base[k] = leaves[k] /\ base[k].size = BlockSize
    <3>1. CASE index = 0
      BY <2>3, <3>1
    <3>2. CASE index # 0
      <4>1. Len(leaves) = index /\ DOMAIN leaves = 1 .. index /\ base = Append(leaves, last)
        BY <2>3, <3>2
      <4>2. /\ base \in Seq(Chunks) /\ Len(base) = index + 1 /\ DOMAIN base = 1 .. (index + 1)
            /\ base[index + 1] = last /\ \A k \in 1 .. index : base[k] = leaves[k]
        BY <2>1, <2>3, <4>1
      <4>3. ASSUME NEW k \in 2 .. index PROVE base[k] = leaves[k] /\ base[k].size = BlockSize
        <5>1. k \in 1 .. index /\ k > 1
          BY <1>0
        <5> QED
          BY <2>3, <4>1, <4>2, <5>1
      <4> QED
        BY <4>2, <4>3
    <3> QED
      BY <3>1, <3>2
  <2> HIDE DEF base
  <2>5. /\ leaves' \in Seq(Chunks) /\ Len(leaves') = index + 1 /\ leaves'[1] = first
        /\ \A k \in 2 .. (index + 1) : leaves'[k] = base[k]
    BY <1>0, <2>1, <2>2, <2>4
  <2>6. LeavesInv'
    <3>1. ASSUME index > 0 PROVE index + 1 \in 2 .. (index + 1)
      BY <1>0, <3>1
    <3>2. \A k \in 2 .. index : leaves'[k].size = BlockSize
      BY <1>0, <2>4, <2>5
    <3> QED
      BY <1>0, <1>4, <2>1, <2>4, <2>5, <3>1, <3>2 DEF LeavesInv
  <2>7. Heap' = Heap
    <3>1. \A i \in 1 .. (index - 1) : leaves'[i + 1] = leaves[i + 1]
      <4> SUFFICES ASSUME NEW i \in 1 .. (index - 1) PROVE leaves'[i + 1] = leaves[i + 1]
        OBVIOUS
      <4>1. i + 1 \in 2 .. index /\ i + 1 \in 2 .. (index + 1)
        BY <1>0
      <4> QED
        BY <2>4, <2>5, <4>1
    <3>2. Heap' = HeapOf(block0, current, index, leaves')
      BY <1>0 DEF Heap
    <3>3. \A i \in 0 .. index : i # 0 /\ i # index => i \in 1 .. (index - 1)
      BY <1>0
    <3> QED
      BY <3>1, <3>2, <3>3 DEF Heap, HeapOf
  <2> QED
    BY <1>2, <2>6, <2>7 DEF HeapGrows, Longer
<1> QED
  BY <1>3, <1>4 DEF CloseHeap

----------------------------------------------------------------------------
(* Pages of the row index.                                                 *)

\* The number of records with a smaller key.
Smaller(T, e) == {f \in T : f[1] < e[1]}
Rank(T, e) == Cardinality(Smaller(T, e))

\* Ranks follow the order of the keys.
LEMMA RankFacts ==
  ASSUME NEW T \in SUBSET Records, IsFiniteSet(T), NEW e \in T, NEW f \in T
  PROVE  /\ Rank(T, e) \in Nat /\ Rank(T, f) \in Nat
         /\ e[1] <= f[1] => Rank(T, e) <= Rank(T, f)
         /\ e[1] < f[1] => Rank(T, e) < Rank(T, f)
<1>1. \A g \in T : g[1] \in Nat
  BY DEF Records
<1>2. \A g \in T : IsFiniteSet(Smaller(T, g)) /\ Smaller(T, g) \subseteq T
  <2>1. \A g \in T : Smaller(T, g) \subseteq T
    BY DEF Smaller
  <2> QED
    BY <2>1, FS_Subset
<1>3. Rank(T, e) \in Nat /\ Rank(T, f) \in Nat
  BY <1>2, FS_CardinalityType DEF Rank
<1>4. ASSUME e[1] <= f[1] PROVE Smaller(T, e) \subseteq Smaller(T, f)
  BY <1>1, <1>4 DEF Smaller
<1>5. e[1] <= f[1] => Rank(T, e) <= Rank(T, f)
  BY <1>2, <1>4, FS_Subset DEF Rank
<1>6. ASSUME e[1] < f[1] PROVE Rank(T, e) < Rank(T, f)
  <2>1. e[1] <= f[1] /\ e \in Smaller(T, f) /\ e \notin Smaller(T, e)
    BY <1>1, <1>6 DEF Smaller
  <2>2. /\ Cardinality(Smaller(T, e)) <= Cardinality(Smaller(T, f))
        /\ Cardinality(Smaller(T, e)) = Cardinality(Smaller(T, f)) => Smaller(T, e) = Smaller(T, f)
    BY <1>2, <1>4, <2>1, FS_Subset
  <2> QED
    BY <1>3, <2>1, <2>2 DEF Rank
<1> QED
  BY <1>3, <1>5, <1>6

\* The records of rank below p are at most p, and there are some.
LEMMA PageSize ==
  ASSUME NEW T \in SUBSET Records, IsFiniteSet(T), KeysApart(T), T # {}, NEW p \in Nat \ {0},
         NEW P, P = {e \in T : Rank(T, e) < p}
  PROVE  /\ IsFiniteSet(P) /\ P # {} /\ Cardinality(P) \in Nat /\ Cardinality(P) <= p
         /\ \A e \in P, f \in T \ P : e[1] < f[1]
<1>k. \A g \in T : g[1] \in Nat
  BY DEF Records
<1>1. \A e \in P : e \in T /\ Rank(T, e) \in 0 .. (p - 1)
  BY RankFacts
<1>2. ASSUME NEW e \in P, NEW f \in P, Rank(T, e) = Rank(T, f) PROVE e = f
  <2>1. /\ e[1] < f[1] => Rank(T, e) < Rank(T, f)
        /\ f[1] < e[1] => Rank(T, f) < Rank(T, e)
        /\ Rank(T, e) \in Nat /\ Rank(T, f) \in Nat
    BY <1>1, RankFacts
  <2>2. e[1] = f[1]
    BY <1>k, <1>1, <1>2, <2>1
  <2> QED
    BY <1>1, <2>2 DEF KeysApart
<1>3. IsFiniteSet(P) /\ Cardinality(P) <= Cardinality(0 .. (p - 1))
  <2> DEFINE r == [e \in P |-> Rank(T, e)]
  <2>1. r \in Injection(P, 0 .. (p - 1))
    BY <1>1, <1>2 DEF Injection, IsInjective
  <2>2. IsFiniteSet(0 .. (p - 1))
    BY FS_Interval
  <2> QED
    BY <2>1, <2>2, FS_Injection
<1>4. Cardinality(0 .. (p - 1)) = p
  <2>1. Cardinality(0 .. (p - 1)) = IF 0 > p - 1 THEN 0 ELSE (p - 1) - 0 + 1
    BY FS_Interval
  <2> QED
    BY <2>1
<1>5. P # {}
  <2> DEFINE K == {e[1] : e \in T}
  <2>1. K \subseteq Nat /\ K # {}
    BY <1>k
  <2>2. PICK k \in K : \A y \in K : k <= y
    BY <2>1, Least
  <2>3. PICK e \in T : e[1] = k
    BY <2>2
  <2>4. Smaller(T, e) = {}
    <3> SUFFICES ASSUME NEW f \in T, f[1] < e[1] PROVE FALSE
      BY DEF Smaller
    <3>1. k <= f[1] /\ f[1] \in Nat /\ k \in Nat
      BY <1>k, <2>2, <2>3
    <3> QED
      BY <2>3, <3>1
  <2>5. Rank(T, e) = 0
    BY <2>4, FS_EmptySet DEF Rank
  <2> QED
    BY <2>3, <2>5
<1>6. ASSUME NEW e \in P, NEW f \in T \ P PROVE e[1] < f[1]
  <2>1. /\ f[1] <= e[1] => Rank(T, f) <= Rank(T, e)
        /\ Rank(T, e) \in Nat /\ Rank(T, f) \in Nat /\ Rank(T, e) < p /\ ~(Rank(T, f) < p)
    BY <1>1, RankFacts
  <2> QED
    BY <1>k, <1>1, <2>1
<1> QED
  BY <1>3, <1>4, <1>5, <1>6, FS_CardinalityType

\* As many records make a page as fit an allocation.
LEMMA PerPage == perPage \in Nat \ {0} /\ RecordLen * perPage <= maxAllocSize
<1> DEFINE q == maxAllocSize \div RecordLen
<1>1. maxAllocSize \in Nat /\ RecordLen \in Nat \ {0} /\ RecordLen <= maxAllocSize
  BY Sizes
<1>2. /\ maxAllocSize = RecordLen * q + (maxAllocSize % RecordLen)
      /\ maxAllocSize % RecordLen \in 0 .. (RecordLen - 1) /\ q \in Nat
  BY <1>1, DivMod
<1> HIDE DEF q
<1>3. q >= 1
  <2>1. CASE q = 0
    BY <1>1, <1>2, <2>1
  <2> QED
    BY <1>2, <2>1
<1>4. perPage = q
  <2>1. \A x \in {1, q} : (\A y \in {1, q} : x >= y) => x = q
    BY <1>2, <1>3
  <2>2. \A y \in {1, q} : q >= y
    BY <1>2, <1>3
  <2> QED
    BY <2>1, <2>2 DEF perPage, Max, q
<1>5. RecordLen * q \in Nat
  BY <1>1, <1>2
<1> QED
  BY <1>1, <1>2, <1>3, <1>4, <1>5

\* A page of buildBthInto: it fits an allocation, and its keys come before those
\* that are left.
LEMMA PageFacts ==
  ASSUME BthInv, pc = "bth"
  PROVE  /\ NextPage \subseteq bth.todo /\ NextPage # {} /\ NextPage \in SUBSET Records
         /\ RecordLen * Cardinality(NextPage) \in Nat
         /\ RecordLen * Cardinality(NextPage) <= maxAllocSize
         /\ Min({e[1] : e \in NextPage}) \in Nat
         /\ \E e \in NextPage : Min({f[1] : f \in NextPage}) = e[1]
         /\ \A e \in NextPage, f \in bth.todo \ NextPage : e[1] < f[1]
<1> DEFINE T == bth.todo
           P == NextPage
<1>1. T \in SUBSET Records /\ T # {} /\ IsFiniteSet(T) /\ KeysApart(T)
  BY DEF BthInv
<1>2. P = {e \in T : Rank(T, e) < perPage}
  BY DEF NextPage, Rank, Smaller
<1> HIDE DEF T, P
<1>3. /\ P # {} /\ Cardinality(P) \in Nat /\ Cardinality(P) <= perPage
      /\ \A e \in P, f \in T \ P : e[1] < f[1]
  BY <1>1, <1>2, PageSize, PerPage
<1>4. RecordLen * Cardinality(P) \in Nat /\ RecordLen * Cardinality(P) <= maxAllocSize
  <2>1. RecordLen * Cardinality(P) <= RecordLen * perPage /\ RecordLen * Cardinality(P) \in Nat
    BY <1>3, PerPage, Sizes
  <2>2. RecordLen * perPage \in Nat /\ maxAllocSize \in Nat
    BY PerPage, Sizes
  <2> QED
    BY <2>1, <2>2, PerPage
<1> DEFINE K == {e[1] : e \in P}
<1>5. K \subseteq Nat /\ K # {}
  BY <1>1, <1>2, <1>3 DEF Records
<1>6. Min(K) \in K
  <2>1. \E x \in K : \A y \in K : x <= y
    BY <1>5, Least
  <2> QED
    BY <2>1 DEF Min
<1>7. P \subseteq T /\ P \in SUBSET Records
  BY <1>1, <1>2
<1>8. Min(K) \in Nat /\ \E e \in P : Min(K) = e[1]
  BY <1>5, <1>6
<1> QED
  BY <1>3, <1>4, <1>7, <1>8 DEF T, P

\* Every record of the row index has its own key.
LEMMA IndexRecords ==
  ASSUME RowInv, NEW T, T = {<<e.id, e.ordinal>> : e \in rowIndex}
  PROVE  T \in SUBSET Records /\ IsFiniteSet(T) /\ KeysApart(T) /\ (rowIndex # {} => T # {})
<1>1. rowIndex \subseteq [id : RowIds, ordinal : Nat] /\ RowIds \subseteq Nat
  BY TableAssumption DEF RowInv, TableAssumption
<1>2. T \in SUBSET Records
  <2>1. \A e \in rowIndex : e.id \in Nat /\ e.ordinal \in Nat
    BY <1>1
  <2>2. \A e \in rowIndex : <<e.id, e.ordinal>> \in Records
    BY <2>1 DEF Records
  <2> QED
    BY <2>2
<1>3. IsFiniteSet(T)
  <2> DEFINE f == [e \in rowIndex |-> <<e.id, e.ordinal>>]
  <2>1. f \in Surjection(rowIndex, T)
    BY DEF Surjection
  <2> QED
    BY <2>1, FS_Surjection DEF RowInv
<1>4. KeysApart(T)
  BY DEF KeysApart, RowInv
<1> QED
  BY <1>2, <1>3, <1>4

----------------------------------------------------------------------------
(* The steps.                                                              *)

\* What items hold: a cell, a page, the header of the row index, or its place.
LEMMA DataFacts ==
  /\ CellNames \subseteq HeapData /\ Pages \subseteq HeapData
  /\ BthHeaders \subseteq HeapData /\ Hids \subseteq HeapData
  BY DEF HeapData

\* What is allocated is an item, and short enough.
LEMMA ItemFacts ==
  ASSUME IInv
  PROVE  /\ \A len \in Lengths : pc = "cells" =>
              Item("cell", <<row.id, Len(row.cells) + 1>>, len) \in HeapItems
         /\ \A kind \in Kinds : pc = "bth" =>
              Item(kind, NextPage, RecordLen * Cardinality(NextPage)) \in HeapItems
         /\ Item("bth", [levels |-> bth.level, root |-> bth.root], BthHdrLen) \in HeapItems
         /\ Item("info", bth.root, InfoLen) \in HeapItems
<1>1. /\ row.id \in Nat /\ Len(row.cells) + 1 \in Nat /\ Lengths \subseteq Nat
  <2>1. row \in Rows
    BY DEF IInv, RowInv
  <2>2. row.id \in Nat /\ row.cells \in Seq(Cells)
    BY <2>1 DEF Rows
  <2>3. Len(row.cells) \in Nat
    BY <2>2
  <2>4. Lengths \subseteq Nat
    BY TableAssumption DEF TableAssumption
  <2> QED
    BY <2>2, <2>3, <2>4
<1>2. bth.level \in Nat /\ bth.root \in Hids
  BY DEF IInv, BthInv
<1>3. BthHdrLen \in Nat /\ InfoLen \in Nat
  BY Sizes
<1>4. <<row.id, Len(row.cells) + 1>> \in HeapData
  BY <1>1, DataFacts DEF CellNames
<1>5. [levels |-> bth.level, root |-> bth.root] \in HeapData
  <2>1. [levels |-> bth.level, root |-> bth.root] \in BthHeaders
    BY <1>2 DEF BthHeaders
  <2> QED
    BY <2>1, DataFacts, Zenon
<1>6. bth.root \in HeapData
  BY <1>2, DataFacts, Zenon
<1>7. pc = "bth" => NextPage \in HeapData /\ RecordLen * Cardinality(NextPage) \in Nat
  BY PageFacts, DataFacts DEF IInv, Pages
<1>8. ASSUME NEW kind \in Kinds, NEW data \in HeapData, NEW len \in Nat
      PROVE  Item(kind, data, len) \in HeapItems
  BY DEF Item, HeapItems
<1>9. "cell" \in Kinds /\ "bth" \in Kinds /\ "info" \in Kinds
  BY DEF Kinds
<1> HIDE DEF HeapItems
<1> QED
  BY <1>1, <1>3, <1>4, <1>5, <1>6, <1>7, <1>8, <1>9

\* The length and content of an item are what it was made of.
LEMMA ItemParts ==
  ASSUME NEW kind, NEW data, NEW len
  PROVE  /\ Item(kind, data, len).kind = kind /\ Item(kind, data, len).data = data
         /\ Item(kind, data, len).len = len
  BY DEF Item

\* The ways of setBinary(), by where the value went.
LEMMA CellCases ==
  ASSUME IInv, NEW len \in Lengths, setBinary(len)
  PROVE  LET value == Item("cell", <<row.id, Len(row.cells) + 1>>, len)
         IN  /\ pc = "cells" /\ value \in HeapItems /\ value.len = len
             /\ value.kind = "cell" /\ value.data = <<row.id, Len(row.cells) + 1>>
             /\ \/ /\ SetCell([in |-> "nowhere", at |-> 0]) /\ AfterCell
                   /\ UNCHANGED <<heapVars, subnodes, bad>>
                \/ /\ len <= maxAllocSize /\ alloc(value)
                   /\ SetCell([in |-> "heap", at |-> NewHid(len)]) /\ AfterCell
                   /\ UNCHANGED subnodes
                \/ /\ subnodes' = Append(subnodes, value)
                   /\ SetCell([in |-> "subnode", at |-> Len(subnodes) + 1]) /\ AfterCell
                   /\ UNCHANGED <<heapVars, bad>>
                \/ /\ allocThrows(len) /\ pc' = "idle" /\ UNCHANGED <<row, subnodes>>
                \/ /\ bad' = TRUE /\ pc' = "idle" /\ UNCHANGED <<heapVars, row, subnodes>>
<1> DEFINE value == Item("cell", <<row.id, Len(row.cells) + 1>>, len)
<1>1. pc = "cells"
  BY DEF setBinary
<1>2. value \in HeapItems
  BY <1>1, ItemFacts
<1>3. value.len = len /\ value.kind = "cell" /\ value.data = <<row.id, Len(row.cells) + 1>>
  BY ItemParts
<1>4. len \in Nat /\ maxAllocSize \in Nat
  BY Sizes, TableAssumption DEF TableAssumption
<1> HIDE DEF value
<1>5. \/ /\ SetCell([in |-> "nowhere", at |-> 0]) /\ AfterCell
         /\ UNCHANGED <<heapVars, subnodes, bad>>
      \/ /\ len <= maxAllocSize /\ alloc(value)
         /\ SetCell([in |-> "heap", at |-> NewHid(len)]) /\ AfterCell
         /\ UNCHANGED subnodes
      \/ /\ subnodes' = Append(subnodes, value)
         /\ SetCell([in |-> "subnode", at |-> Len(subnodes) + 1]) /\ AfterCell
         /\ UNCHANGED <<heapVars, bad>>
      \/ /\ allocThrows(len) /\ pc' = "idle" /\ UNCHANGED <<row, subnodes>>
      \/ /\ bad' = TRUE /\ pc' = "idle" /\ UNCHANGED <<heapVars, row, subnodes>>
  BY <1>4 DEF setBinary, value
<1> QED
  BY <1>1, <1>2, <1>3, <1>5 DEF value

\* A page of the row index, its length and the record that leads to it.
PageLen == RecordLen * Cardinality(NextPage)
PageEntry == <<Min({e[1] : e \in NextPage}), NewHid(PageLen)>>

\* The ways of a turn of buildBthInto: more pages of this level, the root, the
\* next level, or no room.
LEMMA PageCases ==
  ASSUME IInv, BthPage
  PROVE  LET next == bth.next \cup {PageEntry}
         IN  /\ pc = "bth" /\ userRoot' = userRoot /\ IsFiniteSet(next)
             /\ \/ /\ bth.todo \ NextPage # {} /\ pc' = "bth"
                   /\ bth' = [bth EXCEPT !.todo = bth.todo \ NextPage, !.next = next]
                \/ /\ pc' \in {"lost", "header"}
                   /\ bth' = [bth EXCEPT !.todo = {}, !.next = {}, !.root = NewHid(PageLen)]
                \/ /\ pc' \in {"lost", "bth"}
                   /\ bth' = [bth EXCEPT !.level = bth.level + 1, !.todo = next, !.next = {}]
                \/ /\ pc' = "lost" /\ bth' = bth
<1> DEFINE next == bth.next \cup {PageEntry}
           kind == IF bth.level = 0 THEN "leaf" ELSE "index"
           page == Item(kind, NextPage, PageLen)
           todo == bth.todo \ NextPage
<1>1. pc = "bth"
  BY DEF BthPage
<1>2. IsFiniteSet(next) /\ next # {}
  <2>1. IsFiniteSet(bth.next)
    BY <1>1 DEF IInv, BthInv
  <2> QED
    BY <2>1, FS_AddElement
<1>3. Cardinality(next) = 1 \/ Cardinality(next) > 1
  <2>1. Cardinality(next) \in Nat /\ Cardinality(next) # 0
    BY <1>2, FS_CardinalityType, FS_EmptySet
  <2> QED
    BY <2>1
<1>4. page.len = PageLen
  BY ItemParts
<1>5. \/ /\ UNCHANGED userRoot
         /\ CASE todo # {} ->
                   bth' = [bth EXCEPT !.todo = todo, !.next = next] /\ UNCHANGED pc
              [] todo = {} /\ Cardinality(next) = 1 ->
                   /\ bth' = [bth EXCEPT !.todo = {}, !.next = {}, !.root = NewHid(PageLen)]
                   /\ pc' = IF bth.level > MaxLevels THEN "lost" ELSE "header"
              [] todo = {} /\ Cardinality(next) > 1 ->
                   /\ bth' = [bth EXCEPT !.level = bth.level + 1, !.todo = next, !.next = {}]
                   /\ pc' = IF bth.level > MaxLevels THEN "lost" ELSE "bth"
      \/ Lost
  BY <1>4 DEF BthPage, PageEntry, PageLen
<1> HIDE DEF next, todo
<1>6. CASE Lost
  BY <1>1, <1>2, <1>6 DEF Lost, next
<1>7. CASE todo # {} /\ ~Lost
  <2>1. UNCHANGED userRoot /\ bth' = [bth EXCEPT !.todo = todo, !.next = next] /\ pc' = "bth"
    BY <1>1, <1>5, <1>7
  <2> QED
    BY <1>1, <1>2, <1>7, <2>1 DEF next, todo
<1>8. CASE todo = {} /\ Cardinality(next) = 1 /\ ~Lost
  <2>1. /\ UNCHANGED userRoot /\ pc' \in {"lost", "header"}
        /\ bth' = [bth EXCEPT !.todo = {}, !.next = {}, !.root = NewHid(PageLen)]
    BY <1>5, <1>8
  <2> QED
    BY <1>1, <1>2, <2>1 DEF next
<1>9. CASE todo = {} /\ Cardinality(next) > 1 /\ ~Lost
  <2>1. /\ UNCHANGED userRoot /\ pc' \in {"lost", "bth"}
        /\ bth' = [bth EXCEPT !.level = bth.level + 1, !.todo = next, !.next = {}]
    BY <1>5, <1>9
  <2> QED
    BY <1>1, <1>2, <2>1 DEF next
<1> QED
  BY <1>3, <1>6, <1>7, <1>8, <1>9

\* Every step but the last moves the heap in one of the three ways.
LEMMA Moves ==
  ASSUME IInv, Next, ~CloseHeap
  PROVE  HeapMove /\ pc # "done" /\ pc' # "done"
<1>b. bad \in BOOLEAN
  BY DEF IInv, HeapInv
<1>1. ASSUME NEW id \in RowIds, beginRow(id) PROVE HeapMove /\ pc # "done" /\ pc' # "done"
  BY <1>b, <1>1 DEF beginRow, HeapMove
<1>2. ASSUME NEW len \in Lengths, setBinary(len) PROVE HeapMove /\ pc # "done" /\ pc' # "done"
  <2> DEFINE value == Item("cell", <<row.id, Len(row.cells) + 1>>, len)
  <2>1. pc = "cells" /\ value \in HeapItems /\ value.len = len /\ len \in Nat
    BY <1>2, CellCases, TableAssumption DEF TableAssumption
  <2>2. \/ UNCHANGED heapVars /\ bad' \in BOOLEAN
        \/ len <= maxAllocSize /\ alloc(value)
        \/ allocThrows(len)
    BY <1>b, <1>2, CellCases
  <2>3. pc' \in {"cells", "end", "idle"}
    BY <1>2, CellCases DEF AfterCell
  <2> HIDE DEF value
  <2> QED
    BY <2>1, <2>2, <2>3 DEF HeapMove
<1>3. ASSUME endRow PROVE HeapMove /\ pc # "done" /\ pc' # "done"
  BY <1>b, <1>3 DEF endRow, HeapMove
<1>4. ASSUME finish PROVE HeapMove /\ pc # "done" /\ pc' # "done"
  BY <1>b, <1>4 DEF finish, HeapMove, Lost
<1>5. ASSUME BthPage PROVE HeapMove /\ pc # "done" /\ pc' # "done"
  <2> DEFINE kind == IF bth.level = 0 THEN "leaf" ELSE "index"
             len == RecordLen * Cardinality(NextPage)
             page == Item(kind, NextPage, len)
  <2>1. pc = "bth"
    BY <1>5 DEF BthPage
  <2>2. page \in HeapItems /\ page.len = len /\ len \in Nat /\ len <= maxAllocSize
    BY <2>1, ItemFacts, ItemParts, PageFacts DEF IInv, Kinds
  <2>3. alloc(page) \/ allocThrows(page.len)
    BY <1>5 DEF BthPage
  <2>4. pc' # "done"
    BY <1>5, PageCases
  <2> HIDE DEF page, len
  <2> QED
    BY <2>1, <2>2, <2>3, <2>4 DEF HeapMove
<1>6. ASSUME BthHeader PROVE HeapMove /\ pc # "done" /\ pc' # "done"
  <2> DEFINE header == Item("bth", [levels |-> bth.level, root |-> bth.root], BthHdrLen)
  <2>1. header \in HeapItems /\ header.len = BthHdrLen
    BY ItemFacts, ItemParts
  <2>2. alloc(header) \/ allocThrows(BthHdrLen)
    BY <1>6 DEF BthHeader
  <2>3. pc # "done" /\ pc' # "done"
    BY <1>6 DEF BthHeader, Lost
  <2> HIDE DEF header
  <2> QED
    BY <2>1, <2>2, <2>3, Sizes DEF HeapMove
<1>7. ASSUME Info PROVE HeapMove /\ pc # "done" /\ pc' # "done"
  <2> DEFINE info == Item("info", bth.root, InfoLen)
  <2>1. info \in HeapItems /\ info.len = InfoLen
    BY ItemFacts, ItemParts
  <2>2. alloc(info) \/ allocThrows(InfoLen)
    BY <1>7 DEF Info
  <2>3. pc # "done" /\ pc' # "done"
    BY <1>7 DEF Info, Lost
  <2> HIDE DEF info
  <2> QED
    BY <2>1, <2>2, <2>3, Sizes DEF HeapMove
<1> QED
  BY <1>1, <1>2, <1>3, <1>4, <1>5, <1>6, <1>7 DEF Next

\* The heap keeps its invariant, and what it holds its place.
LEMMA HeapStep ==
  ASSUME IInv, Next
  PROVE  HeapInv' /\ LeavesInv' /\ HeapGrows(Heap, Heap')
<1>1. CASE CloseHeap
  <2>1. pc = "close" /\ Steady(leaves, index)
    BY <1>1 DEF CloseHeap, IInv, LeavesInv
  <2> QED
    BY <1>1, <2>1, CloseFacts DEF IInv
<1>2. CASE ~CloseHeap
  <2>1. HeapMove /\ pc # "done" /\ pc' # "done"
    BY <1>2, Moves
  <2>2. Steady(leaves, index)
    BY <2>1 DEF IInv, LeavesInv
  <2>3. HeapInv' /\ Steady(leaves', index') /\ HeapGrows(Heap, Heap')
    BY <2>1, <2>2, MoveFacts DEF IInv
  <2> QED
    BY <2>1, <2>3 DEF LeavesInv, Steady
<1> QED
  BY <1>1, <1>2

\* A cell joins the row.
LEMMA SetCellFacts ==
  ASSUME row \in Rows, NEW ref \in Cells, SetCell(ref)
  PROVE  /\ row' \in Rows /\ row'.id = row.id /\ Len(row.cells) \in Nat
         /\ DOMAIN row.cells = 1 .. Len(row.cells)
         /\ Len(row'.cells) = Len(row.cells) + 1
         /\ DOMAIN row'.cells = 1 .. (Len(row.cells) + 1)
         /\ \A c \in 1 .. Len(row.cells) : row'.cells[c] = row.cells[c]
         /\ row'.cells[Len(row.cells) + 1] = ref
<1>1. row.id \in Nat /\ row.cells \in Seq(Cells)
  BY DEF Rows
<1>2. row' = [row EXCEPT !.cells = Append(row.cells, ref)]
  BY DEF SetCell
<1> HIDE DEF Cells
<1>3. row' \in Rows /\ row'.id = row.id /\ row'.cells = Append(row.cells, ref)
  <2>1. Append(row.cells, ref) \in Seq(Cells)
    BY <1>1
  <2> QED
    BY <1>1, <1>2, <2>1 DEF Rows
<1>4. /\ Len(row.cells) \in Nat /\ DOMAIN row.cells = 1 .. Len(row.cells)
      /\ Len(Append(row.cells, ref)) = Len(row.cells) + 1
      /\ DOMAIN Append(row.cells, ref) = 1 .. (Len(row.cells) + 1)
      /\ \A c \in 1 .. Len(row.cells) : Append(row.cells, ref)[c] = row.cells[c]
      /\ Append(row.cells, ref)[Len(row.cells) + 1] = ref
  BY <1>1
<1> QED
  BY <1>3, <1>4

\* setBinary() either sets the next cell or gives the row up.
LEMMA CellSet ==
  ASSUME IInv, NEW len \in Lengths, setBinary(len)
  PROVE  \/ pc' = "idle" /\ row' = row
         \/ AfterCell /\ \E ref \in Cells : SetCell(ref)
<1>1. CASE SetCell([in |-> "nowhere", at |-> 0]) /\ AfterCell
  <2>1. [in |-> "nowhere", at |-> 0] \in Cells
    BY DEF Cells
  <2> QED
    BY <1>1, <2>1
<1>2. CASE SetCell([in |-> "heap", at |-> NewHid(len)]) /\ AfterCell
  <2>1. NewHid(len) \in Hids
    BY NewHidType DEF IInv
  <2>2. [in |-> "heap", at |-> NewHid(len)] \in Cells
    BY <2>1 DEF Cells
  <2> QED
    BY <1>2, <2>2
<1>3. CASE SetCell([in |-> "subnode", at |-> Len(subnodes) + 1]) /\ AfterCell
  <2>1. Len(subnodes) + 1 \in Nat
    <3>1. subnodes \in Seq(HeapItems)
      BY DEF IInv, CellsInv
    <3>2. Len(subnodes) \in Nat
      BY <3>1
    <3> QED
      BY <3>2
  <2>2. [in |-> "subnode", at |-> Len(subnodes) + 1] \in Cells
    BY <2>1 DEF Cells
  <2> QED
    BY <1>3, <2>2
<1>4. CASE pc' = "idle" /\ row' = row
  BY <1>4
<1> QED
  BY <1>1, <1>2, <1>3, <1>4, CellCases

\* Rows begin with an entry of the index of their own, and end complete.
LEMMA RowStep ==
  ASSUME IInv, Next
  PROVE  RowInv'
<1>0. /\ RowInv /\ Columns \in Nat \ {0} /\ RowIds \subseteq Nat
  BY Sizes, TableAssumption DEF IInv, TableAssumption
<1>1. ASSUME NEW id \in RowIds, beginRow(id) PROVE RowInv'
  <2> DEFINE e == [id |-> id, ordinal |-> rowCount]
  <2>1. /\ inRow' = TRUE /\ row' = [id |-> id, cells |-> <<>>] /\ rowIndex' = rowIndex \cup {e}
        /\ pc' = "cells" /\ rowCount' = rowCount /\ kept' = kept /\ id \notin {f.id : f \in rowIndex}
    BY <1>1 DEF beginRow
  <2>2. e \in [id : RowIds, ordinal : Nat] /\ e.id = id
    BY <1>0 DEF RowInv
  <2>3. row' \in Rows /\ row'.id = id /\ Len(row'.cells) = 0
    BY <1>0, <2>1 DEF Rows
  <2>4. [id |-> row'.id, ordinal |-> rowCount'] = e
    BY <2>1, <2>3
  <2> HIDE DEF e
  <2>5. IsFiniteSet(rowIndex') /\ rowIndex' \subseteq [id : RowIds, ordinal : Nat]
    BY <1>0, <2>1, <2>2, FS_AddElement DEF RowInv
  <2>6. \A f, g \in rowIndex' : f.id = g.id => f = g
    BY <1>0, <2>1, <2>2 DEF RowInv
  <2> QED
    BY <1>0, <2>1, <2>3, <2>4, <2>5, <2>6 DEF RowInv, Busy
<1>2. ASSUME NEW len \in Lengths, setBinary(len) PROVE RowInv'
  <2>1. /\ pc = "cells" /\ rowIndex' = rowIndex /\ rowCount' = rowCount /\ inRow' = inRow
        /\ kept' = kept
    BY <1>2 DEF setBinary
  <2>2. CASE pc' = "idle" /\ row' = row
    BY <1>0, <2>1, <2>2 DEF RowInv, Busy
  <2>3. CASE AfterCell /\ \E ref \in Cells : SetCell(ref)
    <3>1. /\ row' \in Rows /\ row'.id = row.id /\ Len(row.cells) \in Nat
          /\ Len(row'.cells) = Len(row.cells) + 1
      BY <1>0, <2>3, SetCellFacts DEF RowInv
    <3>2. /\ pc' \in {"cells", "end"} /\ Len(row'.cells) <= Columns
          /\ pc' = "cells" => Len(row'.cells) < Columns
          /\ pc' = "end" => Len(row'.cells) = Columns
      BY <1>0, <2>1, <2>3, <3>1 DEF RowInv, AfterCell
    <3>3. inRow' /\ [id |-> row'.id, ordinal |-> rowCount'] \in rowIndex'
      BY <1>0, <2>1, <3>1 DEF RowInv, Busy
    <3> QED
      BY <1>0, <2>1, <3>1, <3>2, <3>3 DEF RowInv
  <2> QED
    BY <1>2, <2>2, <2>3, CellSet
<1>3. ASSUME endRow PROVE RowInv'
  <2>1. /\ pc = "end" /\ pc' = "idle" /\ inRow' = FALSE /\ rowIndex' = rowIndex /\ row' = row
        /\ \/ rowCount' = rowCount + 1 /\ kept' = kept \cup {row.id}
           \/ rowCount' = rowCount /\ kept' = kept
    BY <1>3 DEF endRow
  <2>2. row.id \in RowIds
    <3>1. [id |-> row.id, ordinal |-> rowCount] \in [id : RowIds, ordinal : Nat]
      BY <1>0, <2>1 DEF RowInv, Busy
    <3> QED
      BY <3>1
  <2>3. rowCount' \in Nat /\ kept' \subseteq RowIds
    <3>1. rowCount \in Nat /\ kept \subseteq RowIds
      BY <1>0 DEF RowInv
    <3> QED
      BY <2>1, <2>2, <3>1
  <2> QED
    BY <1>0, <2>1, <2>3 DEF RowInv, Busy
<1>4. ASSUME \/ /\ UNCHANGED <<rowIndex, rowCount, inRow, row, kept>>
                /\ pc' \in {"bth", "header", "info", "close", "done", "lost"}
      PROVE  RowInv'
  BY <1>0, <1>4 DEF RowInv, Busy
<1>5. finish => RowInv'
  BY <1>4 DEF finish, Lost
<1>6. BthPage => RowInv'
  BY <1>4, PageCases DEF BthPage, tableVars
<1>7. BthHeader \/ Info \/ CloseHeap => RowInv'
  BY <1>4 DEF BthHeader, Info, CloseHeap, Lost, tableVars
<1> QED
  BY <1>1, <1>2, <1>3, <1>5, <1>6, <1>7 DEF Next

\* Each level of the row index has keys of its own, in order.
LEMMA BthStep ==
  ASSUME IInv, Next
  PROVE  BthInv'
<1>0. BthInv /\ HeapInv /\ \A len : NewHid(len) \in Hids
  BY NewHidType DEF IInv
<1>1. ASSUME UNCHANGED <<userRoot, bth>>, pc' # "bth" PROVE BthInv'
  BY <1>0, <1>1 DEF BthInv
<1>2. ASSUME NEW id \in RowIds, beginRow(id) PROVE BthInv'
  BY <1>1, <1>2 DEF beginRow
<1>3. ASSUME NEW len \in Lengths, setBinary(len) PROVE BthInv'
  <2>1. pc' # "bth"
    BY <1>3, CellSet DEF AfterCell
  <2> QED
    BY <1>1, <1>3, <2>1 DEF setBinary
<1>4. endRow => BthInv'
  BY <1>1 DEF endRow
<1>5. CloseHeap => BthInv'
  BY <1>1 DEF CloseHeap, Lost
<1>6. ASSUME finish PROVE BthInv'
  <2>1. CASE Lost
    BY <1>1, <2>1 DEF Lost
  <2>2. CASE ~Lost
    <3> DEFINE T == {<<e.id, e.ordinal>> : e \in rowIndex}
    <3>1. /\ bth' = [level |-> 0, todo |-> T, next |-> {}, root |-> NoHid] /\ userRoot' = userRoot
          /\ pc' = "bth" => rowIndex # {}
      BY <1>6, <2>2 DEF finish
    <3>2. T \in SUBSET Records /\ IsFiniteSet(T) /\ KeysApart(T) /\ (rowIndex # {} => T # {})
      BY IndexRecords DEF IInv
    <3> HIDE DEF T
    <3>3. NoHid \in Hids /\ IsFiniteSet({}) /\ KeysApart({})
      BY Sizes, FS_EmptySet DEF NoHid, Hids, KeysApart
    <3>4. bth'.todo = T /\ bth'.next = {}
      BY <3>1
    <3>5. bth' \in [level : Nat, todo : SUBSET Records, next : SUBSET Records, root : Hids]
      BY <3>1, <3>2, <3>3
    <3> QED
      BY <1>0, <3>1, <3>2, <3>3, <3>4, <3>5 DEF BthInv
  <2> QED
    BY <2>1, <2>2
<1>7. ASSUME BthPage PROVE BthInv'
  <2> DEFINE next == bth.next \cup {PageEntry}
             key == Min({e[1] : e \in NextPage})
             todo == bth.todo \ NextPage
  <2>1. pc = "bth" /\ userRoot' = userRoot /\ IsFiniteSet(next)
    BY <1>7, PageCases
  <2>2. /\ NextPage \subseteq bth.todo /\ key \in Nat
        /\ \E e \in NextPage : key = e[1]
        /\ \A e \in NextPage, f \in todo : e[1] < f[1]
    BY <1>0, <2>1, PageFacts
  <2>3. /\ IsFiniteSet(bth.todo) /\ KeysApart(bth.todo) /\ KeysApart(bth.next)
        /\ \A e \in bth.next, f \in bth.todo : e[1] < f[1]
        /\ bth.todo \in SUBSET Records /\ bth.next \in SUBSET Records /\ bth.level \in Nat
        /\ bth.root \in Hids /\ userRoot \in Hids
    BY <1>0, <2>1 DEF BthInv
  <2>4. PageEntry = <<key, NewHid(PageLen)>> /\ PageEntry \in Records /\ PageEntry[1] = key
    BY <1>0, <2>2 DEF PageEntry, Records
  <2> HIDE DEF next, key, todo
  <2>5. next \in SUBSET Records /\ next # {} /\ KeysApart(next)
        /\ \A e \in next, f \in todo : e[1] < f[1]
    <3>1. PICK p \in NextPage : key = p[1]
      BY <2>2
    <3>2. \A e \in bth.next : e[1] < key
      BY <2>2, <2>3, <3>1
    <3>3. \A f \in todo : key < f[1]
      BY <2>2, <3>1
    <3>4. \A e \in bth.next : e[1] \in Nat
      BY <2>3 DEF Records
    <3>5. ASSUME NEW e \in next, NEW f \in next, e[1] = f[1] PROVE e = f
      BY <2>2, <2>3, <2>4, <3>2, <3>4, <3>5 DEF next, KeysApart
    <3>6. \A e \in next, f \in todo : e[1] < f[1]
      BY <2>3, <2>4, <3>3 DEF next, todo
    <3> QED
      BY <2>3, <2>4, <3>5, <3>6 DEF next, KeysApart
  <2>6. IsFiniteSet(todo) /\ KeysApart(todo) /\ todo \in SUBSET Records
    BY <2>3, FS_Subset DEF todo, KeysApart
  <2>7. IsFiniteSet({}) /\ KeysApart({})
    BY FS_EmptySet DEF KeysApart
  <2>8. CASE /\ todo # {} /\ pc' = "bth"
             /\ bth' = [bth EXCEPT !.todo = todo, !.next = next]
    <3>1. bth'.todo = todo /\ bth'.next = next
      BY <1>0, <2>8 DEF BthInv
    <3>2. bth' \in [level : Nat, todo : SUBSET Records, next : SUBSET Records, root : Hids]
      BY <1>0, <2>5, <2>6, <2>8 DEF BthInv
    <3> QED
      BY <2>1, <2>3, <2>5, <2>6, <2>8, <3>1, <3>2 DEF BthInv
  <2>9. CASE /\ pc' \in {"lost", "header"}
             /\ bth' = [bth EXCEPT !.todo = {}, !.next = {}, !.root = NewHid(PageLen)]
    <3>1. bth' \in [level : Nat, todo : SUBSET Records, next : SUBSET Records, root : Hids]
      BY <1>0, <2>9 DEF BthInv
    <3> QED
      BY <2>1, <2>3, <2>9, <3>1 DEF BthInv
  <2>10. CASE /\ pc' \in {"lost", "bth"}
              /\ bth' = [bth EXCEPT !.level = bth.level + 1, !.todo = next, !.next = {}]
    <3>1. bth'.todo = next /\ bth'.next = {}
      BY <1>0, <2>10 DEF BthInv
    <3>2. bth' \in [level : Nat, todo : SUBSET Records, next : SUBSET Records, root : Hids]
      <4>1. bth.level + 1 \in Nat /\ {} \in SUBSET Records
        BY <2>3
      <4>2. bth \in [level : Nat, todo : SUBSET Records, next : SUBSET Records, root : Hids]
        BY <1>0 DEF BthInv
      <4> QED
        BY <2>5, <2>10, <4>1, <4>2
    <3> QED
      BY <2>1, <2>3, <2>5, <2>7, <2>10, <3>1, <3>2 DEF BthInv
  <2>11. CASE pc' = "lost" /\ bth' = bth
    BY <1>1, <2>1, <2>11
  <2> QED
    BY <1>7, <2>8, <2>9, <2>10, <2>11, PageCases DEF next, todo
<1>8. ASSUME BthHeader PROVE BthInv'
  <2>1. CASE Lost
    BY <1>1, <2>1 DEF Lost
  <2>2. CASE ~Lost
    <3>1. bth' = [bth EXCEPT !.root = NewHid(BthHdrLen)] /\ userRoot' = userRoot /\ pc' = "info"
      BY <1>8, <2>2 DEF BthHeader
    <3> QED
      BY <1>0, <3>1 DEF BthInv
  <2> QED
    BY <2>1, <2>2
<1>9. ASSUME Info PROVE BthInv'
  <2>1. CASE Lost
    BY <1>1, <2>1 DEF Lost
  <2>2. CASE ~Lost
    <3>1. bth' = bth /\ userRoot' = NewHid(InfoLen) /\ pc' = "close"
      BY <1>9, <2>2 DEF Info
    <3> QED
      BY <1>0, <3>1 DEF BthInv
  <2> QED
    BY <2>1, <2>2
<1> QED
  BY <1>2, <1>3, <1>4, <1>5, <1>6, <1>7, <1>8, <1>9 DEF Next

----------------------------------------------------------------------------
(* Rows.                                                                   *)

\* A row stays in order when the heap and the subnodes only grow.
LEMMA SoundKept ==
  ASSUME NEW r, NEW h, NEW g, NEW s, NEW t, HeapGrows(h, g), Longer(s, t)
  PROVE  /\ Sound(r, h, s) => Sound(r, g, t)
         /\ Whole(r, h, s) => Whole(r, g, t)
<1>1. ASSUME NEW hid, NEW kind, NEW data, Lands(h, hid, kind, data)
      PROVE  Lands(g, hid, kind, data)
  BY <1>1 DEF Lands, HeapGrows, Longer
<1>2. Sound(r, h, s) => Sound(r, g, t)
  BY <1>1 DEF Sound, Longer
<1> QED
  BY <1>2 DEF Whole

\* An element joins a sequence.
LEMMA AppendFacts ==
  ASSUME NEW S, NEW s \in Seq(S), NEW x \in S
  PROVE  /\ Append(s, x) \in Seq(S) /\ Len(s) \in Nat /\ Len(Append(s, x)) = Len(s) + 1
         /\ DOMAIN s = 1 .. Len(s) /\ DOMAIN Append(s, x) = 1 .. (Len(s) + 1)
         /\ Append(s, x)[Len(s) + 1] = x
         /\ \A k \in DOMAIN s : k \in DOMAIN Append(s, x) /\ Append(s, x)[k] = s[k]
         /\ \A k \in DOMAIN Append(s, x) : k \in DOMAIN s \/ k = Len(s) + 1
<1>1. Len(s) \in Nat /\ DOMAIN s = 1 .. Len(s)
  OBVIOUS
<1>2. /\ Append(s, x) \in Seq(S) /\ Len(Append(s, x)) = Len(s) + 1
      /\ DOMAIN Append(s, x) = 1 .. (Len(s) + 1)
      /\ Append(s, x)[Len(s) + 1] = x
      /\ \A k \in 1 .. Len(s) : Append(s, x)[k] = s[k]
  OBVIOUS
<1> QED
  BY <1>1, <1>2

\* A row that got a cell is in order when the cell is.
LEMMA CellJoins ==
  ASSUME NEW ref \in Cells, row \in Rows, SetCell(ref), NEW h, NEW s, Sound(row, h, s),
         ref.in = "heap" => Lands(h, ref.at, "cell", <<row.id, Len(row.cells) + 1>>),
         ref.in = "subnode" => /\ ref.at \in DOMAIN s
                               /\ s[ref.at].data = <<row.id, Len(row.cells) + 1>>
  PROVE  Sound(row', h, s)
<1>1. /\ row' \in Rows /\ row'.id = row.id /\ Len(row.cells) \in Nat
      /\ DOMAIN row.cells = 1 .. Len(row.cells)
      /\ DOMAIN row'.cells = 1 .. (Len(row.cells) + 1)
      /\ \A c \in 1 .. Len(row.cells) : row'.cells[c] = row.cells[c]
      /\ row'.cells[Len(row.cells) + 1] = ref
  BY SetCellFacts
<1>2. ASSUME NEW c \in DOMAIN row'.cells
      PROVE  /\ row'.cells[c].in = "heap" => Lands(h, row'.cells[c].at, "cell", <<row'.id, c>>)
             /\ row'.cells[c].in = "subnode" =>
                  row'.cells[c].at \in DOMAIN s /\ s[row'.cells[c].at].data = <<row'.id, c>>
  <2>1. c \in 1 .. Len(row.cells) \/ c = Len(row.cells) + 1
    BY <1>1
  <2>2. CASE c \in 1 .. Len(row.cells)
    BY <1>1, <2>2 DEF Sound
  <2>3. CASE c = Len(row.cells) + 1
    BY <1>1, <2>3
  <2> QED
    BY <2>1, <2>2, <2>3
<1> QED
  BY <1>1, <1>2 DEF Sound

\* The cells of every row are in place.
LEMMA CellsStep ==
  ASSUME IInv, Next
  PROVE  CellsInv'
<1>h. HeapGrows(Heap, Heap')
  BY HeapStep
<1>t. /\ rowBlock \in Seq(Rows) /\ rowLeaves \in Seq(Seq(Rows)) /\ subnodes \in Seq(HeapItems)
      /\ row \in Rows
  BY DEF IInv, OrdinalInv, CellsInv, RowInv
<1>c. CellsInv
  BY DEF IInv
<1>s. Longer(subnodes, subnodes)
  BY DEF Longer
<1>k. ASSUME Longer(subnodes, subnodes')
      PROVE  /\ \A k \in DOMAIN rowBlock : Whole(rowBlock[k], Heap', subnodes')
             /\ \A k \in DOMAIN rowLeaves :
                  \A l \in DOMAIN rowLeaves[k] : Whole(rowLeaves[k][l], Heap', subnodes')
             /\ Busy => Sound(row, Heap', subnodes')
  BY <1>h, <1>c, <1>k, SoundKept DEF CellsInv
<1>1. ASSUME NEW id \in RowIds, beginRow(id) PROVE CellsInv'
  <2>1. /\ pc = "idle" /\ ~inRow /\ pc' = "cells" /\ row' = [id |-> id, cells |-> <<>>]
        /\ UNCHANGED <<rowBlock, rowLeaves, subnodes, index>>
    BY <1>1 DEF beginRow, heapVars
  <2>2. Sound(row', Heap', subnodes')
    <3>1. row'.cells = <<>> /\ DOMAIN row'.cells = {}
      BY <2>1
    <3>2. row' \in Rows
      BY RowStep DEF RowInv
    <3> QED
      BY <3>1, <3>2 DEF Sound
  <2> QED
    BY <1>c, <1>k, <1>s, <2>1, <2>2 DEF CellsInv
<1>2. ASSUME NEW len \in Lengths, setBinary(len) PROVE CellsInv'
  <2> DEFINE value == Item("cell", <<row.id, Len(row.cells) + 1>>, len)
  <2>0. /\ pc = "cells" /\ UNCHANGED <<rowBlock, rowLeaves, inRow>>
        /\ value \in HeapItems /\ value.len = len /\ value.kind = "cell"
        /\ value.data = <<row.id, Len(row.cells) + 1>>
    BY <1>2, CellCases DEF setBinary
  <2>1. Sound(row, Heap, subnodes) /\ index <= MaxIndex /\ inRow /\ Busy
    BY <1>c, <2>0 DEF CellsInv, Busy, IInv, RowInv
  <2>2. AfterCell => pc' \in {"cells", "end"}
    BY DEF AfterCell
  <2> HIDE DEF value
  <2>3. CASE /\ SetCell([in |-> "nowhere", at |-> 0]) /\ AfterCell
             /\ UNCHANGED <<heapVars, subnodes, bad>>
    <3> DEFINE ref == [in |-> "nowhere", at |-> 0]
    <3>1. ref \in Cells /\ ref.in = "nowhere"
      BY DEF Cells
    <3>2. Sound(row, Heap', subnodes')
      BY <1>k, <1>s, <2>1, <2>3
    <3> HIDE DEF ref
    <3>3. Sound(row', Heap', subnodes')
      BY <1>t, <2>3, <3>1, <3>2, CellJoins DEF ref
    <3> QED
      BY <1>k, <1>s, <1>t, <2>0, <2>1, <2>3, <3>3 DEF CellsInv, heapVars
  <2>4. CASE /\ len <= maxAllocSize /\ alloc(value)
             /\ SetCell([in |-> "heap", at |-> NewHid(len)]) /\ AfterCell
             /\ UNCHANGED subnodes
    <3> DEFINE ref == [in |-> "heap", at |-> NewHid(len)]
    <3>1. ref \in Cells /\ ref.in = "heap" /\ ref.at = NewHid(len)
      BY NewHidType DEF Cells, IInv
    <3>2. Sound(row, Heap', subnodes')
      BY <1>k, <1>s, <2>1, <2>4
    <3>3. Steady(leaves, index)
      BY <2>0 DEF IInv, LeavesInv
    <3>4. index' <= MaxIndex /\ Lands(Heap', NewHid(len), "cell", <<row.id, Len(row.cells) + 1>>)
      BY <2>0, <2>1, <2>4, <3>3, AllocLands DEF IInv
    <3> HIDE DEF ref
    <3>5. Sound(row', Heap', subnodes')
      BY <1>t, <2>4, <3>1, <3>2, <3>4, CellJoins DEF ref
    <3> QED
      BY <1>k, <1>s, <1>t, <2>0, <2>4, <3>4, <3>5 DEF CellsInv
  <2>5. CASE /\ subnodes' = Append(subnodes, value)
             /\ SetCell([in |-> "subnode", at |-> Len(subnodes) + 1]) /\ AfterCell
             /\ UNCHANGED <<heapVars, bad>>
    <3> DEFINE ref == [in |-> "subnode", at |-> Len(subnodes) + 1]
    <3>1. /\ subnodes' \in Seq(HeapItems) /\ Longer(subnodes, subnodes')
          /\ Len(subnodes) + 1 \in DOMAIN subnodes' /\ subnodes'[Len(subnodes) + 1] = value
          /\ Len(subnodes) \in Nat
      <4> HIDE DEF HeapItems
      <4>1. /\ subnodes' \in Seq(HeapItems) /\ Len(subnodes) \in Nat
            /\ subnodes'[Len(subnodes) + 1] = value
            /\ DOMAIN subnodes' = 1 .. (Len(subnodes) + 1)
            /\ \A k \in DOMAIN subnodes : k \in DOMAIN subnodes' /\ subnodes'[k] = subnodes[k]
        BY <1>t, <2>0, <2>5, AppendFacts
      <4> QED
        BY <4>1 DEF Longer
    <3>2. ref \in Cells /\ ref.in = "subnode" /\ ref.at = Len(subnodes) + 1
      BY <3>1 DEF Cells
    <3>3. Sound(row, Heap', subnodes')
      BY <1>k, <2>1, <3>1
    <3> HIDE DEF ref
    <3>4. Sound(row', Heap', subnodes')
      BY <1>t, <2>0, <2>5, <3>1, <3>2, <3>3, CellJoins DEF ref
    <3> QED
      BY <1>k, <2>0, <2>1, <2>5, <3>1, <3>4 DEF CellsInv, heapVars
  <2>6. CASE pc' = "idle" /\ UNCHANGED subnodes
    BY <1>k, <1>s, <1>t, <2>0, <2>1, <2>6 DEF CellsInv, Busy
  <2> QED
    BY <1>2, <2>3, <2>4, <2>5, <2>6, CellCases DEF value
<1>3. ASSUME endRow PROVE CellsInv'
  <2>1. pc = "end" /\ pc' = "idle" /\ UNCHANGED <<subnodes, index>>
    BY <1>3 DEF endRow, heapVars
  <2>2. Whole(row, Heap', subnodes') /\ index <= MaxIndex
    BY <1>c, <1>k, <1>s, <2>1 DEF Whole, Busy, CellsInv, IInv, RowInv
  <2>3. CASE rowLeaves' = Append(rowLeaves, rowBlock) /\ rowBlock' = <<row>>
    <3>1. \A k \in DOMAIN rowLeaves' : \/ k \in DOMAIN rowLeaves /\ rowLeaves'[k] = rowLeaves[k]
                                       \/ rowLeaves'[k] = rowBlock
      BY <1>t, <2>3, AppendFacts
    <3>2. \A k \in DOMAIN rowBlock' : rowBlock'[k] = row
      BY <2>3
    <3> QED
      BY <1>k, <1>s, <1>t, <2>1, <2>2, <3>1, <3>2 DEF CellsInv, Busy
  <2>4. CASE rowBlock' = Append(rowBlock, row) /\ UNCHANGED rowLeaves
    <3>1. \A k \in DOMAIN rowBlock' : \/ k \in DOMAIN rowBlock /\ rowBlock'[k] = rowBlock[k]
                                      \/ rowBlock'[k] = row
      BY <1>t, <2>4, AppendFacts
    <3> QED
      BY <1>k, <1>s, <1>t, <2>1, <2>2, <2>4, <3>1 DEF CellsInv, Busy
  <2>5. CASE UNCHANGED <<rowBlock, rowLeaves>>
    BY <1>k, <1>s, <1>t, <2>1, <2>2, <2>5 DEF CellsInv, Busy
  <2> QED
    BY <1>3, <2>3, <2>4, <2>5 DEF endRow
<1>4. ASSUME UNCHANGED <<rowBlock, rowLeaves, subnodes>>,
             pc' \notin {"idle", "cells", "end"}
      PROVE  CellsInv'
  BY <1>k, <1>s, <1>t, <1>4 DEF CellsInv, Busy
<1>5. ASSUME finish PROVE CellsInv'
  <2>1. CASE Lost /\ UNCHANGED <<rowBlock, rowLeaves>>
    BY <1>4, <1>5, <2>1 DEF finish, Lost
  <2>2. CASE /\ rowLeaves' = IF rowBlock = <<>> THEN rowLeaves ELSE Append(rowLeaves, rowBlock)
             /\ rowBlock' = <<>> /\ pc' \in {"header", "bth"}
    <3>1. \A k \in DOMAIN rowLeaves' : \/ k \in DOMAIN rowLeaves /\ rowLeaves'[k] = rowLeaves[k]
                                       \/ rowLeaves'[k] = rowBlock
      BY <1>t, <2>2, AppendFacts
    <3>2. DOMAIN rowBlock' = {} /\ UNCHANGED subnodes
      BY <1>5, <2>2 DEF finish
    <3> QED
      BY <1>k, <1>s, <1>t, <2>2, <3>1, <3>2 DEF CellsInv, Busy
  <2> QED
    BY <1>5, <2>1, <2>2 DEF finish
<1>6. BthPage => CellsInv'
  BY <1>4, PageCases DEF BthPage, tableVars
<1>7. BthHeader \/ Info \/ CloseHeap => CellsInv'
  BY <1>4 DEF BthHeader, Info, CloseHeap, Lost, tableVars
<1> QED
  BY <1>1, <1>2, <1>3, <1>5, <1>6, <1>7 DEF Next

\* A row keeps its ordinal when the open block joins the others, and when a row
\* joins the open block.
LEMMA OrdinalKept ==
  ASSUME NEW blocks \in Seq(Seq(Rows)), NEW open \in Seq(Rows), NEW n, NEW id,
         RowAtOrdinal(n, id, blocks, open)
  PROVE  /\ \A rest : RowAtOrdinal(n, id, Append(blocks, open), rest)
         /\ \A r \in Rows : RowAtOrdinal(n, id, blocks, Append(open, r))
         /\ open = <<>> => \A rest : RowAtOrdinal(n, id, blocks, rest)
<1>1. /\ Len(blocks) \in Nat /\ Len(blocks) + 1 \in DOMAIN Append(blocks, open)
      /\ Append(blocks, open)[Len(blocks) + 1] = open
      /\ \A k \in DOMAIN blocks : /\ k \in DOMAIN Append(blocks, open)
                                  /\ Append(blocks, open)[k] = blocks[k]
  BY AppendFacts
<1>2. (Len(blocks) + 1) - 1 = Len(blocks)
  BY <1>1
<1>3. CASE \E k \in DOMAIN blocks : \E l \in DOMAIN blocks[k] :
             n = RowsPerBlock * (k - 1) + (l - 1) /\ blocks[k][l].id = id
  <2>1. PICK k \in DOMAIN blocks : \E l \in DOMAIN blocks[k] :
          n = RowsPerBlock * (k - 1) + (l - 1) /\ blocks[k][l].id = id
    BY <1>3
  <2>2. PICK l \in DOMAIN blocks[k] : n = RowsPerBlock * (k - 1) + (l - 1) /\ blocks[k][l].id = id
    BY <2>1
  <2>3. k \in DOMAIN Append(blocks, open) /\ Append(blocks, open)[k] = blocks[k]
    BY <1>1
  <2>4. \A rest : RowAtOrdinal(n, id, Append(blocks, open), rest)
    BY <2>2, <2>3 DEF RowAtOrdinal
  <2>5. \A rest : RowAtOrdinal(n, id, blocks, rest)
    BY <1>3 DEF RowAtOrdinal
  <2> QED
    BY <2>4, <2>5
<1>4. CASE \E l \in DOMAIN open :
             n = RowsPerBlock * Len(blocks) + (l - 1) /\ open[l].id = id
  <2>1. PICK l \in DOMAIN open : n = RowsPerBlock * Len(blocks) + (l - 1) /\ open[l].id = id
    BY <1>4
  <2>2. n = RowsPerBlock * ((Len(blocks) + 1) - 1) + (l - 1)
    BY <1>2, <2>1
  <2>3. l \in DOMAIN Append(blocks, open)[Len(blocks) + 1]
        /\ Append(blocks, open)[Len(blocks) + 1][l].id = id
    BY <1>1, <2>1
  <2>4. \A rest : RowAtOrdinal(n, id, Append(blocks, open), rest)
    BY <1>1, <2>2, <2>3 DEF RowAtOrdinal
  <2>5. ASSUME NEW r \in Rows PROVE RowAtOrdinal(n, id, blocks, Append(open, r))
    <3>1. l \in DOMAIN Append(open, r) /\ Append(open, r)[l] = open[l]
      BY AppendFacts
    <3> QED
      BY <2>1, <3>1 DEF RowAtOrdinal
  <2>6. open # <<>>
    BY <2>1
  <2> QED
    BY <2>4, <2>5, <2>6
<1> QED
  BY <1>3, <1>4 DEF RowAtOrdinal

\* Every row that was counted stays where its ordinal says.
LEMMA OrdinalStep ==
  ASSUME IInv, Next
  PROVE  OrdinalInv'
<1>o. /\ rowBlock \in Seq(Rows) /\ rowLeaves \in Seq(Seq(Rows)) /\ row \in Rows
      /\ Len(rowBlock) <= RowsPerBlock /\ Len(rowBlock) \in Nat /\ Len(rowLeaves) \in Nat
      /\ \A k \in DOMAIN rowLeaves : Len(rowLeaves[k]) <= RowsPerBlock
      /\ pc \in {"idle", "cells", "end"} =>
           /\ \A k \in DOMAIN rowLeaves : Len(rowLeaves[k]) = RowsPerBlock
           /\ rowCount = RowsPerBlock * Len(rowLeaves) + Len(rowBlock)
      /\ pc \notin {"idle", "cells", "end", "lost"} => rowBlock = <<>>
      /\ kept \subseteq {e.id : e \in rowIndex}
      /\ \A e \in rowIndex : e.id \in kept => RowAtOrdinal(e.ordinal, e.id, rowLeaves, rowBlock)
  BY DEF IInv, OrdinalInv, RowInv
<1>r. RowsPerBlock \in Nat \ {0}
  BY Sizes
<1>1. ASSUME NEW id \in RowIds, beginRow(id) PROVE OrdinalInv'
  <2> DEFINE e == [id |-> id, ordinal |-> rowCount]
  <2>1. /\ pc = "idle" /\ pc' = "cells" /\ rowIndex' = rowIndex \cup {e}
        /\ id \notin {f.id : f \in rowIndex}
        /\ UNCHANGED <<rowBlock, rowLeaves, rowCount, kept>>
    BY <1>1 DEF beginRow
  <2>2. e.id = id
    OBVIOUS
  <2> HIDE DEF e
  <2>3. e.id \notin kept
    BY <1>o, <2>1, <2>2
  <2> QED
    BY <1>o, <2>1, <2>3 DEF OrdinalInv
<1>2. ASSUME UNCHANGED <<rowBlock, rowLeaves, rowIndex, rowCount, kept>>,
             \/ pc' = "lost"
             \/ pc \in {"idle", "cells", "end"} /\ pc' \in {"idle", "cells", "end"}
             \/ pc \notin {"idle", "cells", "end", "lost"} /\ pc' \notin {"idle", "cells", "end"}
      PROVE  OrdinalInv'
  BY <1>o, <1>2 DEF OrdinalInv
<1>3. ASSUME NEW len \in Lengths, setBinary(len) PROVE OrdinalInv'
  <2>1. pc = "cells" /\ pc' \in {"idle", "cells", "end"}
    BY <1>3, CellSet DEF AfterCell, setBinary
  <2> QED
    BY <1>2, <1>3, <2>1 DEF setBinary
<1>4. ASSUME endRow PROVE OrdinalInv'
  <2>1. pc = "end" /\ pc' = "idle" /\ rowIndex' = rowIndex
    BY <1>4 DEF endRow
  <2>2. /\ \A k \in DOMAIN rowLeaves : Len(rowLeaves[k]) = RowsPerBlock
        /\ rowCount = RowsPerBlock * Len(rowLeaves) + Len(rowBlock)
    BY <1>o, <2>1
  <2>3. [id |-> row.id, ordinal |-> rowCount] \in rowIndex
    BY <2>1 DEF IInv, RowInv, Busy
  <2>4. ASSUME NEW e \in rowIndex, e.id = row.id PROVE e.ordinal = rowCount
    <3>1. \A f, g \in rowIndex : f.id = g.id => f = g
      BY DEF IInv, RowInv
    <3> QED
      BY <2>3, <2>4, <3>1
  <2>5. row.id \in {e.id : e \in rowIndex}
    BY <2>3
  <2>6. CASE /\ RowBlockFull /\ rowLeaves' = Append(rowLeaves, rowBlock) /\ rowBlock' = <<row>>
             /\ rowCount' = rowCount + 1 /\ kept' = kept \cup {row.id}
    <3>1. Len(rowBlock) = RowsPerBlock
      BY <1>o, <1>r, <2>6 DEF RowBlockFull
    <3>2. rowBlock' \in Seq(Rows) /\ Len(rowBlock') = 1 /\ 1 \in DOMAIN rowBlock' /\ rowBlock'[1] = row
      BY <1>o, <2>6
    <3>3. /\ rowLeaves' \in Seq(Seq(Rows)) /\ Len(rowLeaves') = Len(rowLeaves) + 1
          /\ \A k \in DOMAIN rowLeaves' : \/ k \in DOMAIN rowLeaves /\ rowLeaves'[k] = rowLeaves[k]
                                          \/ rowLeaves'[k] = rowBlock
      BY <1>o, <2>6, AppendFacts
    <3>4. \A k \in DOMAIN rowLeaves' : Len(rowLeaves'[k]) = RowsPerBlock
      BY <2>2, <3>1, <3>3
    <3>5. rowCount = RowsPerBlock * Len(rowLeaves') /\ rowCount' = RowsPerBlock * Len(rowLeaves') + 1
      <4>1. RowsPerBlock * (Len(rowLeaves) + 1) = RowsPerBlock * Len(rowLeaves) + RowsPerBlock
        BY <1>o, <1>r
      <4>2. RowsPerBlock * Len(rowLeaves') = RowsPerBlock * (Len(rowLeaves) + 1)
        BY <3>3
      <4> QED
        BY <2>2, <2>6, <3>1, <4>1, <4>2
    <3>6. ASSUME NEW e \in rowIndex, e.id \in kept'
          PROVE  RowAtOrdinal(e.ordinal, e.id, rowLeaves', rowBlock')
      <4>1. CASE e.id \in kept
        BY <1>o, <2>6, <4>1, OrdinalKept
      <4>2. CASE e.id = row.id
        <5>1. e.ordinal = RowsPerBlock * Len(rowLeaves') + (1 - 1)
          BY <1>o, <1>r, <2>4, <3>3, <3>5, <4>2
        <5> QED
          BY <3>2, <4>2, <5>1 DEF RowAtOrdinal
      <4> QED
        BY <2>6, <3>6, <4>1, <4>2
    <3>7. kept' \subseteq {e.id : e \in rowIndex'}
      BY <1>o, <2>1, <2>5, <2>6
    <3>8. \A k \in DOMAIN rowLeaves' : Len(rowLeaves'[k]) <= RowsPerBlock
      BY <1>r, <3>4
    <3> QED
      BY <1>r, <2>1, <3>2, <3>3, <3>4, <3>5, <3>6, <3>7, <3>8 DEF OrdinalInv
  <2>7. CASE /\ ~RowBlockFull /\ rowBlock' = Append(rowBlock, row) /\ UNCHANGED rowLeaves
             /\ rowCount' = rowCount + 1 /\ kept' = kept \cup {row.id}
    <3>1. Len(rowBlock) + 1 <= RowsPerBlock
      BY <1>o, <1>r, <2>7 DEF RowBlockFull
    <3>2. /\ rowBlock' \in Seq(Rows) /\ Len(rowBlock') = Len(rowBlock) + 1
          /\ Len(rowBlock) + 1 \in DOMAIN rowBlock' /\ rowBlock'[Len(rowBlock) + 1] = row
      <4>1. DOMAIN rowBlock' = 1 .. (Len(rowBlock) + 1)
        BY <1>o, <2>7, AppendFacts
      <4>2. Len(rowBlock) + 1 \in 1 .. (Len(rowBlock) + 1)
        BY <1>o
      <4> QED
        BY <1>o, <2>7, <4>1, <4>2, AppendFacts
    <3>3. RowsPerBlock * Len(rowLeaves) \in Nat
      BY <1>o, <1>r
    <3>4. rowCount' = RowsPerBlock * Len(rowLeaves') + Len(rowBlock')
      BY <1>o, <2>2, <2>7, <3>2, <3>3
    <3>5. ASSUME NEW e \in rowIndex, e.id \in kept'
          PROVE  RowAtOrdinal(e.ordinal, e.id, rowLeaves', rowBlock')
      <4>1. CASE e.id \in kept
        BY <1>o, <2>7, <4>1, OrdinalKept
      <4>2. CASE e.id = row.id
        <5>1. e.ordinal = RowsPerBlock * Len(rowLeaves') + ((Len(rowBlock) + 1) - 1)
          BY <1>o, <2>2, <2>4, <2>7, <3>3, <4>2
        <5> QED
          BY <3>2, <4>2, <5>1 DEF RowAtOrdinal
      <4> QED
        BY <2>7, <3>5, <4>1, <4>2
    <3>6. kept' \subseteq {e.id : e \in rowIndex'}
      BY <1>o, <2>1, <2>5, <2>7
    <3> QED
      BY <1>o, <2>1, <2>2, <2>7, <3>1, <3>2, <3>4, <3>5, <3>6 DEF OrdinalInv
  <2>8. CASE UNCHANGED <<rowBlock, rowLeaves, rowCount, kept>>
    BY <1>2, <2>1, <2>8
  <2> QED
    BY <1>4, <2>6, <2>7, <2>8 DEF endRow
<1>5. ASSUME finish PROVE OrdinalInv'
  <2>1. CASE Lost /\ UNCHANGED <<rowBlock, rowLeaves>>
    BY <1>2, <1>5, <2>1 DEF finish, Lost
  <2>2. CASE /\ rowLeaves' = IF rowBlock = <<>> THEN rowLeaves ELSE Append(rowLeaves, rowBlock)
             /\ rowBlock' = <<>> /\ pc' \in {"header", "bth"}
    <3>1. UNCHANGED <<rowIndex, rowCount, kept>>
      BY <1>5 DEF finish
    <3>2. /\ rowLeaves' \in Seq(Seq(Rows))
          /\ \A k \in DOMAIN rowLeaves' : \/ k \in DOMAIN rowLeaves /\ rowLeaves'[k] = rowLeaves[k]
                                          \/ rowLeaves'[k] = rowBlock
      BY <1>o, <2>2, AppendFacts
    <3>3. \A e \in rowIndex : e.id \in kept => RowAtOrdinal(e.ordinal, e.id, rowLeaves', rowBlock')
      BY <1>o, <2>2, OrdinalKept
    <3>4. rowBlock' \in Seq(Rows) /\ Len(rowBlock') <= RowsPerBlock
      BY <1>r, <2>2
    <3> QED
      BY <1>o, <2>2, <3>1, <3>2, <3>3, <3>4 DEF OrdinalInv
  <2> QED
    BY <1>5, <2>1, <2>2 DEF finish
<1>6. BthPage => OrdinalInv'
  BY <1>2, PageCases DEF BthPage, tableVars
<1>7. BthHeader \/ Info \/ CloseHeap => OrdinalInv'
  BY <1>2 DEF BthHeader, Info, CloseHeap, Lost, tableVars
<1> QED
  BY <1>1, <1>3, <1>4, <1>5, <1>6, <1>7 DEF Next

----------------------------------------------------------------------------
(* The theorems.                                                           *)

\* The writer starts in the invariant.
LEMMA InitIInv == Init => IInv
<1> SUFFICES ASSUME Init PROVE IInv
  OBVIOUS
<1>1. HeapInv
  <2>1. block0 = Empty /\ current = Empty /\ index = 0 /\ bad = FALSE
    BY DEF Init
  <2> QED
    BY <2>1, FreshFits DEF HeapInv
<1>2. LeavesInv
  <2>1. leaves = <<Empty>> /\ index = 0 /\ pc = "idle"
    BY DEF Init
  <2>2. Empty \in Chunks
    BY DEF Chunks
  <2> HIDE DEF Chunks, Empty
  <2>3. leaves \in Seq(Chunks) /\ Len(leaves) = 1
    BY <2>1, <2>2
  <2>4. DOMAIN leaves = {1}
    BY <2>1
  <2> QED
    BY <2>1, <2>3, <2>4 DEF LeavesInv, Steady
<1>3. RowInv
  <2>1. row = [id |-> 0, cells |-> <<>>] /\ rowIndex = {} /\ pc = "idle" /\ inRow = FALSE
        /\ rowCount = 0 /\ kept = {}
    BY DEF Init
  <2>2. row \in Rows /\ Len(row.cells) = 0
    BY <2>1 DEF Rows
  <2>3. IsFiniteSet(rowIndex) /\ \A e, f \in rowIndex : e.id = f.id => e = f
    BY <2>1, FS_EmptySet
  <2>4. rowIndex \subseteq [id : RowIds, ordinal : Nat] /\ kept \subseteq RowIds
    BY <2>1
  <2>5. Len(row.cells) <= Columns
    BY <2>2, Sizes
  <2>6. inRow \in BOOLEAN
    BY <2>1
  <2>7. rowCount \in Nat
    BY <2>1
  <2>8. /\ pc \in {"idle", "cells", "end", "bth", "header", "info", "close", "done", "lost"}
        /\ pc # "cells" /\ pc # "end" /\ ~ Busy
    BY <2>1 DEF Busy
  <2> QED
    BY <2>2, <2>3, <2>4, <2>5, <2>6, <2>7, <2>8, Zenon DEF RowInv
<1>4. BthInv
  BY Sizes DEF Init, BthInv, NoHid, Hids
<1>5. CellsInv
  BY Sizes DEF Init, CellsInv, Busy
<1>6. OrdinalInv
  BY Sizes DEF Init, OrdinalInv
<1> QED
  BY <1>1, <1>2, <1>3, <1>4, <1>5, <1>6 DEF IInv

\* Every step preserves the invariant.
LEMMA StepIInv == IInv /\ [Next]_vars => IInv'
<1> SUFFICES ASSUME IInv, [Next]_vars PROVE IInv'
  OBVIOUS
<1>1. CASE Next
  BY <1>1, HeapStep, RowStep, BthStep, CellsStep, OrdinalStep DEF IInv
<1>2. CASE UNCHANGED vars
  <2>1. HeapInv' /\ LeavesInv' /\ RowInv' /\ BthInv'
    BY <1>2 DEF vars, IInv, HeapInv, Fit, LeavesInv, Steady, RowInv, Busy, BthInv
  <2>2. CellsInv' /\ OrdinalInv'
    <3>1. Heap' = Heap
      BY <1>2 DEF vars, Heap
    <3> QED
      BY <1>2, <3>1 DEF vars, IInv, CellsInv, Busy, OrdinalInv
  <2> QED
    BY <2>1, <2>2 DEF IInv
<1> QED
  BY <1>1, <1>2

\* The invariant holds throughout.
LEMMA IInvAlways == Spec => []IInv
  BY InitIInv, StepIInv, PTL DEF Spec

\* The members of StreamingHeap and TableContextWriter keep their types, and no
\* row gets more cells than addMessage() sets.
THEOREM TypeCorrect == Spec => []TypeOK
<1>1. IInv => TypeOK
  <2> SUFFICES ASSUME IInv PROVE TypeOK
    OBVIOUS
  <2>1. ASSUME NEW b \in Blocks
        PROVE  b.used \in Nat /\ \A i \in DOMAIN b.items : b.items[i].kind \in Kinds
    <3>1. b.used \in Nat /\ b.items \in Seq(HeapItems)
      BY DEF Blocks
    <3>2. \A i \in DOMAIN b.items : b.items[i] \in HeapItems
      BY <3>1
    <3> QED
      BY <3>1, <3>2 DEF HeapItems
  <2>2. block0 \in Blocks /\ current \in Blocks /\ index \in Nat /\ bad \in BOOLEAN
    BY DEF IInv, HeapInv
  <2>3. userRoot \in (0 .. MaxIndex) \X (0 .. MaxItems)
    BY DEF IInv, BthInv, Hids
  <2>4. /\ rowCount \in Nat /\ inRow \in BOOLEAN /\ kept \subseteq RowIds
        /\ \A e \in rowIndex : e.id \in RowIds /\ e.ordinal \in Nat
        /\ pc \in {"idle", "cells", "end", "bth", "header", "info", "close", "done", "lost"}
        /\ Len(row.cells) <= Columns /\ (pc = "end" => Len(row.cells) = Columns)
    BY DEF IInv, RowInv
  <2> QED
    BY <2>1, <2>2, <2>3, <2>4 DEF TypeOK
<1> QED
  BY <1>1, IInvAlways, PTL

\* The page map of a block never runs into its items: fits() counts the header
\* the block has, the page map with the new entry and the byte that aligns it.
THEOREM BlocksAlwaysFit == Spec => []BlocksFit
<1>1. IInv => BlocksFit
  <2> SUFFICES ASSUME IInv PROVE BlocksFit
    OBVIOUS
  <2>1. ASSUME NEW b \in Blocks, NEW i \in Nat, Fit(b, i) PROVE Rendered(b, i) <= BlockSize
    <3>1. b.used \in Nat /\ Len(b.items) \in Nat
      BY DEF Blocks
    <3>2. blockHeaderSize(i) \in Nat /\ BlockSize \in Nat
      BY HeaderBound, Sizes
    <3> DEFINE x == blockHeaderSize(i) + b.used
    <3>3. x \in Nat
      BY <3>1, <3>2
    <3>4. x + pageMapSize(Len(b.items)) + 1 <= BlockSize /\ pageMapSize(Len(b.items)) \in Nat
      BY <2>1, <3>1, <3>2 DEF Fit, pageMapSize
    <3>5. Rendered(b, i) = Aligned(x) + pageMapSize(Len(b.items))
      BY DEF Rendered
    <3> HIDE DEF x
    <3>6. Aligned(x) \in Nat /\ Aligned(x) <= x + 1
      BY <3>3 DEF Aligned
    <3> QED
      BY <3>2, <3>3, <3>4, <3>5, <3>6
  <2>2. /\ block0 \in Blocks /\ current \in Blocks /\ index \in Nat
        /\ Fit(block0, 0) /\ Fit(current, index)
    BY DEF IInv, HeapInv
  <2>3. Len(block0.items) <= MaxItems /\ Len(current.items) <= MaxItems
    BY <2>2 DEF Fit
  <2> QED
    BY <2>1, <2>2, <2>3 DEF BlocksFit
<1> QED
  BY <1>1, IInvAlways, PTL

\* The block being filled is the next leaf of the data tree, and every leaf but
\* the last is a whole block, though block 0 is written last: flushCurrent()
\* and finish() keep current_index_ and leaves_ together, failures included.
THEOREM IndexesInStep == Spec => []InStep
<1>1. IInv => InStep
  <2> SUFFICES ASSUME IInv PROVE InStep
    OBVIOUS
  <2>1. index \in Nat /\ LeavesInv
    BY DEF IInv, HeapInv
  <2>2. Max({1, index}) = IF index = 0 THEN 1 ELSE index
    <3>1. CASE index = 0
      <4>1. \A x \in {1, index} : (\A y \in {1, index} : x >= y) => x = 1
        BY <3>1
      <4>2. \A y \in {1, index} : 1 >= y
        BY <3>1
      <4> QED
        BY <3>1, <4>1, <4>2 DEF Max
    <3>2. CASE index # 0
      <4>1. \A x \in {1, index} : (\A y \in {1, index} : x >= y) => x = index
        BY <2>1, <3>2
      <4>2. \A y \in {1, index} : index >= y
        BY <2>1, <3>2
      <4> QED
        BY <3>2, <4>1, <4>2 DEF Max
    <3> QED
      BY <3>1, <3>2
  <2>3. CASE pc # "done"
    <3>1. Len(leaves) = (IF index = 0 THEN 1 ELSE index)
      BY <2>1, <2>3 DEF LeavesInv, Steady
    <3>2. \A k \in DOMAIN leaves : k > 1 => leaves[k].size = BlockSize
      BY <2>1, <2>3 DEF LeavesInv, Steady
    <3>3. Len(leaves) = Max({1, index})
      BY <2>2, <3>1
    <3> QED
      BY <2>3, <3>2, <3>3, Zenon DEF InStep
  <2>4. CASE pc = "done"
    <3>1. /\ leaves \in Seq(Chunks) /\ Len(leaves) = index + 1
          /\ \A k \in 2 .. index : leaves[k].size = BlockSize
          /\ index > 0 => leaves[1].size = BlockSize
      BY <2>1, <2>4 DEF LeavesInv
    <3>2. \A k \in DOMAIN leaves : k > 1 /\ k < Len(leaves) => k \in 2 .. index
      BY <2>1, <3>1
    <3> QED
      BY <2>4, <3>1, <3>2 DEF InStep
  <2> QED
    BY <2>3, <2>4
<1> QED
  BY <1>1, IInvAlways, PTL

----------------------------------------------------------------------------
(* Reading a finished table.                                               *)

\* A reader of a finished table finds in the heap what its identifiers lead to.
LEMMA ReadLands ==
  ASSUME IInv, pc = "done", NEW hid, NEW kind, NEW data, NEW none, Lands(Heap, hid, kind, data)
  PROVE  ReadHeap(hid, kind, none) = data
<1>1. /\ index \in Nat /\ leaves \in Seq(Chunks) /\ Len(leaves) = index + 1
      /\ index > 0 => leaves[index + 1].items = current.items
      /\ leaves[1].items = block0.items
  BY DEF IInv, HeapInv, LeavesInv
<1>2. DOMAIN leaves = 1 .. (index + 1) /\ DOMAIN Heap = 0 .. index
  BY <1>1 DEF Heap, HeapOf
<1>3. ASSUME NEW i \in 0 .. index PROVE i + 1 \in DOMAIN leaves /\ leaves[i + 1].items = Heap[i]
  <2>1. i + 1 \in DOMAIN leaves
    BY <1>1, <1>2
  <2>2. Heap[i] = IF i = 0 THEN block0.items
                  ELSE IF i = index THEN current.items ELSE leaves[i + 1].items
    BY DEF Heap, HeapOf
  <2>3. i > 0 /\ i = index => index > 0
    OBVIOUS
  <2>4. CASE i = 0
    BY <1>1, <2>1, <2>2, <2>4
  <2>5. CASE i # 0 /\ i = index
    BY <1>1, <2>1, <2>2, <2>5
  <2>6. CASE i # 0 /\ i # index
    BY <2>1, <2>2, <2>6
  <2> QED
    BY <2>4, <2>5, <2>6
<1>4. hid[1] \in 0 .. index /\ hid[2] \in DOMAIN Heap[hid[1]]
      /\ Heap[hid[1]][hid[2]].kind = kind /\ Heap[hid[1]][hid[2]].data = data
  BY <1>2 DEF Lands
<1>5. hid[1] + 1 \in DOMAIN leaves /\ leaves[hid[1] + 1].items = Heap[hid[1]]
  BY <1>3, <1>4
<1> QED
  BY <1>4, <1>5 DEF ReadHeap

\* The part of TableReadable that does not search the row index: once finish()
\* returned, the ordinal an entry of the index holds leads to the row of its
\* message, and every cell of that row to the string that was set.
RowsReadBack ==
  pc = "done" =>
    \A e \in rowIndex : e.id \in kept =>
      LET r == RowAt(e.ordinal)
      IN  /\ r.id = e.id /\ Len(r.cells) = Columns
          /\ \A c \in 1 .. Columns : CellOf(e.id, c, r.cells[c])

\* A quotient and a remainder are those of the number they make.
LEMMA DivModIs ==
  ASSUME NEW s \in Nat \ {0}, NEW q \in Nat, NEW r \in 0 .. (s - 1), NEW n, n = s * q + r
  PROVE  n \div s = q /\ n % s = r
<1> DEFINE a == n \div s
           b == n % s
<1>1. n \in Nat
  OBVIOUS
<1>2. n = s * a + b /\ a \in Nat /\ b \in 0 .. (s - 1)
  BY <1>1, DivMod
<1> HIDE DEF a, b
<1>3. s * q + r = s * a + b
  BY <1>2
<1>4. ASSUME a < q PROVE FALSE
  <2>1. q - a - 1 \in Nat /\ q = a + 1 + (q - a - 1)
    BY <1>2, <1>4
  <2>2. s * q = s * a + s + s * (q - a - 1) /\ s * (q - a - 1) \in Nat
    BY <1>2, <2>1
  <2>3. s * a \in Nat
    BY <1>2
  <2> QED
    BY <1>2, <1>3, <2>2, <2>3
<1>5. ASSUME q < a PROVE FALSE
  <2>1. a - q - 1 \in Nat /\ a = q + 1 + (a - q - 1)
    BY <1>2, <1>5
  <2>2. s * a = s * q + s + s * (a - q - 1) /\ s * (a - q - 1) \in Nat
    BY <1>2, <2>1
  <2>3. s * q \in Nat
    OBVIOUS
  <2> QED
    BY <1>2, <1>3, <2>2, <2>3
<1>6. a = q
  BY <1>2, <1>4, <1>5
<1>7. b = r
  BY <1>2, <1>3, <1>6
<1> QED
  BY <1>6, <1>7 DEF a, b

\* The rows of a finished table, by their ordinals.
LEMMA RowsFound == IInv => RowsReadBack
<1> SUFFICES ASSUME IInv, pc = "done", NEW e \in rowIndex, e.id \in kept
             PROVE  LET r == RowAt(e.ordinal)
                    IN  /\ r.id = e.id /\ Len(r.cells) = Columns
                        /\ \A c \in 1 .. Columns : CellOf(e.id, c, r.cells[c])
  BY DEF RowsReadBack
<1> DEFINE r == RowAt(e.ordinal)
<1>1. /\ rowBlock = <<>> /\ rowLeaves \in Seq(Seq(Rows))
      /\ \A k \in DOMAIN rowLeaves : Len(rowLeaves[k]) <= RowsPerBlock
      /\ RowAtOrdinal(e.ordinal, e.id, rowLeaves, rowBlock)
  BY DEF IInv, OrdinalInv
<1>2. PICK k \in DOMAIN rowLeaves : \E l \in DOMAIN rowLeaves[k] :
        e.ordinal = RowsPerBlock * (k - 1) + (l - 1) /\ rowLeaves[k][l].id = e.id
  BY <1>1 DEF RowAtOrdinal
<1>3. PICK l \in DOMAIN rowLeaves[k] :
        e.ordinal = RowsPerBlock * (k - 1) + (l - 1) /\ rowLeaves[k][l].id = e.id
  BY <1>2
<1>4. k - 1 \in Nat /\ l - 1 \in 0 .. (RowsPerBlock - 1) /\ k \in Nat /\ l \in Nat
  <2>1. rowLeaves[k] \in Seq(Rows) /\ k \in 1 .. Len(rowLeaves)
    BY <1>1
  <2>2. l \in 1 .. Len(rowLeaves[k]) /\ Len(rowLeaves[k]) \in Nat
    BY <2>1
  <2>3. Len(rowLeaves) \in Nat
    BY <1>1
  <2> QED
    BY <1>1, <2>1, <2>2, <2>3, Sizes
<1>5. e.ordinal \div RowsPerBlock = k - 1 /\ e.ordinal % RowsPerBlock = l - 1
  BY <1>3, <1>4, DivModIs, Sizes
<1>6. r = rowLeaves[k][l]
  <2>1. (k - 1) + 1 = k /\ (l - 1) + 1 = l
    BY <1>4
  <2> QED
    BY <1>5, <2>1 DEF RowAt
<1> HIDE DEF r
<1>7. r.id = e.id /\ Whole(r, Heap, subnodes)
  BY <1>3, <1>6 DEF IInv, CellsInv
<1>8. Len(r.cells) = Columns /\ DOMAIN r.cells = 1 .. Columns
  <2>1. r \in Rows /\ Len(r.cells) = Columns
    BY <1>7 DEF Whole, Sound
  <2>2. r.cells \in Seq(Cells)
    BY <2>1 DEF Rows
  <2> QED
    BY <2>1, <2>2
<1>9. ASSUME NEW c \in 1 .. Columns PROVE CellOf(e.id, c, r.cells[c])
  <2> DEFINE cell == r.cells[c]
  <2>1. /\ cell.in = "heap" => Lands(Heap, cell.at, "cell", <<e.id, c>>)
        /\ cell.in = "subnode" => subnodes[cell.at].data = <<e.id, c>>
    BY <1>7, <1>8 DEF Whole, Sound
  <2>2. cell.in = "heap" => ReadHeap(cell.at, "cell", NoHid) = <<e.id, c>>
    BY <2>1, ReadLands
  <2> HIDE DEF cell
  <2>3. CellOf(e.id, c, cell)
    <3>1. CASE cell.in = "heap"
      BY <2>2, <3>1 DEF CellOf
    <3>2. CASE cell.in = "subnode"
      BY <2>1, <3>2 DEF CellOf
    <3>3. CASE cell.in # "heap" /\ cell.in # "subnode"
      BY <3>3 DEF CellOf
    <3> QED
      BY <3>1, <3>2, <3>3
  <2> QED
    BY <2>3 DEF cell
<1> QED
  BY <1>7, <1>8, <1>9 DEF r

\* Every row that was counted reads back by its ordinal, whichever of its
\* strings went to block 0, to a block flushed long before or to a subnode, and
\* whichever rows were refused on the way.
THEOREM CountedRowsReadBack == Spec => []RowsReadBack
  BY RowsFound, IInvAlways, PTL

----------------------------------------------------------------------------
(* The row index.                                                          *)

\* The pages of the row index, each with the level it is on and the identifier
\* of the item that holds it.  They are not part of the writer's state: the
\* invariant says that there is such a set.
IndexPages == [level : Nat, hid : Hids, entries : (SUBSET Records) \ {{}}]

LowKey(S) == Min({e[1] : e \in S})
Branch(p) == <<LowKey(p.entries), p.hid>>
Before(S, T) == \A e \in S, f \in T : e[1] < f[1]

\* The pages of one level, an entry that one of them holds, and one that leads
\* to one of them.
OnLevel(ps, l) == {p \in ps : p.level = l}
Held(ps, l, e) == \E q \in OnLevel(ps, l) : e \in q.entries
Leads(ps, l, e) == \E q \in OnLevel(ps, l) : e = Branch(q)

\* Pages in order within a level, each leading to the level below, and in the
\* heap where their identifiers say.
PageKind(l) == IF l = 0 THEN "leaf" ELSE "index"
Shaped(ps, heap) ==
  /\ ps \subseteq IndexPages
  /\ \A p \in ps : KeysApart(p.entries) /\ Lands(heap, p.hid, PageKind(p.level), p.entries)
  /\ \A p, q \in ps : p.level = q.level =>
       p = q \/ Before(p.entries, q.entries) \/ Before(q.entries, p.entries)
  /\ \A p \in ps : p.level > 0 => \A e \in p.entries : Leads(ps, p.level - 1, e)

\* Level l of an index of the records src, when todo is left of it and next is
\* for the level above.
Partly(ps, l, todo, next, src) ==
  /\ next = {Branch(p) : p \in OnLevel(ps, l)}
  /\ \A p \in ps :
       /\ p.level <= l
       /\ p.level = l => Before(p.entries, todo)
       /\ p.level < l => \/ Held(ps, p.level + 1, Branch(p))
                         \/ p.level + 1 = l /\ Branch(p) \in todo
  /\ \A e \in src : Held(ps, 0, e) \/ (l = 0 /\ e \in todo)
  /\ l > 0 => \A e \in todo : Leads(ps, l - 1, e)

\* A complete index: one page at the top, every other page under an entry of
\* the level above, and every record in a leaf.
Tops(ps, src, top) ==
  /\ top \in ps
  /\ \A p \in ps : p = top \/ (p.level < top.level /\ Held(ps, p.level + 1, Branch(p)))
  /\ \A e \in src : Held(ps, 0, e)

Complete(heap, l, root, src) ==
  \E ps : \E top \in ps :
    Shaped(ps, heap) /\ Tops(ps, src, top) /\ top.level = l /\ top.hid = root

\* The low key of a page is the key of one of its entries and not above any.
LEMMA LowKeyFacts ==
  ASSUME NEW S, S \subseteq Records, S # {}
  PROVE  /\ LowKey(S) \in Nat
         /\ \E e \in S : e[1] = LowKey(S)
         /\ \A e \in S : LowKey(S) <= e[1] /\ e[1] \in Nat
<1> DEFINE K == {e[1] : e \in S}
<1>1. K \subseteq Nat /\ K # {} /\ \A e \in S : e[1] \in K /\ e[1] \in Nat
  BY DEF Records
<1>2. \A x \in K : \E e \in S : e[1] = x
  OBVIOUS
<1>3. LowKey(S) = Min(K)
  BY DEF LowKey
<1> HIDE DEF K
<1>4. PICK x \in K : \A y \in K : x <= y
  BY <1>1, Least
<1>5. Min(K) \in K /\ \A y \in K : Min(K) <= y
  BY <1>4 DEF Min
<1> QED
  BY <1>1, <1>2, <1>3, <1>5

\* What a page consists of.
LEMMA PageParts ==
  ASSUME NEW ps, NEW heap, Shaped(ps, heap), NEW p \in ps
  PROVE  /\ p.level \in Nat /\ p.hid \in Hids /\ p.entries \subseteq Records /\ p.entries # {}
         /\ LowKey(p.entries) \in Nat /\ \A e \in p.entries : LowKey(p.entries) <= e[1] /\ e[1] \in Nat
         /\ \E e \in p.entries : e[1] = LowKey(p.entries)
         /\ Branch(p) \in Records /\ Branch(p)[1] = LowKey(p.entries) /\ Branch(p)[2] = p.hid
<1>1. p \in IndexPages
  BY DEF Shaped
<1>2. p.level \in Nat /\ p.hid \in Hids /\ p.entries \subseteq Records /\ p.entries # {}
  BY <1>1 DEF IndexPages
<1>3. /\ LowKey(p.entries) \in Nat /\ \A e \in p.entries : LowKey(p.entries) <= e[1] /\ e[1] \in Nat
      /\ \E e \in p.entries : e[1] = LowKey(p.entries)
  BY <1>2, LowKeyFacts
<1>4. /\ Branch(p)[1] = LowKey(p.entries) /\ Branch(p)[2] = p.hid /\ Branch(p) \in Records
  BY <1>2, <1>3 DEF Branch, Records
<1> QED
  BY <1>2, <1>3, <1>4

\* One more page takes nothing away from what the others hold and lead to.
LEMMA MorePages ==
  ASSUME NEW ps, NEW page
  PROVE  /\ \A l, e : Held(ps, l, e) => Held(ps \cup {page}, l, e)
         /\ \A l, e : Leads(ps, l, e) => Leads(ps \cup {page}, l, e)
  BY DEF Held, Leads, OnLevel

\* The pages stay where they are when the heap only grows.
LEMMA ShapedKept ==
  ASSUME NEW ps, NEW h, NEW g, HeapGrows(h, g), Shaped(ps, h)
  PROVE  Shaped(ps, g)
<1>1. ASSUME NEW hid, NEW kind, NEW data, Lands(h, hid, kind, data)
      PROVE  Lands(g, hid, kind, data)
  BY <1>1 DEF Lands, HeapGrows, Longer
<1> QED
  BY <1>1 DEF Shaped

\* A page with the smallest entries left goes after the pages of its level.
LEMMA AddPage ==
  ASSUME NEW ps, NEW heap, NEW l \in Nat, NEW todo, NEW next, NEW src, NEW chunk, NEW page,
         Shaped(ps, heap), Partly(ps, l, todo, next, src),
         chunk \subseteq todo, Before(chunk, todo \ chunk),
         page \in IndexPages, page.level = l, page.entries = chunk, KeysApart(chunk),
         Lands(heap, page.hid, PageKind(l), chunk)
  PROVE  /\ Shaped(ps \cup {page}, heap)
         /\ Partly(ps \cup {page}, l, todo \ chunk, next \cup {Branch(page)}, src)
<1> DEFINE qs == ps \cup {page}
           rest == todo \ chunk
<1>1. next = {Branch(p) : p \in OnLevel(ps, l)}
  BY DEF Partly
<1>2. /\ \A m, e : Held(ps, m, e) => Held(qs, m, e)
      /\ \A m, e : Leads(ps, m, e) => Leads(qs, m, e)
  BY MorePages
<1>3. \A p \in ps : p.level = l => Before(p.entries, todo)
  BY DEF Partly
<1>4. \A e \in chunk : Held(qs, l, e)
  BY DEF Held, OnLevel
<1>5. Shaped(qs, heap)
  <2>1. /\ qs \subseteq IndexPages
        /\ \A p \in qs : KeysApart(p.entries) /\ Lands(heap, p.hid, PageKind(p.level), p.entries)
    BY DEF Shaped
  <2>3. ASSUME NEW p \in qs, NEW q \in qs, p.level = q.level
        PROVE  p = q \/ Before(p.entries, q.entries) \/ Before(q.entries, p.entries)
    <3>1. CASE p \in ps /\ q \in ps
      BY <2>3, <3>1 DEF Shaped
    <3>2. CASE p \in ps /\ q = page
      BY <1>3, <2>3, <3>2 DEF Before
    <3>3. CASE p = page /\ q \in ps
      BY <1>3, <2>3, <3>3 DEF Before
    <3> QED
      BY <3>1, <3>2, <3>3
  <2>4. ASSUME NEW p \in qs, p.level > 0, NEW e \in p.entries
        PROVE  Leads(qs, p.level - 1, e)
    <3>1. CASE p \in ps
      <4>1. Leads(ps, p.level - 1, e)
        BY <2>4, <3>1 DEF Shaped
      <4> QED
        BY <1>2, <4>1
    <3>2. CASE p = page
      <4>1. e \in todo /\ l > 0
        BY <2>4, <3>2
      <4>2. Leads(ps, l - 1, e)
        BY <4>1 DEF Partly
      <4> QED
        BY <1>2, <3>2, <4>2
    <3> QED
      BY <3>1, <3>2
  <2> HIDE DEF qs
  <2> QED
    BY <2>1, <2>3, <2>4 DEF Shaped
<1>7. next \cup {Branch(page)} = {Branch(p) : p \in OnLevel(qs, l)}
  <2>1. OnLevel(qs, l) = OnLevel(ps, l) \cup {page}
    BY DEF OnLevel
  <2> QED
    BY <1>1, <2>1
<1>8. ASSUME NEW p \in qs
      PROVE  /\ p.level <= l
             /\ p.level = l => Before(p.entries, rest)
             /\ p.level < l => \/ Held(qs, p.level + 1, Branch(p))
                               \/ p.level + 1 = l /\ Branch(p) \in rest
  <2>1. CASE p \in ps
    <3>1. p.level <= l
      BY <2>1 DEF Partly
    <3>2. ASSUME p.level = l PROVE Before(p.entries, rest)
      BY <1>3, <2>1, <3>2 DEF Before
    <3>3. ASSUME p.level < l
          PROVE  Held(qs, p.level + 1, Branch(p)) \/ (p.level + 1 = l /\ Branch(p) \in rest)
      <4>1. \/ Held(ps, p.level + 1, Branch(p))
            \/ p.level + 1 = l /\ Branch(p) \in todo
        BY <2>1, <3>3 DEF Partly
      <4>2. CASE Held(ps, p.level + 1, Branch(p))
        BY <1>2, <4>2
      <4>3. CASE p.level + 1 = l /\ Branch(p) \in chunk
        BY <1>4, <4>3
      <4> QED
        BY <4>1, <4>2, <4>3
    <3> QED
      BY <3>1, <3>2, <3>3
  <2>2. CASE p = page
    BY <2>2
  <2> QED
    BY <2>1, <2>2
<1>9. ASSUME NEW e \in src PROVE Held(qs, 0, e) \/ (l = 0 /\ e \in rest)
  <2>1. Held(ps, 0, e) \/ (l = 0 /\ e \in todo)
    BY DEF Partly
  <2>2. CASE Held(ps, 0, e)
    BY <1>2, <2>2
  <2>3. CASE l = 0 /\ e \in chunk
    BY <1>4, <2>3
  <2> QED
    BY <2>1, <2>2, <2>3
<1>10. ASSUME l > 0, NEW e \in rest PROVE Leads(qs, l - 1, e)
  <2>1. Leads(ps, l - 1, e)
    BY <1>10 DEF Partly
  <2> QED
    BY <1>2, <2>1
<1> HIDE DEF qs, rest
<1>11. Partly(qs, l, rest, next \cup {Branch(page)}, src)
  BY <1>7, <1>8, <1>9, <1>10 DEF Partly
<1> QED
  BY <1>5, <1>11 DEF qs, rest

\* When a level is complete the level above starts with an entry for each page.
LEMMA NextLevel ==
  ASSUME NEW ps, NEW heap, NEW l \in Nat, NEW next, NEW src, Shaped(ps, heap),
         Partly(ps, l, {}, next, src)
  PROVE  Partly(ps, l + 1, next, {}, src)
<1>1. /\ next = {Branch(p) : p \in OnLevel(ps, l)}
      /\ \A p \in ps : p.level <= l /\ p.level \in Nat
  BY PageParts DEF Partly
<1>2. \A p \in ps : p.level # l + 1 /\ p.level <= l + 1
  BY <1>1
<1>3. {} = {Branch(p) : p \in OnLevel(ps, l + 1)}
  BY <1>2 DEF OnLevel
<1>4. ASSUME NEW p \in ps
      PROVE  Held(ps, p.level + 1, Branch(p)) \/ (p.level + 1 = l + 1 /\ Branch(p) \in next)
  <2>1. CASE p.level < l
    BY <2>1 DEF Partly
  <2>2. CASE p.level = l
    BY <1>1, <2>2 DEF OnLevel
  <2> QED
    BY <1>1, <2>1, <2>2
<1>5. \A e \in src : Held(ps, 0, e)
  BY DEF Partly
<1>6. \A e \in next : Leads(ps, (l + 1) - 1, e)
  <2>1. (l + 1) - 1 = l
    OBVIOUS
  <2> QED
    BY <1>1, <2>1 DEF Leads
<1> QED
  BY <1>2, <1>3, <1>4, <1>5, <1>6 DEF Partly

\* A level of one page is the top of a complete index.
LEMMA TopPage ==
  ASSUME NEW ps, NEW heap, NEW l \in Nat, NEW src, NEW page \in ps, Shaped(ps, heap),
         Partly(ps, l, {}, {Branch(page)}, src), page.level = l
  PROVE  Complete(heap, l, page.hid, src)
<1>1. ASSUME NEW p \in ps, p.level = l PROVE p = page
  <2>1. Branch(p) = Branch(page)
    BY <1>1 DEF Partly, OnLevel
  <2>2. /\ Branch(p)[1] = LowKey(p.entries) /\ Branch(page)[1] = LowKey(page.entries)
        /\ \E e \in p.entries : e[1] = LowKey(p.entries) /\ e[1] \in Nat
        /\ \E e \in page.entries : e[1] = LowKey(page.entries) /\ e[1] \in Nat
    BY PageParts
  <2>3. LowKey(p.entries) = LowKey(page.entries)
    BY <2>1, <2>2
  <2>4. PICK e \in p.entries : e[1] = LowKey(p.entries) /\ e[1] \in Nat
    BY <2>2
  <2>5. PICK f \in page.entries : f[1] = LowKey(page.entries) /\ f[1] \in Nat
    BY <2>2
  <2>6. ~(e[1] < f[1]) /\ ~(f[1] < e[1])
    BY <2>3, <2>4, <2>5
  <2> QED
    BY <1>1, <2>6 DEF Shaped, Before
<1>2. ASSUME NEW p \in ps PROVE p = page \/ (p.level < l /\ Held(ps, p.level + 1, Branch(p)))
  <2>1. p.level \in Nat /\ p.level <= l
    BY PageParts DEF Partly
  <2>2. CASE p.level = l
    BY <1>1, <2>2
  <2>3. CASE p.level < l
    BY <2>3 DEF Partly
  <2> QED
    BY <2>1, <2>2, <2>3
<1>3. \A e \in src : Held(ps, 0, e)
  BY DEF Partly
<1>4. Tops(ps, src, page)
  BY <1>2, <1>3 DEF Tops
<1> QED
  BY <1>4 DEF Complete

----------------------------------------------------------------------------
(* The search of a reader.                                                 *)

\* On its level p is the last page that does not start above k.
Covers(ps, k, p) ==
  /\ LowKey(p.entries) <= k
  /\ \A q \in OnLevel(ps, p.level) :
       LowKey(q.entries) <= k => LowKey(q.entries) <= LowKey(p.entries)

\* Of two pages of a level, one ends below the start of the other.
LEMMA PagesInOrder ==
  ASSUME NEW ps, NEW heap, Shaped(ps, heap), NEW p \in ps, NEW q \in ps, p.level = q.level,
         p # q, LowKey(p.entries) <= LowKey(q.entries)
  PROVE  \A e \in p.entries : e[1] < LowKey(q.entries)
<1>1. PICK a \in p.entries : a[1] = LowKey(p.entries) /\ a[1] \in Nat
  BY PageParts
<1>2. PICK b \in q.entries : b[1] = LowKey(q.entries) /\ b[1] \in Nat
  BY PageParts
<1>3. ~(b[1] < a[1])
  BY <1>1, <1>2
<1>4. Before(p.entries, q.entries)
  BY <1>3 DEF Shaped, Before
<1> QED
  BY <1>2, <1>4 DEF Before

\* The top covers the key of every record.
LEMMA TopCovers ==
  ASSUME NEW ps, NEW heap, Shaped(ps, heap), NEW src, NEW top, Tops(ps, src, top),
         NEW e \in src, NEW k \in Nat, e[1] = k
  PROVE  Covers(ps, k, top)
<1> DEFINE n == top.level
           S == {l \in 0 .. n : \E p \in OnLevel(ps, l) : LowKey(p.entries) <= k}
<1>1. n \in Nat /\ top \in ps
  BY PageParts DEF Tops
<1>2. \A p \in ps : p.level \in Nat /\ LowKey(p.entries) \in Nat
  BY PageParts
<1>3. S # {} /\ S \subseteq 0 .. n
  <2>1. PICK q \in OnLevel(ps, 0) : e \in q.entries
    BY DEF Tops, Held
  <2>2. q \in ps
    BY DEF OnLevel
  <2>3. LowKey(q.entries) <= k
    BY <2>1, <2>2, PageParts
  <2>4. 0 \in S
    BY <1>1, <2>1, <2>3
  <2> QED
    BY <2>4
<1> HIDE DEF n
<1>4. PICK g \in S : \A l \in S : l <= g
  BY <1>1, <1>3, Greatest
<1>5. PICK p \in OnLevel(ps, g) : LowKey(p.entries) <= k
  BY <1>4
<1>6. p \in ps /\ p.level = g /\ g \in Nat
  BY <1>2, <1>5 DEF OnLevel
<1>7. p = top
  <2> SUFFICES ASSUME p # top PROVE FALSE
    OBVIOUS
  <2>1. g < n /\ Held(ps, g + 1, Branch(p))
    BY <1>6 DEF Tops, n
  <2>2. PICK s \in OnLevel(ps, g + 1) : Branch(p) \in s.entries
    BY <2>1 DEF Held
  <2>3. s \in ps
    BY <2>2 DEF OnLevel
  <2>4. LowKey(s.entries) <= LowKey(p.entries)
    <3>1. LowKey(s.entries) <= Branch(p)[1]
      BY <2>2, <2>3, PageParts
    <3>2. Branch(p)[1] = LowKey(p.entries)
      BY <1>6, PageParts
    <3> QED
      BY <3>1, <3>2
  <2>5. LowKey(s.entries) \in Nat /\ LowKey(p.entries) \in Nat
    BY <1>2, <1>6, <2>3
  <2>6. LowKey(s.entries) <= k
    BY <1>5, <2>4, <2>5
  <2> DEFINE h == g + 1
  <2>7. h \in 0 .. n /\ ~(h <= g)
    BY <1>1, <1>6, <2>1
  <2>8. s \in OnLevel(ps, h)
    BY <2>2
  <2> HIDE DEF h
  <2>9. h \in S
    BY <2>6, <2>7, <2>8
  <2> HIDE DEF S
  <2> QED
    BY <1>4, <2>7, <2>9
<1>8. ASSUME NEW q \in OnLevel(ps, top.level) PROVE q = top
  <2>1. q \in ps /\ q.level = top.level
    BY DEF OnLevel
  <2>2. ~(q.level < top.level)
    BY <1>2, <2>1
  <2> QED
    BY <2>1, <2>2 DEF Tops
<1>9. LowKey(top.entries) <= k /\ LowKey(top.entries) \in Nat
  BY <1>1, <1>2, <1>5, <1>7
<1> QED
  BY <1>8, <1>9 DEF Covers

\* What LastUpTo() finds in a page that does not start above k.
LEMMA LastFacts ==
  ASSUME NEW S, S \subseteq Records, S # {}, NEW k \in Nat, LowKey(S) <= k
  PROVE  /\ LastUpTo(S, k) \in S /\ LastUpTo(S, k)[1] <= k
         /\ \A f \in S : f[1] <= k => f[1] <= LastUpTo(S, k)[1]
<1> DEFINE B == {e \in S : e[1] <= k}
           K == {x \in 0 .. k : \E e \in S : e[1] = x}
<1>1. /\ LowKey(S) \in Nat /\ \A e \in S : e[1] \in Nat
      /\ \E e \in S : e[1] = LowKey(S)
  BY LowKeyFacts
<1>2. K # {} /\ K \subseteq 0 .. k
  <2>1. LowKey(S) \in K
    BY <1>1
  <2> QED
    BY <2>1
<1>3. (\A e \in B : e[1] \in K) /\ \A x \in K : \E e \in B : e[1] = x
  BY <1>1
<1> HIDE DEF K
<1>4. PICK x \in K : \A y \in K : y <= x
  BY <1>2, Greatest
<1>5. PICK e \in B : e[1] = x
  BY <1>3, <1>4
<1>6. \A f \in B : f[1] <= e[1]
  BY <1>3, <1>4, <1>5
<1>7. LastUpTo(S, k) = CHOOSE c \in B : \A f \in B : f[1] <= c[1]
  BY <1>5 DEF LastUpTo
<1>8. LastUpTo(S, k) \in B /\ \A f \in B : f[1] <= LastUpTo(S, k)[1]
  BY <1>6, <1>7
<1> QED
  BY <1>8

\* The last entry not above k of a page that covers k leads to one that does.
LEMMA ChildCovers ==
  ASSUME NEW ps, NEW heap, Shaped(ps, heap), NEW src, NEW top, Tops(ps, src, top),
         NEW k \in Nat, NEW p \in ps, Covers(ps, k, p), p.level > 0
  PROVE  \E r \in ps : /\ r.level = p.level - 1 /\ Covers(ps, k, r)
                       /\ LastUpTo(p.entries, k)[2] = r.hid
<1>0. /\ p.level \in Nat /\ p.entries \subseteq Records /\ p.entries # {}
      /\ LowKey(p.entries) <= k /\ LowKey(p.entries) \in Nat
      /\ \A e \in p.entries : LowKey(p.entries) <= e[1] /\ e[1] \in Nat
  BY PageParts DEF Covers
<1> DEFINE c == LastUpTo(p.entries, k)
<1>2. c \in p.entries /\ c[1] <= k /\ \A f \in p.entries : f[1] <= k => f[1] <= c[1]
  BY <1>0, LastFacts
<1> HIDE DEF c
<1>3. PICK r \in OnLevel(ps, p.level - 1) : c = Branch(r)
  BY <1>0, <1>2 DEF Shaped, Leads
<1>4. r \in ps /\ r.level = p.level - 1
  BY <1>3 DEF OnLevel
<1>5. r.hid = c[2] /\ LowKey(r.entries) = c[1]
  BY <1>3, <1>4, PageParts
<1>6. c[1] \in Nat /\ LowKey(p.entries) <= c[1]
  BY <1>0, <1>2
<1>7. ASSUME NEW s \in OnLevel(ps, r.level), LowKey(s.entries) <= k
      PROVE  LowKey(s.entries) <= c[1]
  <2>1. s \in ps /\ s.level = p.level - 1
    BY <1>4 DEF OnLevel
  <2>2. s # top
    <3>1. p.level <= top.level /\ top.level \in Nat
      BY <1>0, PageParts DEF Tops
    <3> QED
      BY <1>0, <2>1, <3>1
  <2>3. Held(ps, s.level + 1, Branch(s)) /\ s.level + 1 = p.level
    BY <1>0, <2>1, <2>2 DEF Tops
  <2>4. PICK o \in OnLevel(ps, p.level) : Branch(s) \in o.entries
    BY <2>3 DEF Held
  <2>5. o \in ps /\ o.level = p.level
    BY <2>4 DEF OnLevel
  <2> DEFINE x == LowKey(s.entries)
             y == LowKey(o.entries)
  <2>6. Branch(s)[1] = x /\ x \in Nat
    BY <2>1, PageParts
  <2>7. y <= x /\ y \in Nat
    <3>1. LowKey(o.entries) <= Branch(s)[1] /\ LowKey(o.entries) \in Nat
      BY <2>4, <2>5, PageParts
    <3> QED
      BY <2>6, <3>1
  <2> HIDE DEF x, y
  <2>8. x <= k
    BY <1>7 DEF x
  <2>9. y <= k
    BY <2>6, <2>7, <2>8
  <2>10. y <= LowKey(p.entries)
    BY <2>4, <2>9 DEF Covers, y
  <2>11. CASE o = p
    BY <1>2, <2>4, <2>6, <2>8, <2>11 DEF x
  <2>12. CASE o # p
    <3>1. \A f \in o.entries : f[1] < LowKey(p.entries)
      BY <2>5, <2>10, <2>12, PagesInOrder DEF y
    <3>2. x < LowKey(p.entries)
      BY <2>4, <2>6, <3>1
    <3> QED
      BY <1>0, <1>6, <2>6, <3>2 DEF x
  <2> QED
    BY <2>11, <2>12
<1>8. Covers(ps, k, r)
  BY <1>2, <1>4, <1>5, <1>7 DEF Covers
<1> QED
  BY <1>4, <1>5, <1>8 DEF c

\* The leaf that covers the key of a record has the record.
LEMMA LeafHolds ==
  ASSUME NEW ps, NEW heap, Shaped(ps, heap), NEW src, NEW top, Tops(ps, src, top),
         NEW e \in src, NEW p \in ps, p.level = 0, NEW k \in Nat, e[1] = k, Covers(ps, k, p)
  PROVE  LastUpTo(p.entries, k) = e
<1>1. PICK q \in OnLevel(ps, 0) : e \in q.entries
  BY DEF Tops, Held
<1>2. q \in ps /\ q.level = 0
  BY <1>1 DEF OnLevel
<1>3. LowKey(q.entries) <= k /\ LowKey(p.entries) \in Nat /\ LowKey(p.entries) <= k
  BY <1>1, <1>2, PageParts DEF Covers
<1>4. LowKey(q.entries) <= LowKey(p.entries)
  BY <1>1, <1>3 DEF Covers
<1>5. q = p
  <2> SUFFICES ASSUME q # p PROVE FALSE
    OBVIOUS
  <2>1. e[1] < LowKey(p.entries)
    BY <1>1, <1>2, <1>4, PagesInOrder
  <2> QED
    BY <1>3, <2>1
<1> DEFINE c == LastUpTo(p.entries, k)
<1>6. c \in p.entries /\ c[1] <= k /\ \A f \in p.entries : f[1] <= k => f[1] <= c[1]
  BY <1>3, LastFacts, PageParts
<1>7. \A f \in p.entries : f[1] \in Nat
  BY PageParts
<1> HIDE DEF c
<1>8. c[1] = e[1]
  BY <1>1, <1>5, <1>6, <1>7
<1>9. c = e
  BY <1>1, <1>5, <1>6, <1>8 DEF Shaped, KeysApart
<1> QED
  BY <1>9 DEF c

\* The search that starts at the user root ends at the record, at whatever depth.
LEMMA Search ==
  ASSUME IInv, pc = "done", NEW n \in Nat, NEW root, NEW src, Complete(Heap, n, root, src),
         NEW hid, Lands(Heap, userRoot, "info", hid),
         Lands(Heap, hid, "bth", [levels |-> n, root |-> root]),
         NEW e \in src, NEW k \in Nat, e[1] = k
  PROVE  LookUp(k) = e
<1> DEFINE F(g) == [l \in 0 .. n |->
                      IndexPage(IF l = n THEN root ELSE LastUpTo(g[l + 1], k)[2], l)]
           G == CHOOSE g : g = F(g)
<1>1. LookUp(k) = LastUpTo(G[0], k)
  <2>1. ReadHeap(userRoot, "info", NoHid) = hid
    BY ReadLands
  <2>2. ReadHeap(hid, "bth", [levels |-> 0, root |-> NoHid]) = [levels |-> n, root |-> root]
    BY ReadLands
  <2>3. LookUp(k) = LastUpTo(LeafFor(k, root, n), k)
    BY <2>1, <2>2 DEF LookUp
  <2>4. LeafFor(k, root, n) = G[0]
    BY DEF LeafFor
  <2> QED
    BY <2>3, <2>4
<1>2. PICK ps : \E top \in ps :
        Shaped(ps, Heap) /\ Tops(ps, src, top) /\ top.level = n /\ top.hid = root
  BY DEF Complete
<1>3. PICK top \in ps :
        Shaped(ps, Heap) /\ Tops(ps, src, top) /\ top.level = n /\ top.hid = root
  BY <1>2
<1>4. ASSUME NEW p \in ps PROVE IndexPage(p.hid, p.level) = p.entries
  <2>1. Lands(Heap, p.hid, PageKind(p.level), p.entries)
    BY <1>3 DEF Shaped
  <2>2. ReadHeap(p.hid, PageKind(p.level), {}) = p.entries
    BY <2>1, ReadLands
  <2> QED
    BY <2>2 DEF IndexPage, PageKind
<1> DEFINE Under(p, r) == /\ r.level = p.level - 1 /\ Covers(ps, k, r)
                          /\ LastUpTo(p.entries, k)[2] = r.hid
           Down(p) == IF p.level > 0 /\ Covers(ps, k, p) THEN CHOOSE r \in ps : Under(p, r) ELSE p
           f == [l \in 0 .. n |-> [p \in ps |-> Down(p)]]
<1>5. ASSUME NEW p \in ps, p.level > 0, Covers(ps, k, p)
      PROVE  Down(p) \in ps /\ Under(p, Down(p))
  <2>1. \E r \in ps : Under(p, r)
    BY <1>3, <1>5, ChildCovers
  <2>2. Down(p) = CHOOSE r \in ps : Under(p, r)
    BY <1>5
  <2> HIDE DEF Under, Down
  <2> QED
    BY <2>1, <2>2
<1>6. f \in [0 .. n -> [ps -> ps]]
  <2>1. \A p \in ps : Down(p) \in ps
    BY <1>5
  <2> HIDE DEF Down
  <2> QED
    BY <2>1
<1>7. PICK h \in [0 .. n -> ps] :
        h[n] = top /\ \A l \in 0 .. (n - 1) : h[l] = f[l][h[l + 1]]
  <2> HIDE DEF f
  <2>1. \E h : IsDescent(h, n, ps, top, f)
    BY <1>6, DescentExists
  <2> QED
    BY <2>1 DEF IsDescent
<1> DEFINE S == {l \in 0 .. n : h[l].level = l /\ Covers(ps, k, h[l])}
<1>8. n \in S
  <2>1. Covers(ps, k, top)
    BY <1>3, TopCovers
  <2> QED
    BY <1>3, <1>7, <2>1
<1>9. ASSUME NEW l \in 0 .. (n - 1), l + 1 \in S
      PROVE  LastUpTo(h[l + 1].entries, k)[2] = h[l].hid /\ l \in S
  <2> DEFINE m == l + 1
             p == h[m]
  <2>1. m \in 0 .. n /\ l \in 0 .. n /\ m > 0 /\ m - 1 = l
    OBVIOUS
  <2>2. p \in ps /\ p.level = m /\ Covers(ps, k, p)
    BY <1>7, <1>9, <2>1
  <2>3. h[l] = Down(p)
    <3>1. h[l] = f[l][p]
      BY <1>7
    <3> HIDE DEF Down, p
    <3>2. f[l][p] = Down(p)
      BY <2>1, <2>2
    <3> QED
      BY <3>1, <3>2
  <2> HIDE DEF p, Down
  <2>4. Under(p, Down(p))
    BY <1>5, <2>1, <2>2
  <2> QED
    BY <2>1, <2>2, <2>3, <2>4 DEF p
<1>10. 0 .. n \subseteq S
  <2> HIDE DEF S
  <2> QED
    BY <1>8, <1>9, DownTo
<1> DEFINE H == [l \in 0 .. n |-> h[l].entries]
<1>11. ASSUME NEW l \in 0 .. n PROVE H[l] = F(H)[l]
  <2>1. H[l] = IndexPage(h[l].hid, l)
    <3>1. h[l] \in ps /\ h[l].level = l
      BY <1>7, <1>10
    <3> QED
      BY <1>4, <3>1
  <2>2. F(H)[l] = IndexPage(IF l = n THEN root ELSE LastUpTo(H[l + 1], k)[2], l)
    OBVIOUS
  <2>3. CASE l = n
    BY <1>3, <1>7, <2>1, <2>2, <2>3
  <2>4. CASE l # n
    <3>1. l \in 0 .. (n - 1) /\ l + 1 \in 0 .. n
      BY <2>4
    <3>2. H[l + 1] = h[l + 1].entries
      BY <3>1
    <3>3. LastUpTo(h[l + 1].entries, k)[2] = h[l].hid
      <4> HIDE DEF S
      <4> QED
        BY <1>9, <1>10, <3>1
    <3> HIDE DEF F, H
    <3> QED
      BY <2>1, <2>2, <2>4, <3>2, <3>3
  <2> QED
    BY <2>3, <2>4
<1>12. H = F(H)
  <2>1. F(H) = [l \in 0 .. n |-> F(H)[l]]
    OBVIOUS
  <2> QED
    BY <1>11, <2>1
<1>13. G = F(G)
  <2> HIDE DEF F, H
  <2> QED
    BY <1>12
<1> HIDE DEF G
<1> DEFINE Q == {l \in 0 .. n : G[l] = H[l]}
<1>14. n \in Q
  <2>1. G[n] = IndexPage(root, n)
    BY <1>13
  <2> HIDE DEF H
  <2>2. H[n] = IndexPage(root, n)
    BY <1>12
  <2> QED
    BY <2>1, <2>2
<1>15. ASSUME NEW l \in 0 .. (n - 1), l + 1 \in Q PROVE l \in Q
  <2>1. l \in 0 .. n /\ l # n
    OBVIOUS
  <2> HIDE DEF H
  <2>2. G[l] = IndexPage(LastUpTo(G[l + 1], k)[2], l)
    BY <1>13, <2>1
  <2>3. H[l] = IndexPage(LastUpTo(H[l + 1], k)[2], l)
    BY <1>12, <2>1
  <2>4. G[l + 1] = H[l + 1]
    BY <1>15
  <2> QED
    BY <2>1, <2>2, <2>3, <2>4
<1>16. 0 .. n \subseteq Q
  <2> HIDE DEF Q
  <2> QED
    BY <1>14, <1>15, DownTo
<1>17. G[0] = h[0].entries /\ h[0] \in ps /\ h[0].level = 0 /\ Covers(ps, k, h[0])
  <2>1. 0 \in 0 .. n
    OBVIOUS
  <2>2. G[0] = H[0]
    BY <1>16, <2>1
  <2> QED
    BY <1>7, <1>10, <2>1, <2>2
<1>18. LastUpTo(h[0].entries, k) = e
  BY <1>3, <1>17, LeafHolds
<1> QED
  BY <1>1, <1>17, <1>18

----------------------------------------------------------------------------
(* What a table that was finished owes to its limits.                      *)

\* The heap can take far more blocks than two pages of the row index have rows
\* with cells to fill, and two full pages do not fit one block.  The code has
\* 65535 blocks of 8176 bytes, pages of 1012 records of 8 bytes, and four
\* strings in a row.
HeapWide == 2 * (perPage * Columns) <= MaxIndex /\ BlockSize <= 2 * (RecordLen * perPage)

Ids == {e.id : e \in rowIndex}
Source == {<<e.id, e.ordinal>> : e \in rowIndex}

\* Without a failure every row of the index was counted, but for the open one
\* and the one that met the limit of the heap.
KeptInv ==
  /\ ~bad /\ Busy => Ids = kept \cup {row.id}
  /\ ~bad /\ pc = "idle" /\ ~inRow => Ids = kept
  /\ pc = "bth" /\ index <= MaxIndex => Ids = kept
  /\ pc \in {"header", "info", "close", "done"} => Ids = kept

\* A cell takes one block at most, so a heap that met its limit has many rows;
\* the first two pages of their index then overfill the block past the limit.
Owed == IF Busy THEN Columns - Len(row.cells) ELSE 0

Crowded ==
  \/ current = Empty /\ Cardinality(bth.todo) >= 2 * perPage
  \/ current.used = RecordLen * perPage /\ Cardinality(bth.todo) >= perPage

CountInv ==
  /\ Busy \/ pc = "idle" => index + Owed <= Columns * Cardinality(rowIndex)
  /\ ~bad /\ pc = "idle" /\ inRow => index > MaxIndex /\ current = Empty
  /\ pc = "bth" /\ index > MaxIndex => Crowded
  /\ pc \in {"header", "info", "close", "done"} => index <= MaxIndex

\* The row index: under construction, complete, named by its header, and named
\* by the header of the table.
Indexed(heap, n, root) == Source # {} => Complete(heap, n, root, Source)

TreeInv ==
  /\ pc = "bth" /\ index <= MaxIndex =>
       \E ps : Shaped(ps, Heap) /\ Partly(ps, bth.level, bth.todo, bth.next, Source)
  /\ pc = "header" => Indexed(Heap, bth.level, bth.root)
  /\ pc = "info" => \E n \in Nat, root \in Hids :
       Indexed(Heap, n, root) /\ Lands(Heap, bth.root, "bth", [levels |-> n, root |-> root])
  /\ pc \in {"close", "done"} => \E n \in Nat, root \in Hids, hid \in Hids :
       /\ Indexed(Heap, n, root) /\ Lands(Heap, hid, "bth", [levels |-> n, root |-> root])
       /\ Lands(Heap, userRoot, "info", hid)

IndexInv == KeptInv /\ CountInv /\ TreeInv

\* A page takes as many records as it can.
LEMMA PageFull ==
  ASSUME NEW T \in SUBSET Records, IsFiniteSet(T), KeysApart(T), NEW p \in Nat \ {0},
         NEW P, P = {e \in T : Rank(T, e) < p}, Cardinality(T) >= p
  PROVE  Cardinality(P) = p /\ Cardinality(T \ P) = Cardinality(T) - p
<1>0. T # {} /\ Cardinality(T) \in Nat
  BY FS_EmptySet, FS_CardinalityType
<1>1. IsFiniteSet(P) /\ Cardinality(P) \in Nat /\ Cardinality(P) <= p /\ P \subseteq T
  BY <1>0, PageSize
<1>2. Cardinality(P) >= p
  <2> SUFFICES ASSUME Cardinality(P) < p PROVE FALSE
    BY <1>1
  <2>1. T \ P # {}
    <3> SUFFICES ASSUME T = P PROVE FALSE
      BY <1>1
    <3> QED
      BY <1>0, <1>1
  <2> DEFINE K == {e[1] : e \in T \ P}
  <2>2. K \subseteq Nat /\ K # {} /\ \A e \in T \ P : e[1] \in K
    BY <2>1 DEF Records
  <2>3. \A x \in K : \E e \in T \ P : e[1] = x
    OBVIOUS
  <2> HIDE DEF K
  <2>4. PICK x \in K : \A y \in K : x <= y
    BY <2>2, Least
  <2>5. PICK e \in T \ P : e[1] = x
    BY <2>3, <2>4
  <2>6. Smaller(T, e) \subseteq P
    <3> SUFFICES ASSUME NEW f \in T, f[1] < e[1], f \notin P PROVE FALSE
      BY DEF Smaller
    <3>1. x <= f[1] /\ f[1] \in Nat /\ x \in Nat
      BY <2>2, <2>4
    <3> QED
      BY <2>5, <3>1
  <2>7. Rank(T, e) <= Cardinality(P) /\ Rank(T, e) \in Nat
    BY <1>1, <2>6, FS_Subset, FS_CardinalityType DEF Rank
  <2>8. Rank(T, e) < p
    BY <1>1, <2>7
  <2> QED
    BY <2>5, <2>8
<1>3. Cardinality(T \ P) = Cardinality(T) - Cardinality(P)
  <2>1. T \cap P = P
    BY <1>1
  <2>2. Cardinality(T \ P) = Cardinality(T) - Cardinality(T \cap P)
    BY FS_Difference
  <2> QED
    BY <2>1, <2>2
<1> QED
  BY <1>1, <1>2, <1>3

\* What a call of alloc() or one that throws does to the index.
LEMMA IndexMoves ==
  ASSUME HeapInv
  PROVE  /\ \A item : alloc(item) => index' \in {index, index + 1} /\ bad' = bad
         /\ \A len : allocThrows(len) =>
              /\ index' \in {index, index + 1}
              /\ ~bad' => ~bad /\ index' > MaxIndex /\ current' = Empty
<1>1. index \in Nat /\ MaxIndex \in Nat
  BY Sizes DEF HeapInv
<1>2. ASSUME NEW item, alloc(item) PROVE index' \in {index, index + 1} /\ bad' = bad
  BY <1>1, <1>2 DEF alloc
<1>3. ASSUME NEW len, allocThrows(len)
      PROVE  /\ index' \in {index, index + 1}
             /\ ~bad' => ~bad /\ index' > MaxIndex /\ current' = Empty
  BY <1>1, <1>3 DEF allocThrows
<1> QED
  BY <1>2, <1>3

\* A turn of buildBthInto that did not throw.
LEMMA PageTurn ==
  ASSUME IInv, BthPage, pc' # "lost"
  PROVE  LET page == Item(PageKind(bth.level), NextPage, PageLen)
             next == bth.next \cup {PageEntry}
             todo == bth.todo \ NextPage
         IN  /\ pc = "bth" /\ page \in HeapItems /\ page.len = PageLen /\ alloc(page)
             /\ page.kind = PageKind(bth.level) /\ page.data = NextPage
             /\ \/ todo # {} /\ pc' = "bth" /\ bth' = [bth EXCEPT !.todo = todo, !.next = next]
                \/ /\ todo = {} /\ Cardinality(next) = 1 /\ pc' = "header"
                   /\ bth' = [bth EXCEPT !.todo = {}, !.next = {}, !.root = NewHid(PageLen)]
                \/ /\ todo = {} /\ pc' = "bth"
                   /\ bth' = [bth EXCEPT !.level = bth.level + 1, !.todo = next, !.next = {}]
<1> DEFINE page == Item(PageKind(bth.level), NextPage, PageLen)
           next == bth.next \cup {PageEntry}
           todo == bth.todo \ NextPage
<1>1. pc = "bth"
  BY DEF BthPage
<1>2. /\ page \in HeapItems /\ page.len = PageLen /\ page.kind = PageKind(bth.level)
      /\ page.data = NextPage
  <2>1. PageKind(bth.level) \in Kinds
    BY DEF PageKind, Kinds
  <2> QED
    BY <1>1, <2>1, ItemFacts, ItemParts DEF PageLen
<1>3. ~Lost
  BY DEF Lost
<1>4. /\ alloc(page)
      /\ CASE todo # {} ->
                bth' = [bth EXCEPT !.todo = todo, !.next = next] /\ UNCHANGED pc
           [] todo = {} /\ Cardinality(next) = 1 ->
                /\ bth' = [bth EXCEPT !.todo = {}, !.next = {}, !.root = NewHid(PageLen)]
                /\ pc' = IF bth.level > MaxLevels THEN "lost" ELSE "header"
           [] todo = {} /\ Cardinality(next) > 1 ->
                /\ bth' = [bth EXCEPT !.level = bth.level + 1, !.todo = next, !.next = {}]
                /\ pc' = IF bth.level > MaxLevels THEN "lost" ELSE "bth"
  <2>1. page = Item(IF bth.level = 0 THEN "leaf" ELSE "index", NextPage, RecordLen * Cardinality(NextPage))
    BY DEF PageKind, PageLen
  <2> QED
    BY <1>2, <1>3, <2>1 DEF BthPage, PageEntry, PageLen
<1>5. Cardinality(next) = 1 \/ Cardinality(next) > 1
  <2>1. IsFiniteSet(next) /\ next # {}
    BY PageCases
  <2>2. Cardinality(next) \in Nat /\ Cardinality(next) # 0
    BY <2>1, FS_CardinalityType, FS_EmptySet
  <2> QED
    BY <2>2
<1> HIDE DEF page, next, todo
<1>6. CASE todo # {}
  <2>1. bth' = [bth EXCEPT !.todo = todo, !.next = next] /\ pc' = "bth"
    BY <1>1, <1>4, <1>6
  <2> QED
    BY <1>1, <1>2, <1>4, <1>6, <2>1 DEF page, next, todo
<1>7. CASE todo = {} /\ Cardinality(next) = 1
  <2>1. /\ bth' = [bth EXCEPT !.todo = {}, !.next = {}, !.root = NewHid(PageLen)]
        /\ pc' = "header"
    BY <1>4, <1>7
  <2> QED
    BY <1>1, <1>2, <1>4, <1>7, <2>1 DEF page, next, todo
<1>8. CASE todo = {} /\ Cardinality(next) > 1
  <2>1. /\ bth' = [bth EXCEPT !.level = bth.level + 1, !.todo = next, !.next = {}]
        /\ pc' = "bth"
    BY <1>4, <1>8
  <2> QED
    BY <1>1, <1>2, <1>4, <1>8, <2>1 DEF page, next, todo
<1> QED
  BY <1>5, <1>6, <1>7, <1>8

\* The index has a record for every row of it.
LEMMA SourceSize ==
  ASSUME RowInv
  PROVE  Cardinality(rowIndex) \in Nat /\ Cardinality(Source) >= Cardinality(rowIndex)
         /\ Cardinality(Source) \in Nat /\ (rowIndex = {} => Cardinality(rowIndex) = 0)
<1>1. IsFiniteSet(rowIndex) /\ \A e, f \in rowIndex : e.id = f.id => e = f
  BY DEF RowInv
<1>2. IsFiniteSet(Source)
  BY IndexRecords DEF Source
<1> DEFINE g == [e \in rowIndex |-> <<e.id, e.ordinal>>]
<1>3. g \in Injection(rowIndex, Source)
  <2>1. g \in [rowIndex -> Source]
    BY DEF Source
  <2>2. ASSUME NEW e \in rowIndex, NEW f \in rowIndex, g[e] = g[f] PROVE e = f
    BY <1>1, <2>2
  <2> QED
    BY <2>1, <2>2 DEF Injection, IsInjective
<1> HIDE DEF g
<1>4. Cardinality(rowIndex) <= Cardinality(Source)
  BY <1>2, <1>3, FS_Injection
<1> QED
  BY <1>1, <1>2, <1>4, FS_CardinalityType, FS_EmptySet

\* The limit of the heap, as it bears on the row index.
LEMMA CountStep ==
  ASSUME IInv, CountInv, HeapWide, Next
  PROVE  CountInv'
<1>0. /\ index \in Nat /\ MaxIndex \in Nat \ {0} /\ Columns \in Nat \ {0} /\ bad \in BOOLEAN
      /\ RowInv /\ BthInv /\ HeapInv /\ RecordLen \in Nat \ {0} /\ BlockSize \in Nat \ {0}
      /\ Cardinality(rowIndex) \in Nat
  BY Sizes, SourceSize, TableAssumption DEF IInv, HeapInv, TableAssumption
<1>p. perPage \in Nat \ {0} /\ Len(row.cells) \in Nat
  <2>1. row.cells \in Seq(Cells)
    BY <1>0 DEF RowInv, Rows
  <2> QED
    BY <2>1, PerPage
<1> DEFINE c == Cardinality(rowIndex)
           m == Columns * c
<1>m. m \in Nat
  BY <1>0
<1>1. ASSUME NEW id \in RowIds, beginRow(id) PROVE CountInv'
  <2> DEFINE e == [id |-> id, ordinal |-> rowCount]
  <2>1. /\ pc = "idle" /\ ~Busy /\ pc' = "cells" /\ index' = index /\ rowIndex' = rowIndex \cup {e}
        /\ id \notin {f.id : f \in rowIndex} /\ row' = [id |-> id, cells |-> <<>>]
    BY <1>1 DEF beginRow, Busy, heapVars
  <2>2. e \notin rowIndex
    BY <2>1
  <2>3. Cardinality(rowIndex') = c + 1
    BY <1>0, <2>1, <2>2, FS_AddElement DEF RowInv
  <2>4. Columns * (c + 1) = m + Columns
    BY <1>0
  <2>5. Owed' = Columns /\ Owed = 0
    <3>1. Len(row'.cells) = 0
      BY <2>1
    <3> QED
      BY <1>0, <2>1, <3>1 DEF Owed, Busy
  <2>6. index + 0 <= m
    BY <2>1, <2>5 DEF CountInv
  <2>7. index' + Owed' <= Columns * Cardinality(rowIndex')
    <3> HIDE DEF m, c
    <3> QED
      BY <1>0, <1>m, <2>1, <2>3, <2>4, <2>5, <2>6
  <2> QED
    BY <2>1, <2>7 DEF CountInv
<1>2. ASSUME NEW len \in Lengths, setBinary(len) PROVE CountInv'
  <2>1. /\ pc = "cells" /\ rowIndex' = rowIndex /\ Len(row.cells) < Columns
        /\ Owed = Columns - Len(row.cells)
    BY <1>0, <1>2 DEF setBinary, RowInv, Owed, Busy
  <2>2. index + Owed <= m
    BY <2>1 DEF CountInv, Busy
  <2>3. /\ index' \in {index, index + 1}
        /\ pc' = "idle" /\ ~bad' => index' > MaxIndex /\ current' = Empty
    <3> DEFINE value == Item("cell", <<row.id, Len(row.cells) + 1>>, len)
    <3>1. CASE UNCHANGED <<heapVars, subnodes, bad>> /\ AfterCell
      BY <3>1 DEF heapVars, AfterCell
    <3>2. CASE alloc(value) /\ AfterCell
      BY <1>0, <3>2, IndexMoves DEF AfterCell
    <3>3. CASE UNCHANGED <<heapVars, bad>> /\ AfterCell
      BY <3>3 DEF heapVars, AfterCell
    <3>4. CASE allocThrows(len)
      BY <1>0, <3>4, IndexMoves
    <3>5. CASE bad' = TRUE /\ UNCHANGED heapVars
      BY <3>5 DEF heapVars
    <3> QED
      BY <1>2, <3>1, <3>2, <3>3, <3>4, <3>5, CellCases
  <2>4. CASE pc' = "idle"
    <3>1. Owed' = 0
      BY <2>4 DEF Owed, Busy
    <3>2. index' + Owed' <= m
      <4>1. Owed \in Nat /\ Owed >= 1
        BY <1>0, <1>p, <2>1
      <4>2. index \in Nat
        BY <1>0
      <4>3. index' \in Nat /\ index' <= index + Owed
        BY <2>3, <4>1, <4>2
      <4> HIDE DEF m
      <4>4. index' <= m
        BY <1>m, <2>2, <4>1, <4>2, <4>3
      <4> QED
        BY <3>1, <4>3, <4>4
    <3> QED
      BY <2>1, <2>3, <2>4, <3>2 DEF CountInv, Busy
  <2>5. CASE AfterCell /\ \E ref \in Cells : SetCell(ref)
    <3>1. pc' \in {"cells", "end"}
      BY <2>5 DEF AfterCell
    <3>2. Len(row'.cells) = Len(row.cells) + 1
      BY <1>0, <2>5, SetCellFacts DEF RowInv
    <3>3. Owed' = Columns - (Len(row.cells) + 1)
      BY <3>1, <3>2 DEF Owed, Busy
    <3>4. index' + Owed' <= m
      <4> HIDE DEF m
      <4> QED
        BY <1>0, <1>p, <1>m, <2>1, <2>2, <2>3, <3>3
    <3> QED
      BY <2>1, <3>1, <3>4 DEF CountInv, Busy
  <2> QED
    BY <1>2, <2>4, <2>5, CellSet
<1>3. ASSUME endRow PROVE CountInv'
  <2>1. /\ pc = "end" /\ pc' = "idle" /\ inRow' = FALSE /\ index' = index /\ rowIndex' = rowIndex
        /\ Len(row.cells) = Columns
    BY <1>0, <1>3 DEF endRow, RowInv, heapVars
  <2>2. Owed' = 0 /\ Owed = 0
    BY <1>0, <2>1 DEF Owed, Busy
  <2> QED
    BY <2>1, <2>2 DEF CountInv, Busy
<1>4. ASSUME finish PROVE CountInv'
  <2>1. pc = "idle" /\ index' = index /\ current' = current /\ rowIndex' = rowIndex
        /\ pc' \in {"bth", "header", "lost"}
    BY <1>4 DEF finish, heapVars, Lost
  <2>2. index <= m
    <3>1. Owed = 0 /\ index + Owed <= m
      BY <2>1 DEF Owed, Busy, CountInv
    <3> QED
      BY <1>0, <3>1
  <2>3. ASSUME pc' = "header" PROVE index' <= MaxIndex
    <3>1. c = 0
      BY <1>0, <1>4, <2>3, SourceSize DEF finish, Lost
    <3>2. m = 0
      BY <1>0, <3>1
    <3> HIDE DEF m
    <3> QED
      BY <1>0, <2>1, <2>2, <3>2
  <2>4. ASSUME pc' = "bth", index' > MaxIndex PROVE Crowded'
    <3>1. ~bad /\ bth'.todo = Source
      BY <1>4, <2>4 DEF finish, Lost, Source
    <3>2. inRow
      <4>1. ~(index <= MaxIndex)
        BY <1>0, <2>1, <2>4
      <4> QED
        BY <2>1, <4>1 DEF IInv, CellsInv
    <3>3. current = Empty
      BY <2>1, <3>1, <3>2 DEF CountInv
    <3>4. c >= 2 * perPage
      <4> SUFFICES ASSUME c < 2 * perPage PROVE FALSE
        BY <1>0, <1>p
      <4>1. Columns * c <= Columns * (2 * perPage)
        BY <1>0, <1>p
      <4>2. Columns * (2 * perPage) = 2 * (perPage * Columns) /\ perPage * Columns \in Nat
        BY <1>0, <1>p
      <4>3. 2 * (perPage * Columns) <= MaxIndex
        BY DEF HeapWide
      <4>4. m <= MaxIndex
        BY <1>0, <1>m, <4>1, <4>2, <4>3
      <4> HIDE DEF m
      <4> QED
        BY <1>0, <1>m, <2>1, <2>2, <2>4, <4>4
    <3>5. Cardinality(Source) >= c /\ Cardinality(Source) \in Nat
      BY <1>0, SourceSize
    <3>6. Cardinality(Source) >= 2 * perPage
      <4> HIDE DEF c
      <4> QED
        BY <1>p, <1>0, <3>4, <3>5 DEF c
    <3> QED
      BY <2>1, <3>1, <3>3, <3>6 DEF Crowded
  <2> QED
    BY <2>1, <2>3, <2>4 DEF CountInv, Busy
<1>5. ASSUME BthPage PROVE CountInv'
  <2>0. pc = "bth" /\ pc' \in {"bth", "header", "lost"}
    BY <1>5, PageCases DEF BthPage
  <2>1. CASE pc' = "lost"
    BY <2>1 DEF CountInv, Busy
  <2>2. CASE pc' # "lost"
    <3> DEFINE page == Item(PageKind(bth.level), NextPage, PageLen)
    <3>1. page \in HeapItems /\ page.len = PageLen /\ alloc(page)
      BY <1>5, <2>2, PageTurn
    <3> HIDE DEF page
    <3>2. CASE index <= MaxIndex
      <4>1. Steady(leaves, index)
        BY <2>0 DEF IInv, LeavesInv
      <4>2. index' <= MaxIndex
        BY <1>0, <3>1, <3>2, <4>1, AllocLands
      <4>3. ~(index' > MaxIndex)
        <5>1. index' \in Nat
          BY <1>0, <3>1, IndexMoves
        <5> QED
          BY <1>0, <4>2, <5>1
      <4> QED
        BY <2>0, <4>2, <4>3 DEF CountInv, Busy
    <3>3. CASE index > MaxIndex
      <4> DEFINE T == bth.todo
                 P == NextPage
                 R == RecordLen * perPage
      <4>1. Crowded
        BY <2>0, <3>3 DEF CountInv
      <4>2. InCurrent(PageLen) /\ current' = Filled(current, page) /\ index' = index
        <5>1. index # 0 /\ ~(index < MaxIndex) /\ index > 0
          BY <1>0, <3>3
        <5> QED
          BY <3>1, <5>1 DEF alloc, InBlock0
      <4>3. T \in SUBSET Records /\ IsFiniteSet(T) /\ KeysApart(T) /\ Cardinality(T) \in Nat
        BY <1>0, <2>0, FS_CardinalityType DEF BthInv
      <4>4. P = {e \in T : Rank(T, e) < perPage}
        BY DEF NextPage, Rank, Smaller
      <4>r. R \in Nat /\ BlockSize <= 2 * R
        BY <1>0, <1>p DEF HeapWide
      <4> HIDE DEF T, P
      <4>5. Cardinality(T) >= perPage
        BY <1>p, <4>1, <4>3 DEF Crowded, T
      <4>6. Cardinality(P) = perPage /\ Cardinality(T \ P) = Cardinality(T) - perPage
        BY <1>p, <4>3, <4>4, <4>5, PageFull
      <4>7. PageLen = R
        BY <4>6 DEF PageLen, P
      <4> HIDE DEF R
      <4>8. CASE current = Empty /\ Cardinality(T) >= 2 * perPage
        <5>1. current'.used = R
          BY <3>1, <4>2, <4>7, <4>8, <4>r DEF Filled, Empty
        <5>2. Cardinality(T \ P) >= perPage /\ T \ P # {}
          <6>1. Cardinality(T \ P) >= perPage
            BY <1>p, <4>3, <4>6, <4>8
          <6> QED
            BY <1>p, <6>1, FS_EmptySet
        <5>3. pc' = "bth" /\ bth'.todo = T \ P
          <6>1. pc' = "bth" /\ bth' = [bth EXCEPT !.todo = bth.todo \ NextPage, !.next = bth.next \cup {PageEntry}]
            BY <1>5, <2>2, <5>2, PageTurn DEF T, P
          <6> QED
            BY <1>0, <6>1 DEF BthInv, T, P
        <5>4. Crowded'
          BY <5>1, <5>2, <5>3 DEF Crowded, R
        <5> QED
          BY <5>3, <5>4 DEF CountInv, Busy
      <4>9. CASE current.used = R
        <5>1. fits(current, index, R)
          BY <4>2, <4>7 DEF InCurrent
        <5>2. blockHeaderSize(index) \in Nat /\ Len(current.items) \in Nat
          BY <1>0, HeaderBound DEF HeapInv, Blocks
        <5>3. blockHeaderSize(index) + R + R + (4 + 2 * (Len(current.items) + 1 + 1)) + 1 <= BlockSize
          BY <4>9, <5>1 DEF fits, pageMapSize
        <5> QED
          BY <1>0, <4>r, <5>2, <5>3
      <4> QED
        BY <4>1, <4>8, <4>9 DEF Crowded, T, R
    <3> QED
      BY <1>0, <3>2, <3>3
  <2> QED
    BY <2>1, <2>2
<1>6. ASSUME BthHeader \/ Info \/ CloseHeap PROVE CountInv'
  <2>1. pc \in {"header", "info", "close"} /\ pc' \in {"info", "close", "done", "lost"}
        /\ index <= MaxIndex
    BY <1>6 DEF BthHeader, Info, CloseHeap, Lost, CountInv
  <2>2. ASSUME pc' # "lost" PROVE index' <= MaxIndex
    <3>1. Steady(leaves, index)
      BY <2>1 DEF IInv, LeavesInv
    <3>2. ASSUME NEW item \in HeapItems, alloc(item) PROVE index' <= MaxIndex
      BY <1>0, <2>1, <3>1, <3>2, AllocLands
    <3>3. CASE BthHeader
      BY <2>2, <3>2, <3>3, ItemFacts DEF BthHeader, Lost
    <3>4. CASE Info
      BY <2>2, <3>2, <3>4, ItemFacts DEF Info, Lost
    <3>5. CASE CloseHeap
      BY <2>1, <3>5 DEF CloseHeap
    <3> QED
      BY <1>6, <3>3, <3>4, <3>5
  <2> QED
    BY <2>1, <2>2 DEF CountInv, Busy
<1> QED
  BY <1>1, <1>2, <1>3, <1>4, <1>5, <1>6 DEF Next

\* Every row of the index of a finished table was counted.
LEMMA KeptStep ==
  ASSUME IInv, KeptInv, CountInv, CountInv', Next
  PROVE  KeptInv'
<1>0. index \in Nat /\ MaxIndex \in Nat /\ HeapInv /\ RowInv
  BY Sizes DEF IInv, HeapInv
<1>1. ASSUME NEW id \in RowIds, beginRow(id) PROVE KeptInv'
  <2>1. /\ pc = "idle" /\ ~inRow /\ pc' = "cells" /\ bad' = bad /\ kept' = kept
        /\ rowIndex' = rowIndex \cup {[id |-> id, ordinal |-> rowCount]}
        /\ row' = [id |-> id, cells |-> <<>>]
    BY <1>1 DEF beginRow
  <2>2. Ids' = Ids \cup {id} /\ row'.id = id
    <3> DEFINE e == [id |-> id, ordinal |-> rowCount]
    <3>1. rowIndex' = rowIndex \cup {e} /\ e.id = id /\ row'.id = id
      BY <2>1
    <3> HIDE DEF e
    <3> QED
      BY <3>1 DEF Ids
  <2>3. ~bad => Ids = kept
    BY <2>1 DEF KeptInv
  <2> QED
    BY <2>1, <2>2, <2>3 DEF KeptInv, Busy
<1>2. ASSUME NEW len \in Lengths, setBinary(len) PROVE KeptInv'
  <2>1. /\ pc = "cells" /\ inRow /\ inRow' = inRow /\ Ids' = Ids /\ kept' = kept
    BY <1>0, <1>2 DEF setBinary, RowInv, Busy, Ids
  <2>2. ~bad' => ~bad
    <3> DEFINE value == Item("cell", <<row.id, Len(row.cells) + 1>>, len)
    <3>1. alloc(value) => bad' = bad
      BY <1>0, IndexMoves
    <3>2. allocThrows(len) => (~bad' => ~bad)
      BY <1>0, IndexMoves
    <3> QED
      BY <1>2, <3>1, <3>2, CellCases
  <2>3. ~bad => Ids = kept \cup {row.id}
    BY <2>1 DEF KeptInv, Busy
  <2>4. CASE pc' = "idle"
    BY <2>1, <2>4 DEF KeptInv, Busy
  <2>5. CASE AfterCell /\ \E ref \in Cells : SetCell(ref)
    <3>1. pc' \in {"cells", "end"} /\ row'.id = row.id
      BY <1>0, <2>5, SetCellFacts DEF AfterCell, RowInv
    <3> QED
      BY <2>1, <2>2, <2>3, <3>1 DEF KeptInv, Busy
  <2> QED
    BY <1>2, <2>4, <2>5, CellSet
<1>3. ASSUME endRow PROVE KeptInv'
  <2>1. /\ pc = "end" /\ pc' = "idle" /\ Ids' = Ids
        /\ ~bad' => ~bad /\ kept' = kept \cup {row.id}
    BY <1>3 DEF endRow, Ids
  <2> QED
    BY <2>1 DEF KeptInv, Busy
<1>4. ASSUME finish PROVE KeptInv'
  <2>1. /\ pc = "idle" /\ index' = index /\ Ids' = Ids /\ kept' = kept
        /\ pc' \in {"bth", "header", "lost"}
    BY <1>4 DEF finish, heapVars, Lost, Ids
  <2>2. ASSUME pc' # "lost" PROVE ~bad
    BY <1>4, <2>2 DEF finish, Lost
  <2>3. ASSUME pc' # "lost", index <= MaxIndex PROVE Ids = kept
    <3>1. ~inRow
      <4> SUFFICES ASSUME inRow PROVE FALSE
        BY <1>0 DEF RowInv
      <4>1. index > MaxIndex
        BY <2>1, <2>2, <2>3 DEF CountInv
      <4> QED
        BY <1>0, <2>3, <4>1
    <3> QED
      BY <2>1, <2>2, <2>3, <3>1 DEF KeptInv
  <2>4. pc' = "header" => index <= MaxIndex
    BY <2>1 DEF CountInv
  <2> QED
    BY <2>1, <2>3, <2>4 DEF KeptInv, Busy
<1>5. ASSUME BthPage PROVE KeptInv'
  <2>1. pc = "bth" /\ pc' \in {"bth", "header", "lost"} /\ Ids' = Ids /\ kept' = kept
    BY <1>5, PageCases DEF BthPage, tableVars, Ids
  <2>2. ASSUME pc' # "lost", index' <= MaxIndex PROVE Ids = kept
    <3>1. index' \in {index, index + 1}
      BY <1>0, <1>5, <2>2, PageTurn, IndexMoves
    <3>2. index <= MaxIndex
      BY <1>0, <2>2, <3>1
    <3> QED
      BY <2>1, <3>2 DEF KeptInv
  <2>3. pc' = "header" => index' <= MaxIndex
    BY DEF CountInv
  <2> QED
    BY <2>1, <2>2, <2>3 DEF KeptInv, Busy
<1>6. ASSUME BthHeader \/ Info \/ CloseHeap PROVE KeptInv'
  <2>1. /\ pc \in {"header", "info", "close"} /\ pc' \in {"info", "close", "done", "lost"}
        /\ rowIndex' = rowIndex /\ kept' = kept
    BY <1>6 DEF BthHeader, Info, CloseHeap, Lost, tableVars
  <2>2. Ids' = Ids
    BY <2>1 DEF Ids
  <2> QED
    BY <2>1, <2>2 DEF KeptInv, Busy
<1> QED
  BY <1>1, <1>2, <1>3, <1>4, <1>5, <1>6 DEF Next

\* An index that is complete stays so when the heap grows.
LEMMA CompleteKept ==
  ASSUME NEW h, NEW g, HeapGrows(h, g), NEW n, NEW root, NEW src, Complete(h, n, root, src)
  PROVE  Complete(g, n, root, src)
<1>1. PICK ps : \E top \in ps :
        Shaped(ps, h) /\ Tops(ps, src, top) /\ top.level = n /\ top.hid = root
  BY DEF Complete
<1>2. Shaped(ps, h)
  BY <1>1
<1>3. Shaped(ps, g)
  BY <1>2, ShapedKept
<1> QED
  BY <1>1, <1>3 DEF Complete

\* A turn of buildBthInto puts a page into the index.
LEMMA PageJoins ==
  ASSUME IInv, TreeInv, BthPage, pc' # "lost", index <= MaxIndex, HeapGrows(Heap, Heap')
  PROVE  \E qs : \E page \in qs :
           /\ page.level = bth.level /\ page.hid = NewHid(PageLen) /\ Branch(page) = PageEntry
           /\ Shaped(qs, Heap')
           /\ Partly(qs, bth.level, bth.todo \ NextPage, bth.next \cup {PageEntry}, Source)
<1>0. pc = "bth" /\ BthInv /\ HeapInv /\ Steady(leaves, index)
  BY DEF BthPage, IInv, LeavesInv
<1>1. PICK ps : Shaped(ps, Heap) /\ Partly(ps, bth.level, bth.todo, bth.next, Source)
  BY <1>0 DEF TreeInv
<1>2. Shaped(ps, Heap')
  BY <1>1, ShapedKept
<1> DEFINE item == Item(PageKind(bth.level), NextPage, PageLen)
           page == [level |-> bth.level, hid |-> NewHid(PageLen), entries |-> NextPage]
<1>3. /\ item \in HeapItems /\ item.len = PageLen /\ alloc(item)
      /\ item.kind = PageKind(bth.level) /\ item.data = NextPage
  BY PageTurn
<1> HIDE DEF item
<1>4. Lands(Heap', NewHid(PageLen), PageKind(bth.level), NextPage)
  <2>1. Lands(Heap', NewHid(item.len), item.kind, item.data)
    BY <1>0, <1>3, AllocLands
  <2> QED
    BY <1>3, <2>1
<1>5. /\ NextPage \subseteq bth.todo /\ NextPage # {} /\ NextPage \in SUBSET Records
      /\ Before(NextPage, bth.todo \ NextPage)
  BY <1>0, PageFacts DEF Before
<1>6. bth.level \in Nat /\ NewHid(PageLen) \in Hids /\ KeysApart(NextPage)
  BY <1>0, <1>5, NewHidType DEF BthInv, KeysApart
<1>7. page \in IndexPages
  BY <1>5, <1>6 DEF IndexPages
<1>8. /\ page.level = bth.level /\ page.hid = NewHid(PageLen) /\ page.entries = NextPage
  OBVIOUS
<1>9. Branch(page) = PageEntry
  BY DEF Branch, PageEntry, LowKey
<1> HIDE DEF page
<1>10. /\ Shaped(ps \cup {page}, Heap')
       /\ Partly(ps \cup {page}, bth.level, bth.todo \ NextPage, bth.next \cup {Branch(page)}, Source)
  BY <1>1, <1>2, <1>4, <1>5, <1>6, <1>7, <1>8, AddPage
<1> DEFINE qs == ps \cup {page}
<1>11. /\ page \in qs /\ Shaped(qs, Heap')
       /\ Partly(qs, bth.level, bth.todo \ NextPage, bth.next \cup {PageEntry}, Source)
  BY <1>9, <1>10
<1> HIDE DEF qs
<1> QED
  BY <1>8, <1>9, <1>11

\* The row index is complete when its header is written, and found from there.
LEMMA TreeStep ==
  ASSUME IInv, TreeInv, CountInv, CountInv', Next
  PROVE  TreeInv'
<1>0. /\ index \in Nat /\ MaxIndex \in Nat /\ HeapInv /\ BthInv /\ HeapGrows(Heap, Heap')
      /\ \A len : NewHid(len) \in Hids
  BY Sizes, HeapStep, NewHidType DEF IInv, HeapInv
<1>k. \A hid, kind, data : Lands(Heap, hid, kind, data) => Lands(Heap', hid, kind, data)
  BY <1>0 DEF Lands, HeapGrows, Longer
<1>i. ASSUME rowIndex' = rowIndex
      PROVE  Source' = Source /\ \A n, root : Indexed(Heap, n, root) => Indexed(Heap, n, root)'
  <2>1. Source' = Source
    BY <1>i DEF Source
  <2>2. \A n, root : Complete(Heap, n, root, Source) => Complete(Heap', n, root, Source)
    BY <1>0, CompleteKept
  <2> QED
    BY <2>1, <2>2 DEF Indexed
<1>1. ASSUME pc' \in {"idle", "cells", "end", "lost"} PROVE TreeInv'
  BY <1>1 DEF TreeInv
<1>2. ASSUME NEW id \in RowIds, beginRow(id) PROVE TreeInv'
  BY <1>1, <1>2 DEF beginRow
<1>3. ASSUME NEW len \in Lengths, setBinary(len) PROVE TreeInv'
  BY <1>1, <1>3, CellSet DEF AfterCell
<1>4. ASSUME endRow PROVE TreeInv'
  BY <1>1, <1>4 DEF endRow
<1>5. ASSUME finish PROVE TreeInv'
  <2>1. CASE pc' = "lost"
    BY <1>1, <2>1
  <2>2. CASE pc' # "lost"
    <3>1. /\ rowIndex' = rowIndex /\ bth' = [level |-> 0, todo |-> Source, next |-> {}, root |-> NoHid]
          /\ pc' = IF rowIndex = {} THEN "header" ELSE "bth"
      BY <1>5, <2>2 DEF finish, Lost, Source
    <3>2. Source' = Source
      BY <3>1, <1>i
    <3>3. CASE rowIndex = {}
      <4>1. Source = {} /\ pc' = "header"
        BY <3>1, <3>3 DEF Source
      <4> QED
        BY <3>2, <4>1 DEF TreeInv, Indexed
    <3>4. CASE rowIndex # {}
      <4>1. Shaped({}, Heap') /\ Partly({}, 0, Source, {}, Source)
        BY DEF Shaped, Partly, OnLevel
      <4>2. pc' = "bth" /\ bth'.level = 0 /\ bth'.todo = Source /\ bth'.next = {}
        BY <3>1, <3>4
      <4> QED
        BY <3>2, <4>1, <4>2 DEF TreeInv
    <3> QED
      BY <3>3, <3>4
  <2> QED
    BY <2>1, <2>2
<1>6. ASSUME BthPage PROVE TreeInv'
  <2>0. pc' \in {"bth", "header", "lost"} /\ rowIndex' = rowIndex
    BY <1>6, PageCases DEF BthPage, tableVars
  <2>1. CASE pc' = "lost"
    BY <1>1, <2>1
  <2>2. CASE pc' = "bth" /\ ~(index' <= MaxIndex)
    BY <2>2 DEF TreeInv
  <2>3. CASE pc' # "lost" /\ index' <= MaxIndex
    <3>1. index <= MaxIndex
      <4>1. index' \in {index, index + 1}
        BY <1>0, <1>6, <2>3, PageTurn, IndexMoves
      <4> QED
        BY <1>0, <2>3, <4>1
    <3> DEFINE todo == bth.todo \ NextPage
               next == bth.next \cup {PageEntry}
               l == bth.level
    <3>2. PICK qs : \E page \in qs :
            /\ page.level = l /\ page.hid = NewHid(PageLen) /\ Branch(page) = PageEntry
            /\ Shaped(qs, Heap') /\ Partly(qs, l, todo, next, Source)
      BY <1>0, <1>6, <2>3, <3>1, PageJoins
    <3>3. PICK page \in qs :
            /\ page.level = l /\ page.hid = NewHid(PageLen) /\ Branch(page) = PageEntry
            /\ Shaped(qs, Heap') /\ Partly(qs, l, todo, next, Source)
      BY <3>2
    <3>4. Source' = Source /\ l \in Nat
      BY <1>0, <1>i, <2>0 DEF BthInv
    <3>5. CASE todo # {} /\ pc' = "bth" /\ bth' = [bth EXCEPT !.todo = todo, !.next = next]
      <4>1. bth'.level = l /\ bth'.todo = todo /\ bth'.next = next
        BY <1>0, <3>5 DEF BthInv
      <4> HIDE DEF todo, next, l
      <4> QED
        BY <3>3, <3>4, <3>5, <4>1 DEF TreeInv
    <3>6. CASE /\ todo = {} /\ Cardinality(next) = 1 /\ pc' = "header"
               /\ bth' = [bth EXCEPT !.todo = {}, !.next = {}, !.root = NewHid(PageLen)]
      <4>1. bth'.level = l /\ bth'.root = NewHid(PageLen)
        BY <1>0, <3>6 DEF BthInv
      <4>2. next = {Branch(page)}
        <5>1. IsFiniteSet(next)
          BY <1>6, PageCases
        <5>2. \E x : next = {x}
          BY <3>6, <5>1, FS_Singleton
        <5>3. PageEntry \in next
          OBVIOUS
        <5> HIDE DEF next
        <5> QED
          BY <3>3, <5>2, <5>3
      <4> HIDE DEF todo, next, l
      <4>3. Complete(Heap', l, NewHid(PageLen), Source)
        BY <3>3, <3>4, <3>6, <4>2, TopPage
      <4> QED
        BY <3>4, <3>6, <4>1, <4>3 DEF TreeInv, Indexed
    <3>7. CASE /\ todo = {} /\ pc' = "bth"
               /\ bth' = [bth EXCEPT !.level = l + 1, !.todo = next, !.next = {}]
      <4>1. bth'.level = l + 1 /\ bth'.todo = next /\ bth'.next = {}
        BY <1>0, <3>7 DEF BthInv
      <4> HIDE DEF todo, next, l
      <4>2. Partly(qs, l + 1, next, {}, Source)
        BY <3>3, <3>4, <3>7, NextLevel
      <4> QED
        BY <3>3, <3>4, <3>7, <4>1, <4>2 DEF TreeInv
    <3> QED
      BY <1>6, <2>3, <3>5, <3>6, <3>7, PageTurn
  <2>4. pc' = "header" => index' <= MaxIndex
    BY DEF CountInv
  <2> QED
    BY <2>0, <2>1, <2>2, <2>3, <2>4
<1>7. ASSUME BthHeader PROVE TreeInv'
  <2>1. CASE pc' = "lost"
    BY <1>1, <2>1
  <2>2. CASE pc' # "lost"
    <3> DEFINE data == [levels |-> bth.level, root |-> bth.root]
               item == Item("bth", data, BthHdrLen)
    <3>1. /\ pc = "header" /\ alloc(item) /\ pc' = "info" /\ rowIndex' = rowIndex
          /\ bth' = [bth EXCEPT !.root = NewHid(BthHdrLen)]
      BY <1>7, <2>2 DEF BthHeader, Lost, tableVars
    <3>2. /\ item \in HeapItems /\ item.len = BthHdrLen /\ item.kind = "bth" /\ item.data = data
      BY ItemFacts, ItemParts
    <3>3. bth'.root = NewHid(BthHdrLen) /\ bth.level \in Nat /\ bth.root \in Hids
      BY <1>0, <3>1 DEF BthInv
    <3>4. index <= MaxIndex /\ Steady(leaves, index) /\ Indexed(Heap, bth.level, bth.root)
      BY <3>1 DEF CountInv, TreeInv, IInv, LeavesInv
    <3> HIDE DEF item
    <3>5. Lands(Heap', NewHid(item.len), item.kind, item.data)
      BY <1>0, <3>1, <3>2, <3>4, AllocLands
    <3>6. Lands(Heap', bth'.root, "bth", data)
      <4> HIDE DEF data
      <4> QED
        BY <3>2, <3>3, <3>5
    <3>7. ASSUME NEW n \in Nat, NEW root \in Hids, n = bth.level, root = bth.root
          PROVE  TreeInv'
      <4>1. Indexed(Heap, n, root)
        BY <3>4, <3>7
      <4>2. Indexed(Heap, n, root)'
        BY <1>i, <3>1, <4>1
      <4>3. Lands(Heap, bth.root, "bth", [levels |-> n, root |-> root])'
        BY <3>6, <3>7
      <4> QED
        BY <3>1, <4>2, <4>3 DEF TreeInv
    <3> QED
      BY <3>3, <3>7
  <2> QED
    BY <2>1, <2>2
<1>8. ASSUME Info PROVE TreeInv'
  <2>1. CASE pc' = "lost"
    BY <1>1, <2>1
  <2>2. CASE pc' # "lost"
    <3> DEFINE item == Item("info", bth.root, InfoLen)
    <3>1. /\ pc = "info" /\ alloc(item) /\ pc' = "close" /\ rowIndex' = rowIndex
          /\ userRoot' = NewHid(InfoLen)
      BY <1>8, <2>2 DEF Info, Lost, tableVars
    <3>2. /\ item \in HeapItems /\ item.len = InfoLen /\ item.kind = "info" /\ item.data = bth.root
      BY ItemFacts, ItemParts
    <3>3. bth.root \in Hids /\ index <= MaxIndex /\ Steady(leaves, index)
      BY <1>0, <3>1 DEF BthInv, CountInv, IInv, LeavesInv
    <3>4. PICK n \in Nat, root \in Hids :
            Indexed(Heap, n, root) /\ Lands(Heap, bth.root, "bth", [levels |-> n, root |-> root])
      BY <3>1 DEF TreeInv
    <3> HIDE DEF item
    <3>5. Lands(Heap', NewHid(item.len), item.kind, item.data)
      BY <1>0, <3>1, <3>2, <3>3, AllocLands
    <3> DEFINE hid == bth.root
    <3>6. /\ Lands(Heap', userRoot', "info", hid)
          /\ Lands(Heap', hid, "bth", [levels |-> n, root |-> root])
      BY <1>k, <3>1, <3>2, <3>4, <3>5
    <3>7. Indexed(Heap, n, root)'
      BY <1>i, <3>1, <3>4
    <3>8. hid \in Hids
      BY <3>3
    <3>9. ASSUME NEW x \in Hids, x = hid PROVE TreeInv'
      <4>1. /\ Lands(Heap, userRoot, "info", x)'
            /\ Lands(Heap, x, "bth", [levels |-> n, root |-> root])'
        BY <3>6, <3>9
      <4> QED
        BY <3>1, <3>7, <4>1 DEF TreeInv
    <3> QED
      BY <3>8, <3>9
  <2> QED
    BY <2>1, <2>2
<1>9. ASSUME CloseHeap PROVE TreeInv'
  <2>1. CASE pc' = "lost"
    BY <1>1, <2>1
  <2>2. CASE pc' # "lost"
    <3>1. pc = "close" /\ pc' = "done" /\ userRoot' = userRoot /\ rowIndex' = rowIndex
      BY <1>9, <2>2 DEF CloseHeap, Lost, tableVars
    <3>2. PICK n \in Nat, root \in Hids, hid \in Hids :
            /\ Indexed(Heap, n, root) /\ Lands(Heap, hid, "bth", [levels |-> n, root |-> root])
            /\ Lands(Heap, userRoot, "info", hid)
      BY <3>1 DEF TreeInv
    <3>3. /\ Indexed(Heap, n, root)' /\ Lands(Heap, userRoot, "info", hid)'
          /\ Lands(Heap, hid, "bth", [levels |-> n, root |-> root])'
      BY <1>i, <1>k, <3>1, <3>2
    <3> QED
      BY <3>1, <3>3 DEF TreeInv
  <2> QED
    BY <2>1, <2>2
<1> QED
  BY <1>2, <1>3, <1>4, <1>5, <1>6, <1>7, <1>8, <1>9 DEF Next

\* The writer starts in the invariant.
LEMMA InitIndexInv == Init => IndexInv
<1> SUFFICES ASSUME Init PROVE IndexInv
  OBVIOUS
<1>1. /\ rowIndex = {} /\ kept = {} /\ pc = "idle" /\ inRow = FALSE /\ index = 0
  BY DEF Init
<1>2. Ids = {} /\ Owed = 0 /\ Cardinality(rowIndex) = 0
  BY <1>1, FS_EmptySet DEF Ids, Owed, Busy
<1>3. KeptInv
  BY <1>1, <1>2 DEF KeptInv, Busy
<1>4. CountInv
  BY <1>1, <1>2, Sizes DEF CountInv, Busy
<1>5. TreeInv
  BY <1>1 DEF TreeInv
<1> QED
  BY <1>3, <1>4, <1>5 DEF IndexInv

\* Every step preserves it.
LEMMA StepIndexInv ==
  ASSUME HeapWide
  PROVE  IInv /\ IndexInv /\ [Next]_vars => IndexInv'
<1> SUFFICES ASSUME IInv, IndexInv, [Next]_vars PROVE IndexInv'
  OBVIOUS
<1>1. CASE Next
  <2>1. CountInv'
    BY <1>1, CountStep DEF IndexInv
  <2> QED
    BY <1>1, <2>1, KeptStep, TreeStep DEF IndexInv
<1>2. CASE UNCHANGED vars
  <2>1. Heap' = Heap /\ Source' = Source /\ Ids' = Ids
    BY <1>2 DEF vars, Heap, Source, Ids
  <2>2. KeptInv' /\ CountInv'
    BY <1>2, <2>1 DEF vars, IndexInv, KeptInv, CountInv, Owed, Crowded, Busy
  <2>3. TreeInv'
    BY <1>2, <2>1 DEF vars, IndexInv, TreeInv, Indexed
  <2> QED
    BY <2>2, <2>3 DEF IndexInv
<1> QED
  BY <1>1, <1>2

\* A table whose finish() returned can be searched and read: every message that
\* was counted is found by its id in the row index, whatever its depth, its row
\* is its own and its cells lead to its strings, and the index names no message
\* that was given up (streaming_table.cpp:306-353).
THEOREM FinishedTableReadable == HeapWide => (Spec => []TableReadable)
<1> SUFFICES ASSUME HeapWide PROVE Spec => []TableReadable
  OBVIOUS
<1>1. IInv /\ IndexInv => TableReadable
  <2> SUFFICES ASSUME IInv, IndexInv, pc = "done"
               PROVE  /\ Ids = kept
                      /\ \A id \in kept :
                           LET found == LookUp(id)
                               r     == RowAt(found[2])
                           IN  found[1] = id /\ r.id = id /\ Len(r.cells) = Columns
                               /\ \A c \in 1 .. Columns : CellOf(id, c, r.cells[c])
    BY DEF TableReadable, Ids
  <2>1. Ids = kept
    BY DEF IndexInv, KeptInv
  <2> SUFFICES ASSUME NEW id \in kept
               PROVE  LET found == LookUp(id)
                          r     == RowAt(found[2])
                      IN  found[1] = id /\ r.id = id /\ Len(r.cells) = Columns
                          /\ \A c \in 1 .. Columns : CellOf(id, c, r.cells[c])
    BY <2>1
  <2>2. PICK e \in rowIndex : e.id = id
    BY <2>1 DEF Ids
  <2> DEFINE x == <<e.id, e.ordinal>>
  <2>3. x \in Source /\ x[1] = id /\ x[2] = e.ordinal /\ id \in Nat
    <3>1. kept \subseteq RowIds /\ RowIds \subseteq Nat
      BY TableAssumption DEF IInv, RowInv, TableAssumption
    <3> QED
      BY <2>2, <3>1 DEF Source
  <2> HIDE DEF x
  <2>4. PICK n \in Nat, root \in Hids, hid \in Hids :
          /\ Indexed(Heap, n, root) /\ Lands(Heap, hid, "bth", [levels |-> n, root |-> root])
          /\ Lands(Heap, userRoot, "info", hid)
    BY DEF IndexInv, TreeInv
  <2>5. Complete(Heap, n, root, Source)
    BY <2>3, <2>4 DEF Indexed
  <2>6. LookUp(id) = x
    BY <2>3, <2>4, <2>5, Search
  <2>7. RowsReadBack
    BY RowsFound
  <2> QED
    BY <2>2, <2>3, <2>6, <2>7 DEF RowsReadBack
<1> QED
  BY <1>1, InitIndexInv, StepIndexInv, IInvAlways, PTL DEF Spec
=============================================================================
