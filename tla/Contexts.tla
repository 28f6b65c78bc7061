------------------------------ MODULE Contexts ------------------------------
(***************************************************************************)
(* The in-memory node contents of the writer: the heap of                  *)
(* src/src/pst/heap.cpp, the B-tree buildBthInto() of heap.h, and the      *)
(* SubnodeAllocator, PropertyContext and TableContext of                   *)
(* src/src/pst/ltp.cpp, composed with the data and subnode trees of module *)
(* DataTree that their bytes end up in.                                    *)
(*                                                                         *)
(* A node is filled by calls of its setters, serialized, and written: the  *)
(* values that were spilled, then the heap's bytes with writeData(), then  *)
(* the subnodes.  A value is its length and the number of the call that    *)
(* set it; HIDs and NIDs are the numbers of the file format.               *)
(***************************************************************************)
EXTENDS DataTree, SequencesExt

CONSTANTS
  HnHdr, PageHdr, BitmapHdr,  \* kHnHdrSize, kHnPageHdrSize, kHnBitmapHdrSize
  FirstBitmap, BitmapEvery,   \* 8 and 128
  MaxItems,    \* 2047, allocations an HID can count
  MaxIndex,    \* 0xFFFF, heap blocks an HID can count
  InfoLen,     \* length of the TCINFO
  Ids,         \* property ids
  Fillings,    \* the properties a context may start from: sequences of [id, shape]
  Shapes,      \* what a property is set to: [kind, n]
  CellLens,    \* lengths of variable cells
  ColumnLists, \* declared columns: sequences of tags
  Width,       \* fixedPropSize() of a tag's type, 0 for a variable one
  MaxRows, MaxSets  \* bounds of the model

\* Heap::maxAllocSize() is at least a B-tree page of one record and a TCINFO.
ASSUME HeapAssumption ==
  /\ {HnHdr, PageHdr, BitmapHdr, BitmapEvery, MaxItems, InfoLen} \subseteq Nat \ {0}
  /\ HnHdr <= BitmapHdr /\ PageHdr <= BitmapHdr
  /\ BlockData >= BitmapHdr + 9 + (IF InfoLen > 8 THEN InfoLen ELSE 8)

VARIABLES
  ctx,      \* the object being filled: "none", "pc" or "tc"
  values,   \* values_ of the property context
  columns,  \* columns_ and
  rows,     \* rows_ of the table context
  entries,  \* the SubnodeAllocator's entries: [nid, n, stamp, recs]
  hn,       \* the heap, once serialized: a sequence of blocks of items
  userRoot, \* its user root
  calls,    \* calls of the node database still to be made
  roots,    \* the roots it returned
  want,     \* what the caller set last for each property, or cell
  sets      \* calls of setters so far
cvars == <<ctx, values, columns, rows, entries, hn, userRoot, calls, roots, want, sets>>
allvars == <<vars, cvars>>

----------------------------------------------------------------------------
(* HeapNode.                                                               *)

pageMapSize(n) == 4 + 2 * (n + 1)
isBitmapBlock(i) == i >= FirstBitmap /\ (i - FirstBitmap) % BitmapEvery = 0
blockHeaderSize(i) ==
  IF i = 0 THEN HnHdr ELSE IF isBitmapBlock(i) THEN BitmapHdr ELSE PageHdr
maxAllocSize == BlockData - BitmapHdr - pageMapSize(1) - 1

Used(b) == FoldLeft(LAMBDA sum, item : sum + item.n, 0, b)

\* Fault: the page map is sized without the new item.
fits_OldMap(h, n) ==
  blockHeaderSize(Len(h) - 1) + Used(Last(h)) + n + pageMapSize(Len(Last(h))) <= BlockData

fits(h, n) ==
  blockHeaderSize(Len(h) - 1) + Used(Last(h)) + n + pageMapSize(Len(Last(h)) + 1) + 1 <= BlockData

alloc(h, item) ==
  IF fits(h, item.n) /\ Len(Last(h)) < MaxItems
  THEN ReplaceAt(h, Len(h), Append(Last(h), item))
  ELSE Append(h, <<item>>)

makeHid(block, index) == block * 65536 + index * 32
\* The HID alloc() returned for the heap's newest item.
NewHid(h) == makeHid(Len(h) - 1, Len(Last(h)))

\* serialize(): where an item starts, where the page map starts, how long the
\* block is.  Every block but the last is padded to a full data block.
Offset(h, i, k) == blockHeaderSize(i - 1) + Used(SubSeq(h[i], 1, k - 1))
BlockSize(h, i) ==
  IF i < Len(h) THEN BlockData
  ELSE LET off == Offset(h, i, Len(h[i]) + 1) IN off + (off % 2) + pageMapSize(Len(h[i]))
ibHnpm(h, i) == BlockSize(h, i) - pageMapSize(Len(h[i]))
StreamLen(h) == FoldLeft(LAMBDA sum, i : sum + BlockSize(h, i), 0, [i \in DOMAIN h |-> i])

----------------------------------------------------------------------------
(* buildBthInto(): pages of records, levels of pages.                      *)

Item(n, stamp, recs, levels) == [n |-> n, stamp |-> stamp, recs |-> recs, levels |-> levels]
Record(key, type, hnid) == [key |-> key, type |-> type, hnid |-> hnid]

SortedRecords(recs) == SortSeq(recs, LAMBDA a, b : a.key < b.key)

Pages(s, per) ==
  [i \in 1 .. (Len(s) + per - 1) \div per |->
     SubSeq(s, (i - 1) * per + 1, SmallerOf(i * per, Len(s)))]

\* One level: a page per chunk, and a record for the level above it.
AddLevel(h, recs, recLen) ==
  LET per == IF maxAllocSize < recLen THEN 1 ELSE maxAllocSize \div recLen
      add(acc, page) ==
        LET next == alloc(acc.h, Item(Len(page) * recLen, 0, page, 0))
        IN  [h |-> next, level |-> Append(acc.level, Record(page[1].key, 0, NewHid(next)))]
  IN  FoldLeft(add, [h |-> h, level |-> <<>>], Pages(recs, per))

\* The levels above the leaves, and the BTHHEADER.
RECURSIVE IndexLevels(_, _, _)
IndexLevels(at, keyLen, levels) ==
  IF Len(at.level) > 1
  THEN IndexLevels(AddLevel(at.h, at.level, keyLen + 4), keyLen, levels + 1)
  ELSE alloc(at.h, Item(8, 0, at.level, levels))

buildBth(h, keyLen, valueLen, recs) ==
  IndexLevels(AddLevel(h, SortedRecords(recs), keyLen + valueLen), keyLen, 0)

----------------------------------------------------------------------------
(* The setters.                                                            *)

makeNid(index) == index * 32 + 31
\* SubnodeAllocator::spill() gives the next NID; writeData() is a call.
NextNid(ents) == makeNid(Len(ents) + 1)
Entry(ents, n, stamp, recs) == [nid |-> NextNid(ents), n |-> n, stamp |-> stamp, recs |-> recs]

DataCall(n) == [pc |-> "data", len |-> n, todo |-> {}]
SubnodesCall(ents) == [pc |-> "subnodes", len |-> 0, todo |-> {ents[i].nid : i \in DOMAIN ents}]

\* put(): a property set before is replaced where it is, its type too.
put(vs, v) ==
  IF \E i \in DOMAIN vs : vs[i].id = v.id
  THEN [i \in DOMAIN vs |-> IF vs[i].id = v.id THEN v ELSE vs[i]]
  ELSE Append(vs, v)

\* The type an id is set with tells a reader how to take the 4-byte field.
Value(id, shape, hnid, stamp) ==
  [id |-> id, type |-> IF shape.kind = "inline" THEN "inline" ELSE "reference",
   kind |-> shape.kind, n |-> shape.n, hnid |-> hnid, stamp |-> stamp]

\* setInt32() and its like, setString(), setBinary(), setObject(), and
\* spill() followed by setSpilledValue().
Set(id, shape) ==
  /\ ctx = "pc" /\ pc = "build" /\ sets < MaxSets
  /\ LET spilled == shape.kind = "spilled"
         hnid    == IF spilled THEN NextNid(entries) ELSE IF shape.kind = "inline" THEN sets + 1 ELSE 0
     IN  /\ values' = put(values, Value(id, shape, hnid, sets + 1))
         /\ entries' = IF spilled THEN Append(entries, Entry(entries, shape.n, sets + 1, <<>>)) ELSE entries
         /\ calls' = IF spilled THEN <<DataCall(shape.n)>> ELSE <<>>
         /\ pc' = IF spilled THEN "next" ELSE pc
  /\ want' = [i \in DOMAIN want \cup {<<id>>} |->
                IF i = <<id>> THEN [stamp |-> sets + 1, n |-> shape.n, kind |-> shape.kind] ELSE want[i]]
  /\ sets' = sets + 1
  /\ UNCHANGED <<ctx, columns, rows, hn, userRoot, roots>>
  /\ UNCHANGED <<blocks, len, streamed, leaves, xblocks, todo, children, root>>

Absent == [present |-> FALSE, n |-> 0, stamp |-> 0]

addRow ==
  /\ ctx = "tc" /\ pc = "build" /\ Len(rows) < MaxRows
  \* Row ids are NIDs of folders and attachments, in no particular order.
  /\ LET id == IF Len(rows) % 2 = 0 THEN 100 - Len(rows) ELSE 100 + Len(rows)
     IN  rows' = Append(rows, [id |-> id, cells |-> [i \in DOMAIN columns |->
                   IF i = 1 THEN [present |-> TRUE, n |-> 4, stamp |-> id]
                   ELSE IF i = 2 THEN [present |-> TRUE, n |-> 4, stamp |-> 1] ELSE Absent]])
  /\ UNCHANGED <<ctx, values, columns, entries, hn, userRoot, calls, roots, want, sets>>
  /\ UNCHANGED vars

\* A cell of the newest row: setInt32() and its like, setString(), setBinary().
SetCell(i, n) ==
  /\ ctx = "tc" /\ pc = "build" /\ rows # <<>> /\ sets < MaxSets
  /\ IF Width[columns[i]] = 0 THEN n \in CellLens ELSE n = Width[columns[i]]
  /\ rows' = [rows EXCEPT ![Len(rows)].cells[i] = [present |-> TRUE, n |-> n, stamp |-> 1000 + sets]]
  /\ want' = [k \in DOMAIN want \cup {<<Len(rows), columns[i]>>} |->
                IF k = <<Len(rows), columns[i]>> THEN [stamp |-> 1000 + sets, n |-> n, kind |-> "cell"]
                ELSE want[k]]
  /\ sets' = sets + 1
  /\ UNCHANGED <<ctx, values, columns, entries, hn, userRoot, calls, roots>> /\ UNCHANGED vars

----------------------------------------------------------------------------
(* PropertyContext::serialize().                                           *)

\* A value's record: its heap allocation, empty ones too, or its subnode.
PlaceValue(acc, v) ==
  IF v.kind # "bytes"
  THEN [acc EXCEPT !.recs = Append(@, Record(v.id, v.type, v.hnid))]
  ELSE IF v.n <= maxAllocSize
  THEN LET next == alloc(acc.h, Item(v.n, v.stamp, <<>>, 0))
       IN  [acc EXCEPT !.h = next, !.recs = Append(@, Record(v.id, v.type, NewHid(next)))]
  ELSE [acc EXCEPT !.ents = Append(@, Entry(acc.ents, v.n, v.stamp, <<>>)),
                   !.recs = Append(@, Record(v.id, v.type, NextNid(acc.ents)))]

\* What both serialize() functions end in: the heap's bytes are the node's
\* data, after the values spilled meanwhile and before the subnodes.
WriteNode(h, ents) ==
  LET spilled == SubSeq(ents, Len(entries) + 1, Len(ents))
  IN  IF Len(h) - 1 > MaxIndex
      THEN pc' = "refused" /\ UNCHANGED <<hn, userRoot, entries, calls>>
      ELSE /\ pc' = "next" /\ hn' = h /\ userRoot' = NewHid(h) /\ entries' = ents
           /\ calls' = [i \in DOMAIN spilled |-> DataCall(spilled[i].n)]
                         \o <<DataCall(StreamLen(h)), SubnodesCall(ents)>>

serializeProperties ==
  /\ ctx = "pc" /\ pc = "build"
  /\ LET placed == FoldLeft(PlaceValue, [h |-> <<<<>>>>, ents |-> entries, recs |-> <<>>], values)
     IN  WriteNode(buildBth(placed.h, 2, 6, placed.recs), placed.ents)
  /\ ctx' = "written pc"
  /\ UNCHANGED <<values, columns, rows, roots, want, sets>>
  /\ UNCHANGED <<blocks, len, streamed, leaves, xblocks, todo, children, root>>

----------------------------------------------------------------------------
(* TableContext::serialize().                                              *)

\* layout(): the row id and version first, then the widest columns first, and
\* the cell-existence bitmap last.
cb(i) == IF Width[columns[i]] = 0 THEN 4 ELSE Width[columns[i]]
WidthOf(S) == SumFunctionOnSet([i \in S |-> cb(i)], S)
Packed == DOMAIN columns \ {1, 2}

ib(i) ==
  IF i <= 2 THEN 4 * (i - 1)
  ELSE 8 + WidthOf({j \in Packed : cb(j) > cb(i) \/ (cb(j) = cb(i) /\ j < i)})

ceb_off == 8 + WidthOf(Packed)
ceb_len == (Len(columns) + 7) \div 8
row_size == ceb_off + ceb_len

\* One row: which byte of which value is at each offset, and the bits set.
poke(bytes, at, n, v) ==
  [p \in DOMAIN bytes |-> IF p \in at .. (at + n - 1) THEN <<v, p - at>> ELSE bytes[p]]
BitOf(i) == <<ceb_off + (i - 1) \div 8, (i - 1) % 8>>
EmptyRow == [bytes |-> [p \in 0 .. (row_size - 1) |-> <<0, 0>>], bits |-> {}]

PlaceCell(acc, c) ==
  LET cell     == c.cell
      variable == Width[columns[c.i]] = 0
      inHeap   == variable /\ cell.n \in 1 .. maxAllocSize
      spilled  == variable /\ cell.n > maxAllocSize
      next     == IF inHeap THEN alloc(acc.h, Item(cell.n, cell.stamp, <<>>, 0)) ELSE acc.h
      v        == IF inHeap THEN NewHid(next) ELSE IF spilled THEN NextNid(acc.ents)
                  ELSE IF variable THEN 0 ELSE cell.stamp
  IN  IF ~cell.present THEN acc
      ELSE [h    |-> next,
            ents |-> IF spilled THEN Append(acc.ents, Entry(acc.ents, cell.n, cell.stamp, <<>>)) ELSE acc.ents,
            row  |-> [bytes |-> poke(acc.row.bytes, ib(c.i), cb(c.i), v), bits |-> acc.row.bits \cup {BitOf(c.i)}]]

PlaceRow(acc, row) ==
  LET placed == FoldLeft(PlaceCell, [h |-> acc.h, ents |-> acc.ents, row |-> EmptyRow],
                         [i \in DOMAIN columns |-> [i |-> i, cell |-> row.cells[i]]])
  IN  [h |-> placed.h, ents |-> placed.ents, matrix |-> Append(acc.matrix, placed.row)]

\* A matrix too large for the heap becomes a subnode whose blocks hold whole
\* rows, all but the last padded.
rows_per_block == BlockData \div row_size

\* Fault: the rows follow each other without padding.
RowStart_Unpadded(i) == i * row_size

RowStart(i) == (i \div rows_per_block) * BlockData + (i % rows_per_block) * row_size
Matrix(m, start(_)) == [i \in DOMAIN m |-> [at |-> start(i - 1), row |-> m[i]]]

PlaceMatrix(acc) ==
  LET n      == Len(acc.matrix)
      inline(i) == i * row_size
      inHeap == alloc(acc.h, Item(n * row_size, 0, Matrix(acc.matrix, inline), 0))
  IN  CASE n = 0 -> [h |-> acc.h, ents |-> acc.ents, hnid |-> 0]
        [] n > 0 /\ n * row_size <= maxAllocSize -> [h |-> inHeap, ents |-> acc.ents, hnid |-> NewHid(inHeap)]
        [] n * row_size > maxAllocSize ->
             [h |-> acc.h, hnid |-> NextNid(acc.ents),
              ents |-> Append(acc.ents, Entry(acc.ents, RowStart(n - 1) + row_size, 0, Matrix(acc.matrix, RowStart)))]

\* The matrix first, then the row index, then the TCINFO that names both.
serializeTable ==
  /\ ctx = "tc" /\ pc = "build"
  /\ LET cells  == FoldLeft(PlaceRow, [h |-> <<<<>>>>, ents |-> <<>>, matrix |-> <<>>], rows)
         placed == PlaceMatrix(cells)
         index  == buildBth(placed.h, 4, 4, [i \in DOMAIN rows |-> Record(rows[i].id, 0, i - 1)])
     IN  WriteNode(alloc(index, Item(InfoLen, 0, <<NewHid(index), placed.hnid>>, 0)), placed.ents)
  /\ ctx' = "written tc"
  /\ UNCHANGED <<values, columns, rows, roots, want, sets>>
  /\ UNCHANGED <<blocks, len, streamed, leaves, xblocks, todo, children, root>>

----------------------------------------------------------------------------
(* The calls of the node database, one at a time.                          *)

StartCall ==
  /\ pc = "next"
  /\ pc' = Head(calls).pc /\ len' = Head(calls).len /\ todo' = Head(calls).todo
  /\ calls' = Tail(calls)
  /\ leaves' = <<>> /\ xblocks' = <<>> /\ children' = {} /\ root' = NoBid
  /\ UNCHANGED <<blocks, streamed, ctx, values, columns, rows, entries, hn, userRoot, roots, want, sets>>

CallReturned ==
  /\ pc = "done" /\ ctx # "none"
  /\ roots' = Append(roots, root)
  /\ pc' = IF calls # <<>> THEN "next" ELSE IF ctx = "pc" THEN "build" ELSE "finished"
  /\ UNCHANGED <<blocks, len, streamed, leaves, xblocks, todo, children, root>>
  /\ UNCHANGED <<ctx, values, columns, rows, entries, hn, userRoot, calls, want, sets>>

\* A property context starts empty or with the properties of a filling.
Filled(f) == [i \in DOMAIN f |-> Value(f[i].id, f[i].shape, 500 + i, 500 + i)]
FilledWant(f) ==
  [k \in {<<f[i].id>> : i \in DOMAIN f} |->
     LET i == CHOOSE j \in DOMAIN f : k = <<f[j].id>>
     IN  [stamp |-> 500 + i, n |-> f[i].shape.n, kind |-> f[i].shape.kind]]

\* PidTagLtpRowId and PidTagLtpRowVer come with the constructor; addColumn()
\* ignores a tag that is declared.
RowIdTag == 26610
RowVerTag == 26611
addColumn(cols, tag) == IF Contains(cols, tag) THEN cols ELSE Append(cols, tag)

ContextInit ==
  \/ Init /\ ctx = "none" /\ values = <<>> /\ columns = <<>> /\ want = <<>>
  \/ /\ blocks = <<LeafBlock(0, 0)>> /\ leaves = <<>> /\ xblocks = <<>> /\ children = {} /\ root = NoBid
     /\ pc = "build" /\ len = 0 /\ streamed = FALSE /\ todo = {}
     /\ \/ /\ ctx = "pc" /\ columns = <<>>
           /\ \E f \in Fillings : values = Filled(f) /\ want = FilledWant(f)
        \/ /\ ctx = "tc" /\ values = <<>> /\ want = <<>>
           /\ \E c \in ColumnLists : columns = FoldLeft(addColumn, <<RowIdTag, RowVerTag>>, c)

CInit ==
  /\ ContextInit
  /\ rows = <<>> /\ entries = <<>> /\ hn = <<>> /\ userRoot = 0 /\ calls = <<>> /\ roots = <<>> /\ sets = 0

CNext ==
  \/ Next /\ UNCHANGED cvars
  \/ \E id \in Ids, shape \in Shapes : Set(id, shape)
  \/ addRow
  \/ \E i \in Packed, n \in CellLens \cup {1, 2, 4, 8} : SetCell(i, n)
  \/ serializeProperties
  \/ serializeTable
  \/ StartCall
  \/ CallReturned

CSpec == CInit /\ [][CNext]_allvars

----------------------------------------------------------------------------
(* Correctness: a reader that has the node's data, its subnodes and the    *)
(* file format.                                                            *)

StreamRoot == roots[Len(roots) - 1]
hidBlock(hid) == hid \div 65536
hidIndex(hid) == (hid % 65536) \div 32
IsHid(hnid) == hnid % 32 = 0

\* The heap block an HID names is the data leaf of that number, whole, and its
\* items end before its page map.
BlockAligned(k) ==
  LET leaf == LeafFor(StreamRoot, k * BlockData)
  IN  /\ leaf.from = k * BlockData /\ leaf.total = BlockSize(hn, k + 1)
      /\ Offset(hn, k + 1, Len(hn[k + 1]) + 1) <= ibHnpm(hn, k + 1)

ItemOk(hid) ==
  /\ hidBlock(hid) < Len(hn) /\ hidIndex(hid) \in DOMAIN hn[hidBlock(hid) + 1]
  /\ BlockAligned(hidBlock(hid))
ItemAt(hid) == hn[hidBlock(hid) + 1][hidIndex(hid)]

\* The B-tree at a header: the child with the last key not above the wanted one.
NoRecord == Record(0, "none", 0)
RECURSIVE Descend(_, _, _)
Descend(recs, key, levels) ==
  LET below == {i \in DOMAIN recs : recs[i].key <= key}
      hit   == recs[Max(below)]
  IN  IF below = {} THEN NoRecord
      ELSE IF levels > 0 THEN IF ItemOk(hit.hnid) THEN Descend(ItemAt(hit.hnid).recs, key, levels - 1) ELSE NoRecord
      ELSE IF hit.key = key THEN hit ELSE NoRecord
Lookup(header, key) == Descend(ItemAt(header).recs, key, ItemAt(header).levels + 1)

\* The subnode a NID names, and its bytes.
EntryOf(nid) == CHOOSE k \in DOMAIN entries : entries[k].nid = nid
SubnodeOk(nid) ==
  /\ nid \in SubnodeLeaf(nid).refs /\ \E k \in DOMAIN entries : entries[k].nid = nid
  /\ blocks[roots[EntryOf(nid)]].total = entries[EntryOf(nid)].n

\* What an HNID leads to is the value that was set.
Holds(hnid, w) ==
  IF IsHid(hnid)
  THEN ItemOk(hnid) /\ ItemAt(hnid).stamp = w.stamp /\ ItemAt(hnid).n = w.n
  ELSE SubnodeOk(hnid) /\ entries[EntryOf(hnid)].stamp = w.stamp /\ entries[EntryOf(hnid)].n = w.n

\* Every property the caller set is found in the written node with the value
\* and the type it was set to last, an empty one included, and no other
\* property is: the heap blocks stay in step with the data blocks (heap.h:6),
\* the B-tree leads to each record, and a spilled value is in its subnode.
PropertiesReadable ==
  pc = "finished" /\ ctx = "written pc" =>
    /\ ItemOk(userRoot)
    /\ \A id \in Ids \cup {k[1] : k \in DOMAIN want} :
         LET rec == Lookup(userRoot, id)
         IN  IF <<id>> \notin DOMAIN want THEN rec = NoRecord
             ELSE LET w == want[<<id>>]
                  IN  IF w.kind = "inline" THEN rec.type = "inline" /\ rec.hnid = w.stamp
                      ELSE rec.type = "reference" /\ Holds(rec.hnid, w)

\* Where a reader looks for the row of an ordinal, and the row it finds.
RowsHnid == ItemAt(userRoot).recs[2]
RowAt(ordinal) ==
  LET at      == IF IsHid(RowsHnid) THEN ordinal * row_size
                 ELSE (ordinal \div rows_per_block) * BlockData + (ordinal % rows_per_block) * row_size
      stored  == IF IsHid(RowsHnid) THEN ItemAt(RowsHnid).recs ELSE entries[EntryOf(RowsHnid)].recs
      leaf    == LeafFor(roots[EntryOf(RowsHnid)], at)
      inLeaf  == IsHid(RowsHnid) \/ at + row_size <= leaf.from + leaf.total
      found   == {k \in DOMAIN stored : stored[k].at = at}
  IN  IF inLeaf /\ found # {} THEN stored[CHOOSE k \in found : TRUE].row ELSE EmptyRow

\* Every cell a row was given is read back through the row index and the row
\* matrix: its existence bit is set, its bytes are the value's, overwritten by
\* no other column, and a cell that was not set is absent.
RowsReadable ==
  pc = "finished" /\ ctx = "written tc" =>
    /\ ItemOk(userRoot) /\ ItemOk(ItemAt(userRoot).recs[1])
    /\ \A r \in DOMAIN rows :
         LET row == RowAt(Lookup(ItemAt(userRoot).recs[1], rows[r].id).hnid)
         IN  /\ row.bytes[0][1] = rows[r].id
             /\ \A i \in Packed :
                  LET w == want[<<r, columns[i]>>]
                      v == row.bytes[ib(i)][1]
                  IN  IF <<r, columns[i]>> \notin DOMAIN want THEN BitOf(i) \notin row.bits
                      ELSE /\ BitOf(i) \in row.bits
                           /\ \A p \in 0 .. (cb(i) - 1) : row.bytes[ib(i) + p] = <<v, p>>
                           /\ IF Width[columns[i]] > 0 THEN v = w.stamp
                              ELSE IF w.n = 0 THEN v = 0 ELSE Holds(v, w)
=============================================================================
