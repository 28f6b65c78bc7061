-------------------------------- MODULE Ndb --------------------------------
(***************************************************************************)
(* The node database writer of imap2pst (src/src/pst/ndb.cpp): the file,   *)
(* its bump allocator and allocation maps, the block store, and the finish *)
(* sequence that lays out the two B-trees, the fixed pages and the header. *)
(*                                                                         *)
(* Offsets and lengths are counted in 64-byte slots (kBlockAlign), the     *)
(* unit of the allocation maps, so the bytes inside a slot are abstracted. *)
(* The loop of allocate() is one action per iteration, every writeAt() is  *)
(* an action with its possible outcomes, and the caller (PstWriter) is the *)
(* choice of which block to emit, which node to add and when to finish.    *)
(***************************************************************************)
EXTENDS Integers, FiniteSets, FiniteSetsExt

CONSTANTS
  PageSize,           \* kPageSize
  AMapSpan,           \* kAMapSpan: the slots one allocation map describes
  PMapSpan,           \* kPMapSpan
  DListPos,           \* kDListPos
  MaxBlock,           \* slots of the largest block, trailer included
  NbtPerPage,         \* entries of one NBT leaf page
  BbtPerPage,         \* entries of one BBT leaf page
  BtPerPage,          \* entries of one branch page
  MaxLevel,           \* the B-tree depth limit of buildBTree
  FirstUserNidIndex,  \* kFirstUserNidIndex
  BlockShapes,        \* the <<slots, internal>> pairs emitBlock is called with
  Nids,               \* the node identifiers the caller may register
  MaxEmits            \* bound of the model: calls of emitBlock

ASSUME GeometryAssumption ==
  /\ PageSize \in Nat \ {0}
  /\ AMapSpan \in Nat /\ AMapSpan % PageSize = 0
  /\ PMapSpan \in Nat \ {0} /\ PMapSpan % AMapSpan = 0
  /\ DListPos \in Nat \ {0} /\ DListPos % PageSize = 0
  /\ MaxBlock \in Nat \ {0}
  /\ AMapSpan >= 2 * PageSize + MaxBlock
  /\ BlockShapes \subseteq (1..MaxBlock) \X BOOLEAN

ASSUME TreeAssumption ==
  /\ NbtPerPage \in Nat \ {0} /\ BbtPerPage \in Nat \ {0}
  /\ BtPerPage \in Nat \ {0, 1} /\ MaxLevel \in Nat \ {0}
  /\ FirstUserNidIndex \in Nat /\ Nids \subseteq Nat /\ MaxEmits \in Nat

VARIABLES
  cursor,     \* cursor_: the next free slot of the bump allocator
  amapCount,  \* amaps_.size()
  marked,     \* the slots whose bit is set in amaps_
  nextBid,    \* next_bid_index_
  bbt,        \* bbt_: [bid, ib, n]
  nbt,        \* nbt_: [nid, data]
  pages,      \* the B-tree pages written: [bid, ib, tree, level, entries]
  req,        \* the allocation in progress inside allocate(), or NoReq
  build,      \* the locals of buildBTree, and the roots built so far
  phase,      \* how far finish() got
  fixedDone,  \* how many pages emitFixedPages() has written
  header,     \* the header writeHeader() composed, or NoHeader
  io          \* the file: [disk, buf, bad]

vars == <<cursor, amapCount, marked, nextBid, bbt, nbt, pages, req, build,
          phase, fixedDone, header, io>>

----------------------------------------------------------------------------
(* Geometry (pst_format.h).                                                *)

HeaderPos == 0
FirstAMapPos == DListPos + PageSize
FirstPMapPos == FirstAMapPos + PageSize
FirstDataPos == FirstPMapPos + PageSize

AMapPos(i) == FirstAMapPos + i * AMapSpan
MapOf(ib)  == (ib - FirstAMapPos) \div AMapSpan

Slots(ib, n) == ib .. (ib + n - 1)

AlignUp(x, a) == ((x + a - 1) \div a) * a

isReservedPage(ib) ==
  \/ ib = DListPos
  \/ ib >= FirstAMapPos /\ (ib - FirstAMapPos) % AMapSpan = 0
  \/ ib >= FirstPMapPos /\ (ib - FirstPMapPos) % PMapSpan = 0

\* makeBid: the counter is shared by blocks and pages, bit 1 marks internal.
makeBid(index, internal) == 4 * index + (IF internal THEN 2 ELSE 0)

nidType(nid)  == nid % 32
nidIndex(nid) == nid \div 32

----------------------------------------------------------------------------
(* Allocation maps.  Bits past the end of the map that ib falls into are   *)
(* dropped, exactly as markAllocated() does.                               *)

\* Fault: the last slot of every extent is left unmarked.
MarkBits_ShortByOne(ib, n) == {s \in Slots(ib, n - 1) : s < AMapPos(MapOf(ib) + 1)}

MarkBits(ib, n) == {s \in Slots(ib, n) : s < AMapPos(MapOf(ib) + 1)}

\* The reserved pages ensureAMapCount() marks when it creates map i.
ReservedBits(i) ==
  LET pmaps == IF i = 0 THEN {FirstPMapPos}
               ELSE {p \in Slots(AMapPos(i), AMapSpan) : (p - FirstPMapPos) % PMapSpan = 0}
  IN  MarkBits(AMapPos(i), PageSize) \cup UNION {MarkBits(p, PageSize) : p \in pmaps}

\* ensureAMapCount(last + 1): what creating the missing maps marks.
ensureAMapCount(last) == UNION {ReservedBits(i) : i \in amapCount .. last}

markAllocated(ib, n) ==
  /\ amapCount' = IF amapCount < MapOf(ib) + 1 THEN MapOf(ib) + 1 ELSE amapCount
  /\ marked' = marked \cup ensureAMapCount(MapOf(ib)) \cup MarkBits(ib, n)

----------------------------------------------------------------------------
(* The file.  out_ is a buffered stream: a write goes straight to disk or  *)
(* stays in the buffer until the next seek, flush or close.  A failure     *)
(* sets the stream's error state, which nothing clears, so every later     *)
(* writeAt() throws as well.                                               *)

writeAtOk(ib) ==
  /\ ~io.bad
  /\ \E held \in SUBSET {ib} :
       io' = [disk |-> io.disk \cup io.buf \cup ({ib} \ held), buf |-> held, bad |-> FALSE]

writeAtThrows == io' = [io EXCEPT !.bad = TRUE]

----------------------------------------------------------------------------
(* allocate(): step over every reserved page the candidate range touches,  *)
(* then take the range.                                                    *)

NoReq == [kind |-> "none", n |-> 0, internal |-> FALSE]

\* Fault: only the first slot of the candidate range is tested.
Clash_FirstSlotOnly == {p \in {cursor} : p % PageSize = 0 /\ isReservedPage(p)}

\* The reserved pages that the candidate range [cursor, cursor + req.n) meets.
Clash == {p \in (cursor - PageSize + 1) .. (cursor + req.n - 1) :
            p % PageSize = 0 /\ isReservedPage(p)}

\* Fault: the cursor moves to the reserved page instead of past it.
SkipReserved_NoProgress ==
  /\ req # NoReq
  /\ \E p \in Clash : (\A q \in Clash : p <= q) /\ cursor' = p
  /\ UNCHANGED <<amapCount, marked, nextBid, bbt, nbt, pages, req, build,
                 phase, fixedDone, header, io>>

SkipReserved ==
  /\ req # NoReq
  /\ \E p \in Clash : (\A q \in Clash : p <= q) /\ cursor' = p + PageSize
  /\ UNCHANGED <<amapCount, marked, nextBid, bbt, nbt, pages, req, build,
                 phase, fixedDone, header, io>>

\* Fault: the BID counter is not advanced.
allocate_SameBid ==
  /\ Clash = {}
  /\ cursor' = cursor + req.n
  /\ markAllocated(cursor, req.n)
  /\ nextBid' = nextBid
  /\ req' = NoReq

\* The end of allocate(), and the BID its callers draw from the counter next.
allocate ==
  /\ Clash = {}
  /\ cursor' = cursor + req.n
  /\ markAllocated(cursor, req.n)
  /\ nextBid' = nextBid + 1
  /\ req' = NoReq

----------------------------------------------------------------------------
(* Blocks and nodes.                                                       *)

\* Fault: the trailer is subtracted from the length instead of added.
emitBlock_NoTrailer(n, internal) ==
  /\ phase = "open" /\ req = NoReq /\ nextBid <= MaxEmits
  /\ req' = [kind |-> "block", n |-> n - 2, internal |-> internal]
  /\ UNCHANGED <<cursor, amapCount, marked, nextBid, bbt, nbt, pages, build,
                 phase, fixedDone, header, io>>

emitBlock(n, internal) ==
  /\ phase = "open" /\ req = NoReq /\ nextBid <= MaxEmits
  /\ req' = [kind |-> "block", n |-> n, internal |-> internal]
  /\ UNCHANGED <<cursor, amapCount, marked, nextBid, bbt, nbt, pages, build,
                 phase, fixedDone, header, io>>

\* A block enters bbt_ only once its bytes were handed to the stream.
BlockWritten ==
  /\ req.kind = "block"
  /\ allocate
  /\ \/ /\ writeAtOk(cursor)
        /\ bbt' = bbt \cup {[bid |-> makeBid(nextBid, req.internal), ib |-> cursor, n |-> req.n]}
     \/ writeAtThrows /\ bbt' = bbt
  /\ UNCHANGED <<nbt, pages, build, phase, fixedDone, header>>

\* The caller registers a node once per NID, over data it has written.
addNode(nid, data) ==
  /\ phase = "open" /\ req = NoReq
  /\ nid \notin {e.nid : e \in nbt}
  /\ nbt' = nbt \cup {[nid |-> nid, data |-> data]}
  /\ UNCHANGED <<cursor, amapCount, marked, nextBid, bbt, pages, req, build,
                 phase, fixedDone, header, io>>

----------------------------------------------------------------------------
(* B-trees.  build.todo holds the entries of the current level that no     *)
(* page covers yet and build.next the branch entries of the level above.   *)

NbtEntries == {[key |-> e.nid, ref |-> e.data] : e \in nbt}
BbtEntries == {[key |-> e.bid, ref |-> e.ib] : e \in bbt}

StartTree(entries, roots) == [level |-> 0, todo |-> entries, next |-> {}, roots |-> roots]

entriesPerPage ==
  IF build.level > 0 THEN BtPerPage ELSE IF phase = "nbt" THEN NbtPerPage ELSE BbtPerPage

\* Fault: one entry more than the page holds.
NextChunk_OneTooMany == {e \in build.todo :
                Cardinality({f \in build.todo : f.key < e.key}) <= entriesPerPage}

\* The entries of the next page: the k smallest keys left, in sorted order.
NextChunk == {e \in build.todo :
                Cardinality({f \in build.todo : f.key < e.key}) < entriesPerPage}

\* finish() up to the first tree: the sort is the key order NextChunk uses.
finish ==
  /\ phase = "open" /\ req = NoReq
  /\ phase' = "nbt"
  /\ build' = StartTree(NbtEntries, [nbt |-> 0, bbt |-> 0])
  /\ UNCHANGED <<cursor, amapCount, marked, nextBid, bbt, nbt, pages, req,
                 fixedDone, header, io>>

\* Fault: the cursor is not aligned before a page is allocated.
allocatePage_Unaligned ==
  /\ phase \in {"nbt", "bbt"} /\ req = NoReq
  /\ cursor' = cursor
  /\ req' = [kind |-> "page", n |-> PageSize, internal |-> FALSE]
  /\ UNCHANGED <<amapCount, marked, nextBid, bbt, nbt, pages, build, phase,
                 fixedDone, header, io>>

\* allocatePage(): pages start on a page boundary, blocks need not.
allocatePage ==
  /\ phase \in {"nbt", "bbt"} /\ req = NoReq
  /\ cursor' = AlignUp(cursor, PageSize)
  /\ req' = [kind |-> "page", n |-> PageSize, internal |-> FALSE]
  /\ UNCHANGED <<amapCount, marked, nextBid, bbt, nbt, pages, build, phase,
                 fixedDone, header, io>>

\* What buildBTree() does once a page is out: the next page of this level,
\* the level above, the depth limit, or the end of the tree.
AfterPage(todo, next) ==
  \/ /\ todo # {}
     /\ build' = [build EXCEPT !.todo = todo, !.next = next]
     /\ UNCHANGED phase
  \/ /\ todo = {} /\ build.level > 0 /\ build.level + 1 > MaxLevel
     /\ phase' = "broken" /\ UNCHANGED build
  \/ /\ todo = {} /\ (build.level = 0 \/ build.level + 1 <= MaxLevel)
     /\ IF Cardinality(next) > 1
        THEN /\ build' = [build EXCEPT !.level = @ + 1, !.todo = next, !.next = {}]
             /\ UNCHANGED phase
        ELSE LET roots == [build.roots EXCEPT ![phase] = (CHOOSE e \in next : TRUE).ref]
             IN  /\ phase' = IF phase = "nbt" THEN "bbt" ELSE "pad"
                 /\ build' = StartTree(IF phase = "nbt" THEN BbtEntries ELSE {}, roots)

\* finishBTPage(), with the leaf or branch entries its callers put in the page.
\* The key a branch entry carries is the first key of the page below it.
PageWritten ==
  /\ req.kind = "page"
  /\ allocate
  /\ LET page == [bid |-> makeBid(nextBid, FALSE), ib |-> cursor, tree |-> phase,
                  level |-> build.level, entries |-> NextChunk]
         key  == IF NextChunk = {} THEN 0 ELSE Min({e.key : e \in NextChunk})
     IN  \/ /\ writeAtOk(cursor)
            /\ pages' = pages \cup {page}
            /\ AfterPage(build.todo \ NextChunk, build.next \cup {[key |-> key, ref |-> cursor]})
         \/ /\ writeAtThrows
            /\ phase' = "broken" /\ UNCHANGED <<pages, build>>
  /\ UNCHANGED <<bbt, nbt, fixedDone, header>>

----------------------------------------------------------------------------
(* The end of finish(): pad to whole map spans, fixed pages, header, flush.*)

file_end == LET end == AMapPos(amapCount) IN IF end < cursor THEN cursor ELSE end

\* Fault: the header is written before the fixed pages.
Pad_HeaderFirst ==
  /\ phase = "pad"
  /\ \/ file_end = cursor /\ phase' = "header" /\ UNCHANGED io
     \/ file_end > cursor /\ writeAtOk(cursor) /\ phase' = "header"
     \/ file_end > cursor /\ writeAtThrows /\ phase' = "broken"
  /\ UNCHANGED <<cursor, amapCount, marked, nextBid, bbt, nbt, pages, req, build,
                 fixedDone, header>>

Pad ==
  /\ phase = "pad"
  /\ \/ file_end = cursor /\ phase' = "fixed" /\ UNCHANGED io
     \/ file_end > cursor /\ writeAtOk(cursor) /\ phase' = "fixed"
     \/ file_end > cursor /\ writeAtThrows /\ phase' = "broken"
  /\ UNCHANGED <<cursor, amapCount, marked, nextBid, bbt, nbt, pages, req, build,
                 fixedDone, header>>

\* emitFixedPages(): the density list, every allocation map, every page map
\* below the end of the file, in this order.
PMapCount == (file_end - FirstPMapPos + PMapSpan - 1) \div PMapSpan

FixedPos(i) == CASE i = 0              -> DListPos
                 [] i \in 1..amapCount -> AMapPos(i - 1)
                 [] OTHER              -> FirstPMapPos + (i - 1 - amapCount) * PMapSpan

FixedCount == 1 + amapCount + PMapCount

\* Only the density list draws a BID from the counter.
emitFixedPages ==
  /\ phase = "fixed"
  /\ nextBid' = IF fixedDone = 0 THEN nextBid + 1 ELSE nextBid
  /\ \/ /\ writeAtOk(FixedPos(fixedDone))
        /\ fixedDone' = fixedDone + 1
        /\ phase' = IF fixedDone + 1 = FixedCount THEN "header" ELSE "fixed"
     \/ writeAtThrows /\ phase' = "broken" /\ UNCHANGED fixedDone
  /\ UNCHANGED <<cursor, amapCount, marked, bbt, nbt, pages, req, build, header>>

\* Fault: the highest index in use is published instead of the next one.
next_nid_InUse(t) ==
  Max({FirstUserNidIndex} \cup {nidIndex(e.nid) : e \in {x \in nbt : nidType(x.nid) = t}})

\* rgnid: the next free index per node type, never below the user range.
next_nid(t) ==
  Max({FirstUserNidIndex} \cup {nidIndex(e.nid) + 1 : e \in {x \in nbt : nidType(x.nid) = t}})

\* The free slots of all allocation maps, counted before the maps are written.
amap_free == Cardinality((FirstAMapPos .. (AMapPos(amapCount) - 1)) \ marked)

NoHeader == [fileEnd |-> 0]

writeHeader ==
  /\ phase = "header"
  /\ header' = [fileEnd |-> file_end, lastAMap |-> AMapPos(amapCount - 1),
                amapFree |-> amap_free,
                nextBid |-> makeBid(nextBid, FALSE),
                nextNid |-> [t \in 0..31 |-> next_nid(t)], roots |-> build.roots]
  /\ \/ writeAtOk(HeaderPos) /\ phase' = "flush"
     \/ writeAtThrows /\ phase' = "broken"
  /\ UNCHANGED <<cursor, amapCount, marked, nextBid, bbt, nbt, pages, req, build, fixedDone>>

\* out_.flush() and out_.close().
Flush ==
  /\ phase = "flush"
  /\ \/ /\ ~io.bad
        /\ io' = [disk |-> io.disk \cup io.buf, buf |-> {}, bad |-> FALSE]
        /\ phase' = "closed"
     \/ writeAtThrows /\ phase' = "broken"
  /\ UNCHANGED <<cursor, amapCount, marked, nextBid, bbt, nbt, pages, req, build,
                 fixedDone, header>>

\* ~NdbWriter after a failed finish(), or when the caller never reached it:
\* closing the stream may still push the buffer out.
Abandon ==
  /\ phase \in {"open", "broken"} /\ req = NoReq
  /\ phase' = "aborted"
  /\ \E flushed \in SUBSET io.buf :
       io' = [io EXCEPT !.disk = @ \cup flushed, !.buf = @ \ flushed]
  /\ UNCHANGED <<cursor, amapCount, marked, nextBid, bbt, nbt, pages, req, build,
                 fixedDone, header>>

----------------------------------------------------------------------------
Init ==
  /\ cursor = FirstDataPos
  /\ amapCount = 1 /\ marked = ReservedBits(0)
  /\ nextBid = 1 /\ bbt = {} /\ nbt = {} /\ pages = {}
  /\ req = NoReq
  /\ build = StartTree({}, [nbt |-> 0, bbt |-> 0])
  /\ phase = "open" /\ fixedDone = 0 /\ header = NoHeader
  /\ io = [disk |-> {}, buf |-> {}, bad |-> FALSE]

Next ==
  \/ \E shape \in BlockShapes : emitBlock(shape[1], shape[2])
  \/ SkipReserved
  \/ BlockWritten
  \/ \E nid \in Nids, b \in bbt : addNode(nid, b.bid)
  \/ finish
  \/ allocatePage
  \/ PageWritten
  \/ Pad
  \/ emitFixedPages
  \/ writeHeader
  \/ Flush
  \/ Abandon

Spec == Init /\ [][Next]_vars

\* The writer is one thread: as long as it can take a step it takes one.
FairSpec == Spec /\ WF_vars(Next)

----------------------------------------------------------------------------
(* Correctness.                                                            *)

Phases == {"open", "nbt", "bbt", "pad", "fixed", "header", "flush", "closed",
           "broken", "aborted"}

Requests == [kind : {"none", "block", "page"}, n : Nat, internal : BOOLEAN]

\* The variables keep their types: the counters of NdbWriter are naturals, its
\* tables hold records of offsets, and the stream is a set of written offsets.
TypeOK ==
  /\ cursor \in Nat /\ amapCount \in Nat /\ nextBid \in Nat /\ fixedDone \in Nat
  /\ marked \subseteq Nat
  /\ bbt \subseteq [bid : Nat, ib : Nat, n : Nat]
  /\ nbt \subseteq [nid : Nat, data : Nat]
  /\ \A p \in pages : p.bid \in Nat /\ p.ib \in Nat
  /\ req \in Requests
  /\ phase \in Phases
  /\ io \in [disk : SUBSET Nat, buf : SUBSET Nat, bad : BOOLEAN]

\* Everything allocate() handed out that reached the stream.
Extents == {[bid |-> b.bid, ib |-> b.ib, n |-> b.n] : b \in bbt}
             \cup {[bid |-> p.bid, ib |-> p.ib, n |-> PageSize] : p \in pages}

\* Two extents of the file that share no slot.
Apart(ib1, n1, ib2, n2) == ib1 + n1 <= ib2 \/ ib2 + n2 <= ib1

\* No block or B-tree page overlaps another one, nor a position where
\* emitFixedPages() will later write an allocation map, page map or density
\* list: the loop in allocate() really steps over all of them.
NoOverlap ==
  \A x \in Extents :
    /\ \A y \in Extents : x = y \/ Apart(x.ib, x.n, y.ib, y.n)
    /\ \A p \in (x.ib - PageSize + 1) .. (x.ib + x.n - 1) : ~isReservedPage(p)

\* The allocation maps tell the truth: every slot of a block or page is marked
\* in them (so markAllocated() never drops a bit at the end of a map), and no
\* slot at or past the cursor is, other than those of reserved pages.
MapsTruthful ==
  /\ \A x \in Extents : Slots(x.ib, x.n) \subseteq marked
  /\ \A s \in marked : s < cursor \/ \E p \in (s - PageSize + 1) .. s : isReservedPage(p)

\* A B-tree page never starts off a page boundary, whatever block sizes came
\* before it and however many reserved pages allocate() stepped over: Outlook
\* rejects such a store with "Page has misaligned or zero ib" (ndb.cpp:78-82).
PagesAligned == \A p \in pages : p.ib % PageSize = 0

\* Once the header is on disk, so is every other thing finish() wrote: an
\* interrupted or failed run never leaves a header over missing blocks.
HeaderLast ==
  HeaderPos \in io.disk =>
    /\ {x.ib : x \in Extents} \subseteq io.disk
    /\ fixedDone = FixedCount /\ {FixedPos(i) : i \in 0 .. (FixedCount - 1)} \subseteq io.disk

\* What the header publishes to a reader that will write to the store: a next
\* BID and next NIDs nothing uses, a free-space total that matches the maps, and
\* an end of file that is a whole number of map spans and covers every extent.
HeaderConsistent ==
  HeaderPos \in io.disk =>
    /\ \A x \in Extents : x.bid < header.nextBid
    /\ \A e \in nbt : nidIndex(e.nid) < header.nextNid[nidType(e.nid)]
    /\ header.amapFree + Cardinality(marked) = amapCount * AMapSpan
    /\ header.fileEnd = header.lastAMap + AMapSpan
    /\ \A x \in Extents : x.ib + x.n <= header.fileEnd
    /\ \A i \in 0 .. (FixedCount - 1) : FixedPos(i) + PageSize <= header.fileEnd

\* A reader's descent from root to the leaf for key: at each level it follows
\* the last entry whose key is not above it.
PageAt(ib) == CHOOSE p \in pages : p.ib = ib
ChildOf(p, key) ==
  (CHOOSE e \in p.entries :
     e.key <= key /\ \A f \in p.entries : f.key <= key => f.key <= e.key).ref

Leaf(root, key) ==
  LET top == PageAt(root)
      path[l \in 0 .. top.level] ==
        IF l = top.level THEN top ELSE PageAt(ChildOf(path[l + 1], key))
  IN  path[0]

\* Every registered node and every block is found by a reader that starts at
\* the roots the header names, at whatever depth the trees ended up with.
TreesSearchable ==
  HeaderPos \in io.disk =>
    /\ \A e \in NbtEntries : e \in Leaf(header.roots.nbt, e.key).entries
    /\ \A e \in BbtEntries : e \in Leaf(header.roots.bbt, e.key).entries
    /\ \A p \in pages : Cardinality(p.entries) <=
         IF p.level > 0 THEN BtPerPage ELSE IF p.tree = "nbt" THEN NbtPerPage ELSE BbtPerPage

\* "Nothing is ever freed or reused" (ndb.h:6-7): no step unmarks a slot, moves
\* the cursor back, drops a block or reuses a BID.
AppendOnly ==
  [][ /\ marked \subseteq marked' /\ cursor <= cursor' /\ bbt \subseteq bbt'
      /\ \A b \in bbt' \ bbt : \A x \in Extents : b.bid # x.bid /\ x.ib + x.n <= b.ib ]_vars

\* The writer always comes to an end: the loop of allocate() terminates, both
\* trees get a root, and finish() closes the file or gives up.
Terminates == <>(phase \in {"closed", "aborted"})
=============================================================================
