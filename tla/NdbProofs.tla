----------------------------- MODULE NdbProofs -----------------------------
(***************************************************************************)
(* Theorems about Ndb, for every geometry, every sequence of block sizes   *)
(* and every pattern of write failures: type correctness, that extents     *)
(* never overlap each other or a reserved page, that the allocation maps   *)
(* are truthful, that B-tree pages are aligned, that the header is the     *)
(* last thing to reach the disk, that what it says is true, and that a     *)
(* reader that starts at the roots it names finds every node and block.    *)
(***************************************************************************)
EXTENDS Ndb, NatLemmas, TLAPS

----------------------------------------------------------------------------
(* Arithmetic.                                                             *)

\* alignUp() moves forward to a multiple of the alignment (pst_format.h:231).
LEMMA AlignUpIsAligned ==
  ASSUME NEW x \in Nat, NEW a \in Nat \ {0}
  PROVE  AlignUp(x, a) \in Nat /\ AlignUp(x, a) >= x /\ AlignUp(x, a) % a = 0
<1> DEFINE y == x + a - 1
           q == y \div a
<1>1. y \in Nat /\ y = x + a - 1
  OBVIOUS
<1>2. AlignUp(x, a) = q * a
  BY DEF AlignUp
<1> HIDE DEF y
<1>3. y = a * q + (y % a) /\ y % a \in 0 .. (a - 1) /\ q \in Nat
  BY <1>1, DivMod
<1> HIDE DEF q
<1>4. (q * a) % a = 0 /\ q * a \in Nat
  BY <1>3, MultipleMod
<1>5. q * a >= x
  BY <1>1, <1>3
<1> QED
  BY <1>2, <1>4, <1>5

----------------------------------------------------------------------------
(* Geometry.                                                               *)

\* The fixed positions are naturals in order, and spans are not empty.
LEMMA Positions ==
  /\ FirstAMapPos \in Nat /\ FirstPMapPos \in Nat /\ FirstDataPos \in Nat
  /\ 0 < DListPos /\ DListPos < FirstAMapPos
  /\ FirstAMapPos < FirstPMapPos /\ FirstPMapPos < FirstDataPos
  /\ AMapSpan \in Nat \ {0} /\ AMapSpan >= 2 * PageSize
  /\ FirstAMapPos % PageSize = 0 /\ FirstPMapPos % PageSize = 0
<1>1. PageSize % PageSize = 0
  BY GeometryAssumption, MultipleMod DEF GeometryAssumption
<1>2. FirstAMapPos % PageSize = 0 /\ FirstAMapPos \in Nat
  BY <1>1, GeometryAssumption, SumMod DEF GeometryAssumption, FirstAMapPos
<1>3. FirstPMapPos % PageSize = 0
  BY <1>1, <1>2, GeometryAssumption, SumMod DEF GeometryAssumption, FirstPMapPos
<1> QED
  BY <1>2, <1>3, GeometryAssumption
     DEF GeometryAssumption, FirstAMapPos, FirstPMapPos, FirstDataPos

\* AMapPos and MapOf name the span an offset lies in.
LEMMA SpanOf ==
  ASSUME NEW ib \in Nat, ib >= FirstAMapPos
  PROVE  /\ MapOf(ib) \in Nat
         /\ AMapPos(MapOf(ib)) <= ib
         /\ ib < AMapPos(MapOf(ib) + 1)
         /\ AMapPos(MapOf(ib) + 1) \in Nat
<1> DEFINE d == ib - FirstAMapPos
           m == d \div AMapSpan
<1>1. d \in Nat /\ ib = FirstAMapPos + d
  BY Positions
<1>2. MapOf(ib) = m
  BY DEF MapOf
<1> HIDE DEF d
<1>3. d = AMapSpan * m + (d % AMapSpan) /\ d % AMapSpan \in 0 .. (AMapSpan - 1) /\ m \in Nat
  BY <1>1, Positions, DivMod
<1> HIDE DEF m
<1>4. m * AMapSpan \in Nat /\ (m + 1) * AMapSpan = m * AMapSpan + AMapSpan
      /\ m * AMapSpan = AMapSpan * m
  BY <1>3, Positions
<1> QED
  BY <1>1, <1>2, <1>3, <1>4, Positions DEF AMapPos

\* The position of every allocation map is reserved.
LEMMA AMapReserved ==
  ASSUME NEW i \in Nat
  PROVE  AMapPos(i) \in Nat /\ AMapPos(i) >= FirstAMapPos /\ isReservedPage(AMapPos(i))
<1> DEFINE d == i * AMapSpan
<1>1. d \in Nat
  BY Positions
<1>0. d % AMapSpan = 0
  BY Positions, MultipleMod
<1>2. AMapPos(i) = FirstAMapPos + d
  BY DEF AMapPos
<1> HIDE DEF d
<1>3. AMapPos(i) \in Nat /\ AMapPos(i) >= FirstAMapPos /\ AMapPos(i) - FirstAMapPos = d
  BY <1>1, <1>2, Positions
<1> QED
  BY <1>0, <1>3 DEF isReservedPage

\* Reserved pages sit on page boundaries, so the scan of allocate(), which
\* only looks at page boundaries, misses none of them (ndb.cpp:56-58).
LEMMA ReservedAligned ==
  ASSUME NEW p \in Nat, isReservedPage(p)
  PROVE  p % PageSize = 0
<1>1. CASE p = DListPos
  BY <1>1, GeometryAssumption DEF GeometryAssumption
<1>2. CASE p >= FirstAMapPos /\ (p - FirstAMapPos) % AMapSpan = 0
  <2>1. p - FirstAMapPos \in Nat /\ p = FirstAMapPos + (p - FirstAMapPos)
    BY <1>2, Positions
  <2>2. (p - FirstAMapPos) % PageSize = 0
    BY <1>2, <2>1, Positions, GeometryAssumption, ChainMod DEF GeometryAssumption
  <2> DEFINE d == p - FirstAMapPos
  <2> HIDE DEF d
  <2>3. (FirstAMapPos + d) % PageSize = 0
    BY <2>1, <2>2, Positions, GeometryAssumption, SumMod DEF GeometryAssumption, d
  <2> QED
    BY <2>1, <2>3 DEF d
<1>3. CASE p >= FirstPMapPos /\ (p - FirstPMapPos) % PMapSpan = 0
  <2>1. p - FirstPMapPos \in Nat /\ p = FirstPMapPos + (p - FirstPMapPos)
    BY <1>3, Positions
  <2>2. (p - FirstPMapPos) % AMapSpan = 0
    BY <1>3, <2>1, Positions, GeometryAssumption, ChainMod DEF GeometryAssumption
  <2>3. (p - FirstPMapPos) % PageSize = 0
    BY <2>1, <2>2, Positions, GeometryAssumption, ChainMod DEF GeometryAssumption
  <2> DEFINE d == p - FirstPMapPos
  <2> HIDE DEF d
  <2>4. (FirstPMapPos + d) % PageSize = 0
    BY <2>1, <2>3, Positions, GeometryAssumption, SumMod DEF GeometryAssumption, d
  <2> QED
    BY <2>1, <2>4 DEF d
<1> QED
  BY <1>1, <1>2, <1>3 DEF isReservedPage

----------------------------------------------------------------------------
(* Type correctness.                                                       *)

\* A request and the phase it is made in go together.
ReqInv ==
  /\ \/ req = NoReq
     \/ req.kind \in {"block", "page"} /\ req.n \in Nat \ {0}
  /\ req.kind = "block" => phase = "open"
  /\ req.kind = "page"  => phase \in {"nbt", "bbt"} /\ req.n = PageSize

TypeInv == TypeOK /\ ReqInv

\* Outside allocate() there is no request, and that is a request of its own kind.
LEMMA NoReqFacts ==
  NoReq \in Requests /\ NoReq.kind = "none"
  BY DEF NoReq, Requests

\* Four consecutive values belong to each counter value, so that two BIDs drawn
\* from different counter values differ whatever their internal bits.
LEMMA MakeBidNat ==
  ASSUME NEW k \in Nat, NEW b \in BOOLEAN
  PROVE  makeBid(k, b) \in Nat /\ 4 * k <= makeBid(k, b) /\ makeBid(k, b) < 4 * (k + 1)
  BY DEF makeBid

\* What a write may do to the stream, whatever its outcome.
LEMMA WriteTypes ==
  ASSUME TypeOK, NEW ib \in Nat, writeAtOk(ib) \/ writeAtThrows
  PROVE  io' \in [disk : SUBSET Nat, buf : SUBSET Nat, bad : BOOLEAN]
<1>1. CASE writeAtOk(ib)
  <2>1. PICK held \in SUBSET {ib} :
          io' = [disk |-> io.disk \cup io.buf \cup ({ib} \ held), buf |-> held, bad |-> FALSE]
    BY <1>1 DEF writeAtOk
  <2>2. io.disk \cup io.buf \cup ({ib} \ held) \in SUBSET Nat /\ held \in SUBSET Nat
    BY DEF TypeOK
  <2> QED
    BY <2>1, <2>2
<1>2. CASE writeAtThrows
  BY <1>2 DEF writeAtThrows, TypeOK
<1> QED
  BY <1>1, <1>2

\* Marking bits keeps the maps a set of slots.
LEMMA MarkTypes ==
  ASSUME TypeOK, cursor >= FirstDataPos, req \in Requests, allocate
  PROVE  cursor' \in Nat /\ amapCount' \in Nat /\ marked' \subseteq Nat /\ nextBid' \in Nat
         /\ req' = NoReq
<1>1. MapOf(cursor) \in Nat
  BY SpanOf, Positions DEF TypeOK
<1>2. MarkBits(cursor, req.n) \subseteq Nat
  BY DEF MarkBits, Slots, TypeOK, Requests
<1>3. ASSUME NEW i \in Nat
      PROVE  ReservedBits(i) \subseteq Nat
  <2>1. AMapPos(i) \in Nat
    BY AMapReserved
  <2>2. ASSUME NEW p \in Nat PROVE MarkBits(p, PageSize) \subseteq Nat
    BY GeometryAssumption DEF MarkBits, Slots, GeometryAssumption
  <2>3. Slots(AMapPos(i), AMapSpan) \subseteq Nat /\ FirstPMapPos \in Nat
    BY <2>1, Positions DEF Slots
  <2> QED
    BY <2>1, <2>2, <2>3 DEF ReservedBits
<1>4. ensureAMapCount(MapOf(cursor)) \subseteq Nat
  <2>1. amapCount .. MapOf(cursor) \subseteq Nat
    <3>1. amapCount \in Nat
      BY DEF TypeOK
    <3> QED
      BY <1>1, <3>1
  <2> SUFFICES ASSUME NEW s \in ensureAMapCount(MapOf(cursor)) PROVE s \in Nat
    OBVIOUS
  <2>2. PICK i \in amapCount .. MapOf(cursor) : s \in ReservedBits(i)
    BY DEF ensureAMapCount
  <2> QED
    BY <2>1, <2>2, <1>3
<1>5. marked' = marked \cup ensureAMapCount(MapOf(cursor)) \cup MarkBits(cursor, req.n)
      /\ amapCount' = IF amapCount < MapOf(cursor) + 1 THEN MapOf(cursor) + 1 ELSE amapCount
  BY DEF allocate, markAllocated
<1>6. marked' \subseteq Nat
  BY <1>2, <1>4, <1>5 DEF TypeOK
<1>7. amapCount' \in Nat
  BY <1>1, <1>5 DEF TypeOK
<1> QED
  BY <1>6, <1>7 DEF allocate, TypeOK, Requests

\* Fixed pages are written past the header.
LEMMA FixedPositions ==
  ASSUME NEW i \in Nat, amapCount \in Nat
  PROVE  FixedPos(i) \in Nat \ {0}
<1>1. CASE i = 0
  BY <1>1, Positions, GeometryAssumption DEF FixedPos, GeometryAssumption
<1>2. CASE i \in 1..amapCount
  <2> DEFINE j == i - 1
  <2>1. j \in Nat
    BY <1>2
  <2>2. FixedPos(i) = AMapPos(j)
    BY <1>2 DEF FixedPos
  <2> HIDE DEF j
  <2>3. AMapPos(j) \in Nat /\ AMapPos(j) >= FirstAMapPos
    BY <2>1, AMapReserved
  <2>4. FirstAMapPos \in Nat /\ FirstAMapPos > 0
    BY Positions, GeometryAssumption DEF GeometryAssumption
  <2> QED
    BY <2>2, <2>3, <2>4
<1>3. CASE i # 0 /\ i \notin 1..amapCount
  <2>1. i - 1 - amapCount \in Nat
    BY <1>3
  <2>2. (i - 1 - amapCount) * PMapSpan \in Nat
    BY <2>1, GeometryAssumption DEF GeometryAssumption
  <2>3. FixedPos(i) = FirstPMapPos + (i - 1 - amapCount) * PMapSpan
    BY <1>3 DEF FixedPos
  <2> QED
    BY <2>2, <2>3, Positions
<1> QED
  BY <1>1, <1>2, <1>3

\* The request in progress never outlives its phase, and every action keeps the
\* types; the cursor bound is the part of the argument that involves space.
LEMMA TypeStep ==
  ASSUME TypeInv, cursor >= FirstDataPos, [Next]_vars
  PROVE  TypeInv' /\ cursor' >= FirstDataPos
<1> USE DEF TypeInv
<1>a. cursor \in Nat /\ PageSize \in Nat \ {0} /\ FirstDataPos \in Nat
  BY Positions, GeometryAssumption DEF TypeOK, GeometryAssumption
<1>1. ASSUME NEW shape \in BlockShapes, emitBlock(shape[1], shape[2])
      PROVE  TypeInv' /\ cursor' >= FirstDataPos
  <2>1. shape[1] \in Nat \ {0} /\ shape[2] \in BOOLEAN
    BY GeometryAssumption DEF GeometryAssumption
  <2>2. req' \in Requests /\ req'.kind = "block" /\ req'.n \in Nat \ {0}
    BY <1>1, <2>1 DEF emitBlock, Requests
  <2> QED
    BY <1>1, <2>2 DEF emitBlock, TypeOK, ReqInv
<1>2. CASE SkipReserved
  <2>1. PICK p \in Clash : cursor' = p + PageSize
    BY <1>2 DEF SkipReserved
  <2>2. req.n \in Nat /\ p \in Int /\ p >= cursor - PageSize + 1
    BY <1>a DEF Clash, TypeOK, Requests
  <2>3. cursor' \in Nat /\ cursor' >= FirstDataPos
    BY <1>a, <2>1, <2>2
  <2> QED
    BY <1>2, <2>3 DEF SkipReserved, TypeOK, ReqInv
<1>3. CASE BlockWritten
  <2>1. cursor' \in Nat /\ amapCount' \in Nat /\ marked' \subseteq Nat /\ nextBid' \in Nat
        /\ req' = NoReq /\ cursor' >= FirstDataPos
    BY <1>3, <1>a, MarkTypes DEF BlockWritten, TypeOK, allocate, Requests
  <2>2. io' \in [disk : SUBSET Nat, buf : SUBSET Nat, bad : BOOLEAN]
    BY <1>3, <1>a, WriteTypes DEF BlockWritten
  <2>3. makeBid(nextBid, req.internal) \in Nat /\ req.n \in Nat
    BY MakeBidNat DEF TypeOK, Requests
  <2>4. bbt' \subseteq [bid : Nat, ib : Nat, n : Nat]
    BY <1>3, <1>a, <2>3 DEF BlockWritten, TypeOK
  <2>5. ReqInv'
    BY <2>1 DEF ReqInv, NoReq
  <2>6. UNCHANGED <<nbt, pages, phase, fixedDone>> /\ req' \in Requests
    BY <1>3, <2>1, NoReqFacts DEF BlockWritten
  <2> QED
    BY <2>1, <2>2, <2>4, <2>5, <2>6 DEF TypeOK
<1>4. ASSUME NEW nid \in Nids, NEW b \in bbt, addNode(nid, b.bid)
      PROVE  TypeInv' /\ cursor' >= FirstDataPos
  <2>1. nid \in Nat /\ b.bid \in Nat
    BY TreeAssumption DEF TreeAssumption, TypeOK
  <2>2. nbt' \subseteq [nid : Nat, data : Nat]
    BY <1>4, <2>1 DEF addNode, TypeOK
  <2> QED
    BY <1>4, <2>2 DEF addNode, TypeOK, ReqInv
<1>5. CASE finish
  BY <1>5, NoReqFacts DEF finish, TypeOK, ReqInv, Phases
<1>6. CASE allocatePage
  <2>1. cursor' \in Nat /\ cursor' >= FirstDataPos
    BY <1>6, <1>a, AlignUpIsAligned DEF allocatePage
  <2>2. req' \in Requests /\ req'.kind = "page" /\ req'.n = PageSize
    BY <1>6, <1>a DEF allocatePage, Requests
  <2> QED
    BY <1>6, <1>a, <2>1, <2>2 DEF allocatePage, TypeOK, ReqInv
<1>7. CASE PageWritten
  <2>1. cursor' \in Nat /\ amapCount' \in Nat /\ marked' \subseteq Nat /\ nextBid' \in Nat
        /\ req' = NoReq /\ cursor' >= FirstDataPos
    BY <1>7, <1>a, MarkTypes DEF PageWritten, TypeOK, allocate, Requests
  <2>2. io' \in [disk : SUBSET Nat, buf : SUBSET Nat, bad : BOOLEAN]
    BY <1>7, <1>a, WriteTypes DEF PageWritten
  <2>3. makeBid(nextBid, FALSE) \in Nat
    BY MakeBidNat DEF TypeOK
  <2>4. \A p \in pages' : p.bid \in Nat /\ p.ib \in Nat
    <3> DEFINE page == [bid |-> makeBid(nextBid, FALSE), ib |-> cursor, tree |-> phase,
                        level |-> build.level, entries |-> NextChunk]
    <3>1. page.bid \in Nat /\ page.ib \in Nat
      BY <1>a, <2>3
    <3>2. pages' = pages \/ pages' = pages \cup {page}
      BY <1>7 DEF PageWritten
    <3> HIDE DEF page
    <3> QED
      BY <3>1, <3>2 DEF TypeOK
  <2>5. phase' \in Phases
    BY <1>7 DEF PageWritten, AfterPage, TypeOK, ReqInv, Phases
  <2>6. ReqInv'
    BY <2>1 DEF ReqInv, NoReq
  <2>7. UNCHANGED <<bbt, nbt, fixedDone>> /\ req' \in Requests
    BY <1>7, <2>1, NoReqFacts DEF PageWritten
  <2> QED
    BY <2>1, <2>2, <2>4, <2>5, <2>6, <2>7 DEF TypeOK
<1>8. CASE Pad
  <2>1. io' \in [disk : SUBSET Nat, buf : SUBSET Nat, bad : BOOLEAN]
    BY <1>8, <1>a, WriteTypes DEF Pad, TypeOK
  <2> QED
    BY <1>8, <2>1 DEF Pad, TypeOK, ReqInv, Phases
<1>9. CASE emitFixedPages
  <2>1. FixedPos(fixedDone) \in Nat
    BY FixedPositions DEF TypeOK
  <2>2. io' \in [disk : SUBSET Nat, buf : SUBSET Nat, bad : BOOLEAN]
    BY <1>9, <2>1, WriteTypes DEF emitFixedPages
  <2>3. nextBid' \in Nat /\ fixedDone' \in Nat /\ phase' \in Phases
    BY <1>9 DEF emitFixedPages, TypeOK, Phases
  <2> QED
    BY <1>9, <2>2, <2>3 DEF emitFixedPages, TypeOK, ReqInv
<1>10. CASE writeHeader
  <2>1. io' \in [disk : SUBSET Nat, buf : SUBSET Nat, bad : BOOLEAN]
    BY <1>10, WriteTypes DEF writeHeader, HeaderPos
  <2> QED
    BY <1>10, <2>1 DEF writeHeader, TypeOK, ReqInv, Phases
<1>11. CASE Flush
  <2>1. io' \in [disk : SUBSET Nat, buf : SUBSET Nat, bad : BOOLEAN]
    <3>1. io.disk \cup io.buf \in SUBSET Nat /\ {} \in SUBSET Nat
      BY DEF TypeOK
    <3>2. CASE io' = [disk |-> io.disk \cup io.buf, buf |-> {}, bad |-> FALSE]
      BY <3>1, <3>2
    <3>3. CASE writeAtThrows
      BY <3>3 DEF TypeOK, writeAtThrows
    <3> QED
      BY <1>11, <3>2, <3>3 DEF Flush
  <2> QED
    BY <1>11, <2>1 DEF Flush, TypeOK, ReqInv, Phases
<1>12. CASE Abandon
  <2>1. io' \in [disk : SUBSET Nat, buf : SUBSET Nat, bad : BOOLEAN]
    BY <1>12 DEF Abandon, TypeOK
  <2> QED
    BY <1>12, <2>1, NoReqFacts DEF Abandon, TypeOK, ReqInv, Phases
<1>13. CASE UNCHANGED vars
  BY <1>13 DEF vars, TypeOK, ReqInv
<1> QED
  BY <1>1, <1>2, <1>3, <1>4, <1>5, <1>6, <1>7, <1>8, <1>9, <1>10, <1>11, <1>12, <1>13
     DEF Next

----------------------------------------------------------------------------
(* Space.                                                                  *)

\* A step either leaves the extents and the maps alone, or is the end of one
\* allocate() call, whose range becomes an extent if the write succeeds.
LEMMA ExtentsStep ==
  ASSUME TypeInv, cursor >= FirstDataPos, [Next]_vars
  PROVE  \/ /\ Extents' = Extents /\ amapCount' = amapCount /\ marked' = marked
            /\ cursor' >= cursor /\ nextBid' >= nextBid
         \/ /\ allocate /\ req # NoReq
            /\ \/ Extents' = Extents
               \/ \E b \in BOOLEAN :
                    Extents' = Extents \cup
                      {[bid |-> makeBid(nextBid, b), ib |-> cursor, n |-> req.n]}
<1> USE DEF TypeInv
<1>a. cursor \in Nat /\ PageSize \in Nat \ {0} /\ nextBid \in Nat
  BY GeometryAssumption DEF TypeOK, GeometryAssumption
<1>b. ASSUME UNCHANGED <<bbt, pages>> PROVE Extents' = Extents
  BY <1>b DEF Extents
<1>1. CASE BlockWritten
  <2>1. allocate /\ req # NoReq /\ req.internal \in BOOLEAN
    BY <1>1, NoReqFacts DEF BlockWritten, TypeOK, Requests
  <2>2. CASE bbt' = bbt
    BY <1>1, <1>b, <2>1, <2>2 DEF BlockWritten
  <2>3. CASE bbt' = bbt \cup {[bid |-> makeBid(nextBid, req.internal), ib |-> cursor,
                               n |-> req.n]}
    <3>1. pages' = pages
      BY <1>1 DEF BlockWritten
    <3>2. Extents' = Extents \cup {[bid |-> makeBid(nextBid, req.internal), ib |-> cursor,
                                    n |-> req.n]}
      BY <2>3, <3>1 DEF Extents
    <3> QED
      BY <2>1, <3>2
  <2> QED
    BY <1>1, <2>2, <2>3 DEF BlockWritten
<1>2. CASE PageWritten
  <2> DEFINE page == [bid |-> makeBid(nextBid, FALSE), ib |-> cursor, tree |-> phase,
                      level |-> build.level, entries |-> NextChunk]
  <2>1. allocate /\ req # NoReq /\ req.n = PageSize /\ bbt' = bbt
    BY <1>2, NoReqFacts DEF PageWritten, ReqInv
  <2>2. CASE pages' = pages
    BY <1>2, <1>b, <2>1, <2>2
  <2>3. CASE pages' = pages \cup {page}
    <3>1. page.bid = makeBid(nextBid, FALSE) /\ page.ib = cursor
      OBVIOUS
    <3> HIDE DEF page
    <3>2. Extents' = Extents \cup {[bid |-> makeBid(nextBid, FALSE), ib |-> cursor, n |-> req.n]}
      BY <2>1, <2>3, <3>1 DEF Extents
    <3> QED
      BY <2>1, <3>2
  <2> QED
    BY <1>2, <2>2, <2>3 DEF PageWritten
<1>3. CASE SkipReserved
  <2>1. PICK p \in Clash : cursor' = p + PageSize
    BY <1>3 DEF SkipReserved
  <2>2. p \in Int /\ p >= cursor - PageSize + 1
    BY <1>a DEF Clash, TypeOK, Requests
  <2> QED
    BY <1>3, <1>a, <1>b, <2>1, <2>2 DEF SkipReserved
<1>4. CASE allocatePage
  <2>1. cursor' >= cursor
    BY <1>4, <1>a, AlignUpIsAligned DEF allocatePage
  <2> QED
    BY <1>4, <1>a, <1>b, <2>1 DEF allocatePage
<1>5. CASE emitFixedPages
  BY <1>5, <1>a, <1>b DEF emitFixedPages
<1>6. ASSUME NEW shape \in BlockShapes, emitBlock(shape[1], shape[2])
      PROVE  UNCHANGED <<cursor, amapCount, marked, nextBid, bbt, pages>>
  BY <1>6 DEF emitBlock
<1>7. ASSUME NEW nid \in Nids, NEW b \in bbt, addNode(nid, b.bid)
      PROVE  UNCHANGED <<cursor, amapCount, marked, nextBid, bbt, pages>>
  BY <1>7 DEF addNode
<1>8. ASSUME finish \/ Pad \/ writeHeader \/ Flush \/ Abandon \/ UNCHANGED vars
      PROVE  UNCHANGED <<cursor, amapCount, marked, nextBid, bbt, pages>>
  BY <1>8 DEF finish, Pad, writeHeader, Flush, Abandon, vars
<1>9. ASSUME UNCHANGED <<cursor, amapCount, marked, nextBid, bbt, pages>>
      PROVE  /\ Extents' = Extents /\ amapCount' = amapCount /\ marked' = marked
             /\ cursor' >= cursor /\ nextBid' >= nextBid
  BY <1>9, <1>a, <1>b
<1> QED
  BY <1>1, <1>2, <1>3, <1>4, <1>5, <1>6, <1>7, <1>8, <1>9 DEF Next

\* Extents lie between the fixed region and the cursor, and their BIDs come
\* from the counter.
SpaceInv ==
  /\ cursor >= FirstDataPos
  /\ \A x \in Extents : /\ x.ib \in Nat /\ x.n \in Nat \ {0} /\ x.bid \in Nat
                        /\ FirstDataPos <= x.ib /\ x.ib + x.n <= cursor
                        /\ x.bid < 4 * nextBid

\* What allocate() returns when its scan finds no clash: a range that touches
\* no reserved page, and that therefore ends inside the span it starts in.
LEMMA AllocateClear ==
  ASSUME TypeInv, cursor >= FirstDataPos, req # NoReq, allocate
  PROVE  /\ \A p \in (cursor - PageSize + 1) .. (cursor + req.n - 1) : ~isReservedPage(p)
         /\ cursor + req.n <= AMapPos(MapOf(cursor) + 1)
         /\ req.n \in Nat \ {0}
<1>a. cursor \in Nat /\ PageSize \in Nat \ {0} /\ req.n \in Nat \ {0}
  BY GeometryAssumption DEF GeometryAssumption, TypeInv, TypeOK, ReqInv
<1>b. cursor >= FirstPMapPos + PageSize /\ FirstPMapPos \in Nat
  BY Positions DEF FirstDataPos
<1>1. ASSUME NEW p \in (cursor - PageSize + 1) .. (cursor + req.n - 1), isReservedPage(p)
      PROVE  FALSE
  <2>1. p \in Nat
    BY <1>a, <1>b, <1>1
  <2>2. p % PageSize = 0
    BY <1>1, <2>1, ReservedAligned
  <2> QED
    BY <1>1, <2>2 DEF allocate, Clash
<1>2. cursor + req.n <= AMapPos(MapOf(cursor) + 1)
  <2> DEFINE m == MapOf(cursor) + 1
             q == AMapPos(m)
  <2>1. m \in Nat /\ q \in Nat /\ cursor < q
    BY <1>a, Positions, SpanOf
  <2> HIDE DEF m
  <2>2. isReservedPage(q)
    BY <2>1, AMapReserved
  <2> HIDE DEF q
  <2>3. q \notin (cursor - PageSize + 1) .. (cursor + req.n - 1)
    BY <2>2, <1>1
  <2>4. cursor + req.n <= q
    BY <1>a, <2>1, <2>3
  <2> QED
    BY <2>4 DEF q, m
<1> QED
  BY <1>1, <1>2, <1>a

\* The part of the invariant that only needs the cursor to move forward.
LEMMA SpaceStep ==
  ASSUME TypeInv, SpaceInv, [Next]_vars
  PROVE  SpaceInv'
<1>a. cursor \in Nat /\ nextBid \in Nat /\ FirstDataPos \in Nat
  BY Positions DEF TypeInv, TypeOK
<1>b. cursor >= FirstDataPos
  BY DEF SpaceInv
<1>c. cursor' \in Nat /\ nextBid' \in Nat /\ cursor' >= FirstDataPos
  BY <1>b, TypeStep DEF TypeInv, TypeOK
<1>1. CASE Extents' = Extents /\ cursor' >= cursor /\ nextBid' >= nextBid
  BY <1>1, <1>a, <1>c DEF SpaceInv
<1>2. CASE allocate /\ req # NoReq
  <2>1. cursor' = cursor + req.n /\ nextBid' = nextBid + 1 /\ req.n \in Nat \ {0}
    BY <1>2, <1>b, AllocateClear DEF allocate
  <2>2. CASE Extents' = Extents
    BY <1>1, <1>a, <2>1, <2>2
  <2>3. ASSUME NEW b \in BOOLEAN,
               Extents' = Extents \cup
                 {[bid |-> makeBid(nextBid, b), ib |-> cursor, n |-> req.n]}
        PROVE  SpaceInv'
    <3> DEFINE new == [bid |-> makeBid(nextBid, b), ib |-> cursor, n |-> req.n]
    <3>1. new.bid \in Nat /\ new.bid < 4 * (nextBid + 1) /\ new.ib = cursor /\ new.n = req.n
      BY <1>a, MakeBidNat
    <3>2. Extents' = Extents \cup {new}
      BY <2>3
    <3> HIDE DEF new
    <3>3. \A x \in Extents' : /\ x.ib \in Nat /\ x.n \in Nat \ {0} /\ x.bid \in Nat
                              /\ FirstDataPos <= x.ib /\ x.ib + x.n <= cursor'
                              /\ x.bid < 4 * nextBid'
      BY <1>a, <1>b, <2>1, <3>1, <3>2 DEF SpaceInv
    <3> QED
      BY <3>3, <1>c DEF SpaceInv
  <2> QED
    BY <1>1, <1>2, <1>b, <2>1, <2>2, <2>3, ExtentsStep
<1> QED
  BY <1>1, <1>2, <1>b, ExtentsStep

\* A new extent starts at the old cursor, past every other one, and meets no
\* reserved page.
LEMMA NoOverlapStep ==
  ASSUME TypeInv, SpaceInv, NoOverlap, [Next]_vars
  PROVE  NoOverlap'
<1>b. cursor >= FirstDataPos /\ cursor \in Nat
  BY DEF SpaceInv, TypeInv, TypeOK
<1>1. CASE Extents' = Extents
  BY <1>1 DEF NoOverlap, Apart
<1>2. ASSUME allocate, req # NoReq, NEW b \in BOOLEAN,
             Extents' = Extents \cup
               {[bid |-> makeBid(nextBid, b), ib |-> cursor, n |-> req.n]}
      PROVE  NoOverlap'
  <2> DEFINE new == [bid |-> makeBid(nextBid, b), ib |-> cursor, n |-> req.n]
  <2>1. new.ib = cursor /\ new.n = req.n /\ Extents' = Extents \cup {new}
    BY <1>2
  <2>2. req.n \in Nat \ {0}
        /\ \A p \in (cursor - PageSize + 1) .. (cursor + req.n - 1) : ~isReservedPage(p)
    BY <1>2, <1>b, AllocateClear
  <2> HIDE DEF new
  <2>3. \A x \in Extents : Apart(x.ib, x.n, new.ib, new.n) /\ Apart(new.ib, new.n, x.ib, x.n)
    BY <1>b, <2>1, <2>2 DEF SpaceInv, Apart
  <2>4. \A x, y \in Extents' : x = y \/ Apart(x.ib, x.n, y.ib, y.n)
    BY <2>1, <2>3 DEF NoOverlap
  <2>5. \A x \in Extents' :
          \A p \in (x.ib - PageSize + 1) .. (x.ib + x.n - 1) : ~isReservedPage(p)
    BY <2>1, <2>2 DEF NoOverlap
  <2> QED
    BY <2>4, <2>5 DEF NoOverlap, Apart
<1> QED
  BY <1>1, <1>2, <1>b, ExtentsStep

\* Creating a map marks reserved pages only.
LEMMA ReservedBitsReserved ==
  ASSUME NEW i \in Nat, NEW s \in ReservedBits(i)
  PROVE  s \in Nat /\ \E p \in (s - PageSize + 1) .. s : isReservedPage(p)
<1>a. AMapPos(i) \in Nat /\ AMapPos(i) >= FirstAMapPos /\ isReservedPage(AMapPos(i))
  BY AMapReserved
<1>b. PageSize \in Nat \ {0} /\ PMapSpan \in Nat \ {0}
  BY GeometryAssumption DEF GeometryAssumption
<1>1. ASSUME NEW p \in Nat, isReservedPage(p), s \in MarkBits(p, PageSize)
      PROVE  s \in Nat /\ \E q \in (s - PageSize + 1) .. s : isReservedPage(q)
  <2>1. s \in p .. (p + PageSize - 1)
    BY <1>1 DEF MarkBits, Slots
  <2>2. s \in Nat /\ p \in (s - PageSize + 1) .. s
    BY <1>b, <2>1
  <2> QED
    BY <1>1, <2>2
<1>2. CASE i = 0
  <2>1. 0 % PMapSpan = 0
    BY <1>b
  <2>2. FirstPMapPos - FirstPMapPos = 0
    BY Positions
  <2>3. FirstPMapPos \in Nat /\ isReservedPage(FirstPMapPos)
    BY <2>1, <2>2, Positions DEF isReservedPage
  <2>4. s \in MarkBits(AMapPos(i), PageSize) \/ s \in MarkBits(FirstPMapPos, PageSize)
    BY <1>2 DEF ReservedBits
  <2> QED
    BY <1>1, <1>a, <2>3, <2>4
<1>3. CASE i # 0 /\ s \notin MarkBits(AMapPos(i), PageSize)
  <2>1. PICK p \in Slots(AMapPos(i), AMapSpan) :
          (p - FirstPMapPos) % PMapSpan = 0 /\ s \in MarkBits(p, PageSize)
    BY <1>3 DEF ReservedBits
  <2>2. AMapPos(i) >= FirstPMapPos
    <3>1. i * AMapSpan >= AMapSpan /\ i * AMapSpan \in Nat
      BY <1>3, Positions
    <3> QED
      BY <3>1, <1>b, Positions DEF AMapPos, FirstPMapPos
  <2>3. p \in Nat /\ p >= FirstPMapPos
    BY <1>a, <2>1, <2>2, Positions DEF Slots
  <2>4. isReservedPage(p)
    BY <2>1, <2>3 DEF isReservedPage
  <2> QED
    BY <1>1, <2>1, <2>3, <2>4
<1>4. CASE s \in MarkBits(AMapPos(i), PageSize)
  BY <1>1, <1>a, <1>4
<1> QED
  BY <1>2, <1>3, <1>4

\* Every slot of the new extent is marked, because it ends inside its span, and
\* the only marks ahead of the cursor are those of reserved pages.
LEMMA MapsStep ==
  ASSUME TypeInv, SpaceInv, MapsTruthful, [Next]_vars
  PROVE  MapsTruthful'
<1> DEFINE Ahead(s) == \E p \in (s - PageSize + 1) .. s : isReservedPage(p)
<1>a. cursor \in Nat /\ cursor >= FirstDataPos /\ marked \subseteq Nat /\ amapCount \in Nat
  BY DEF SpaceInv, TypeInv, TypeOK
<1>b. cursor' \in Nat
  BY <1>a, TypeStep DEF TypeInv, TypeOK
<1>c. MapsTruthful <=> /\ \A x \in Extents : Slots(x.ib, x.n) \subseteq marked
                       /\ \A s \in marked : s < cursor \/ Ahead(s)
  BY DEF MapsTruthful
<1>d. MapsTruthful' <=> /\ \A x \in Extents' : Slots(x.ib, x.n) \subseteq marked'
                        /\ \A s \in marked' : s < cursor' \/ Ahead(s)
  BY DEF MapsTruthful, Slots
<1> HIDE DEF Ahead
<1>1. CASE Extents' = Extents /\ marked' = marked /\ cursor' >= cursor
  BY <1>1, <1>a, <1>b, <1>c, <1>d
<1>2. CASE allocate /\ req # NoReq
  <2>1. /\ cursor' = cursor + req.n /\ req.n \in Nat \ {0}
        /\ cursor + req.n <= AMapPos(MapOf(cursor) + 1)
        /\ marked' = marked \cup ensureAMapCount(MapOf(cursor)) \cup MarkBits(cursor, req.n)
    BY <1>2, <1>a, AllocateClear DEF allocate, markAllocated
  <2>2. MapOf(cursor) \in Nat /\ AMapPos(MapOf(cursor) + 1) \in Nat
    BY <1>a, Positions, SpanOf
  <2>3. MarkBits(cursor, req.n) = Slots(cursor, req.n)
    BY <1>a, <2>1, <2>2 DEF MarkBits, Slots
  <2>4. ASSUME NEW s \in ensureAMapCount(MapOf(cursor))
        PROVE  Ahead(s)
    <3>1. PICK i \in amapCount .. MapOf(cursor) : s \in ReservedBits(i)
      BY DEF ensureAMapCount
    <3>2. i \in Nat
      BY <1>a, <2>2
    <3> QED
      BY <3>1, <3>2, ReservedBitsReserved DEF Ahead
  <2>5. \A s \in marked' : s < cursor' \/ Ahead(s)
    <3> SUFFICES ASSUME NEW s \in marked' PROVE s < cursor' \/ Ahead(s)
      OBVIOUS
    <3>1. CASE s \in marked
      <4>1. s \in Nat /\ (s < cursor \/ Ahead(s))
        BY <3>1, <1>a, <1>c
      <4> QED
        BY <4>1, <1>a, <2>1
    <3>2. CASE s \in ensureAMapCount(MapOf(cursor))
      BY <3>2, <2>4
    <3>3. CASE s \in Slots(cursor, req.n)
      BY <3>3, <1>a, <2>1 DEF Slots
    <3> QED
      BY <2>1, <2>3, <3>1, <3>2, <3>3
  <2>6. \A x \in Extents' : Slots(x.ib, x.n) \subseteq marked'
    <3>1. \A x \in Extents : Slots(x.ib, x.n) \subseteq marked'
      BY <1>c, <2>1
    <3>2. Slots(cursor, req.n) \subseteq marked'
      BY <2>1, <2>3
    <3>3. ASSUME NEW b \in BOOLEAN,
                 Extents' = Extents \cup
                   {[bid |-> makeBid(nextBid, b), ib |-> cursor, n |-> req.n]}
          PROVE  \A x \in Extents' : Slots(x.ib, x.n) \subseteq marked'
      <4> DEFINE new == [bid |-> makeBid(nextBid, b), ib |-> cursor, n |-> req.n]
      <4>1. new.ib = cursor /\ new.n = req.n /\ Extents' = Extents \cup {new}
        BY <3>3
      <4> HIDE DEF new
      <4> QED
        BY <3>1, <3>2, <4>1
    <3>4. cursor' # cursor
      BY <1>a, <2>1
    <3> QED
      BY <1>a, <3>1, <3>3, ExtentsStep
  <2> QED
    BY <1>d, <2>5, <2>6
<1> QED
  BY <1>1, <1>2, <1>a, ExtentsStep

----------------------------------------------------------------------------
(* Page alignment.                                                         *)

\* A page request starts from an aligned cursor, and stepping over a reserved
\* page, itself aligned, keeps it so.
AlignInv ==
  /\ req.kind = "page" => cursor % PageSize = 0
  /\ PagesAligned

\* Pages are allocated from an aligned cursor: allocatePage() aligns it, and
\* the reserved pages the loop of allocate() steps over are whole pages.
LEMMA AlignStep ==
  ASSUME TypeInv, cursor >= FirstDataPos, AlignInv, [Next]_vars
  PROVE  AlignInv'
<1>a. cursor \in Nat /\ PageSize \in Nat \ {0} /\ PageSize % PageSize = 0
  BY GeometryAssumption, MultipleMod DEF TypeInv, TypeOK, GeometryAssumption
<1>1. CASE allocatePage
  <2>1. cursor' % PageSize = 0 /\ pages' = pages
    BY <1>1, <1>a, AlignUpIsAligned DEF allocatePage
  <2> QED
    BY <2>1 DEF AlignInv, PagesAligned
<1>2. CASE SkipReserved
  <2>1. PICK p \in Clash : cursor' = p + PageSize
    BY <1>2 DEF SkipReserved
  <2>2. p \in Nat /\ p % PageSize = 0
    BY <1>a, Positions DEF Clash, TypeInv, TypeOK, Requests, FirstDataPos
  <2>3. cursor' % PageSize = 0
    BY <1>a, <2>1, <2>2, SumMod
  <2> QED
    BY <1>2, <2>3 DEF SkipReserved, AlignInv, PagesAligned
<1>3. CASE PageWritten
  <2> DEFINE page == [bid |-> makeBid(nextBid, FALSE), ib |-> cursor, tree |-> phase,
                      level |-> build.level, entries |-> NextChunk]
  <2>1. page.ib = cursor /\ cursor % PageSize = 0
    BY <1>3 DEF PageWritten, AlignInv
  <2>2. pages' = pages \/ pages' = pages \cup {page}
    BY <1>3 DEF PageWritten
  <2>3. req'.kind = "none"
    BY <1>3, NoReqFacts DEF PageWritten, allocate
  <2> HIDE DEF page
  <2>4. \A p \in pages' : p.ib % PageSize = 0
    BY <2>1, <2>2 DEF AlignInv, PagesAligned
  <2> QED
    BY <2>3, <2>4 DEF AlignInv, PagesAligned
<1>4. CASE BlockWritten
  <2>1. req'.kind = "none" /\ pages' = pages
    BY <1>4, NoReqFacts DEF BlockWritten, allocate
  <2> QED
    BY <2>1 DEF AlignInv, PagesAligned
<1>5. ASSUME NEW shape \in BlockShapes, emitBlock(shape[1], shape[2]) PROVE AlignInv'
  <2>1. req'.kind = "block" /\ pages' = pages
    BY <1>5 DEF emitBlock
  <2> QED
    BY <2>1 DEF AlignInv, PagesAligned
<1>6. ASSUME NEW nid \in Nids, NEW b \in bbt, addNode(nid, b.bid) PROVE AlignInv'
  BY <1>6 DEF addNode, AlignInv, PagesAligned
<1>7. CASE finish \/ Pad \/ emitFixedPages \/ writeHeader \/ Flush \/ Abandon \/ UNCHANGED vars
  BY <1>7 DEF finish, Pad, emitFixedPages, writeHeader, Flush, Abandon, vars,
              AlignInv, PagesAligned
<1> QED
  BY <1>1, <1>2, <1>3, <1>4, <1>5, <1>6, <1>7 DEF Next

----------------------------------------------------------------------------
(* The header comes last.                                                  *)

Stream == io.disk \cup io.buf

\* Every extent, and every fixed page written so far, is in the set S.
Holds(S) ==
  /\ \A x \in Extents : x.ib \in S
  /\ \A i \in 0 .. (fixedDone - 1) : FixedPos(i) \in S

Ended == {"flush", "closed", "broken", "aborted"}

\* While no write has failed the stream holds all that was written; the fixed
\* pages are complete when the header's turn comes; and from the moment the
\* header is in the stream everything else is on disk already.
DiskInv ==
  /\ ~io.bad => Holds(Stream)
  /\ fixedDone # 0 => phase \in {"fixed", "header"} \cup Ended
  /\ phase = "header" => fixedDone = FixedCount
  /\ HeaderPos \in Stream => phase \in Ended /\ fixedDone = FixedCount /\ Holds(io.disk)

\* A write adds at most its own offset to the stream and drops nothing from it.
LEMMA WriteEffect ==
  ASSUME TypeOK, NEW ib
  PROVE  /\ writeAtOk(ib) => /\ ~io.bad
                             /\ Stream' = Stream \cup {ib}
                             /\ Stream \subseteq io'.disk
         /\ writeAtThrows => /\ io'.bad = TRUE /\ io'.disk = io.disk /\ Stream' = Stream
<1>1. ASSUME writeAtOk(ib)
      PROVE  ~io.bad /\ Stream' = Stream \cup {ib} /\ Stream \subseteq io'.disk
  <2>1. PICK held \in SUBSET {ib} :
          io' = [disk |-> io.disk \cup io.buf \cup ({ib} \ held), buf |-> held, bad |-> FALSE]
    BY <1>1 DEF writeAtOk
  <2>2. io'.disk = io.disk \cup io.buf \cup ({ib} \ held) /\ io'.buf = held
    BY <2>1
  <2> QED
    BY <1>1, <2>2 DEF Stream, writeAtOk
<1>2. ASSUME writeAtThrows
      PROVE  io'.bad = TRUE /\ io'.disk = io.disk /\ Stream' = Stream
  BY <1>2 DEF writeAtThrows, Stream, TypeOK
<1> QED
  BY <1>1, <1>2

\* FixedPos and FixedCount depend on the maps and the cursor only.
LEMMA FixedStable ==
  ASSUME UNCHANGED <<cursor, amapCount>>
  PROVE  FixedCount' = FixedCount /\ \A i : FixedPos(i)' = FixedPos(i)
  BY DEF FixedCount, FixedPos, PMapCount, file_end

\* While finish() has not reached the fixed pages, an allocation adds at most
\* the extent it just wrote, at the cursor.
LEMMA DiskAllocate ==
  ASSUME TypeInv, SpaceInv, DiskInv, [Next]_vars, allocate, req # NoReq,
         phase \in {"open", "nbt", "bbt"}, fixedDone' = fixedDone,
         phase' # "header",
         \/ writeAtOk(cursor)
         \/ writeAtThrows
  PROVE  DiskInv'
<1>a. cursor \in Nat /\ cursor >= FirstDataPos /\ FirstDataPos \in Nat /\ FirstDataPos > 0
  BY Positions, GeometryAssumption DEF SpaceInv, TypeInv, TypeOK, GeometryAssumption
<1>b. fixedDone = 0 /\ fixedDone' = 0
  BY DEF DiskInv, Ended
<1>c. HeaderPos \notin Stream /\ HeaderPos # cursor
  BY <1>a DEF DiskInv, Ended, HeaderPos
<1>d. HeaderPos \notin Stream'
  BY <1>c, WriteEffect DEF TypeInv
<1>1. ~io'.bad => Holds(Stream)'
  <2> SUFFICES ASSUME ~io'.bad PROVE Holds(Stream)'
    OBVIOUS
  <2>1. ~io.bad /\ Stream' = Stream \cup {cursor}
    BY WriteEffect DEF TypeInv
  <2>2. \A x \in Extents : x.ib \in Stream
    BY <2>1 DEF DiskInv, Holds
  <2>3. \A x \in Extents' : x.ib \in Stream'
    <3>1. CASE Extents' = Extents
      BY <3>1, <2>1, <2>2
    <3>2. ASSUME NEW b \in BOOLEAN,
                 Extents' = Extents \cup
                   {[bid |-> makeBid(nextBid, b), ib |-> cursor, n |-> req.n]}
          PROVE  \A x \in Extents' : x.ib \in Stream'
      <4> DEFINE new == [bid |-> makeBid(nextBid, b), ib |-> cursor, n |-> req.n]
      <4>1. new.ib = cursor /\ Extents' = Extents \cup {new}
        BY <3>2
      <4> HIDE DEF new
      <4> QED
        BY <2>1, <2>2, <4>1
    <3> QED
      BY <1>a, <3>1, <3>2, ExtentsStep
  <2> QED
    BY <1>b, <2>3 DEF Holds
<1> QED
  BY <1>1, <1>b, <1>d DEF DiskInv

\* What is on disk or in the buffer stays there, the fixed pages come in order,
\* and offset 0 reaches the stream only in writeHeader(), after all of them.
LEMMA DiskStep ==
  ASSUME TypeInv, SpaceInv, DiskInv, [Next]_vars
  PROVE  DiskInv'
<1>a. cursor \in Nat /\ cursor >= FirstDataPos /\ FirstDataPos \in Nat /\ FirstDataPos > 0
      /\ TypeOK /\ fixedDone \in Nat /\ amapCount \in Nat
  BY Positions, GeometryAssumption DEF SpaceInv, TypeInv, TypeOK, GeometryAssumption
<1>1. CASE BlockWritten
  <2>1. allocate /\ req # NoReq /\ phase = "open" /\ UNCHANGED <<fixedDone, phase>>
    BY <1>1, NoReqFacts DEF BlockWritten, TypeInv, ReqInv
  <2> QED
    BY <1>1, <2>1, DiskAllocate DEF BlockWritten
<1>2. CASE PageWritten
  <2>1. allocate /\ req # NoReq /\ phase \in {"nbt", "bbt"} /\ fixedDone' = fixedDone
    BY <1>2, NoReqFacts DEF PageWritten, TypeInv, ReqInv
  <2>2. phase' # "header"
    BY <1>2, <2>1 DEF PageWritten, AfterPage
  <2> QED
    BY <1>2, <2>1, <2>2, DiskAllocate DEF PageWritten
<1>3. ASSUME UNCHANGED <<bbt, pages, cursor, amapCount>>
      PROVE  Extents' = Extents /\ FixedCount' = FixedCount /\ \A i : FixedPos(i)' = FixedPos(i)
  BY <1>3, FixedStable DEF Extents
<1>4. CASE Pad
  <2>1. UNCHANGED <<bbt, pages, cursor, amapCount, fixedDone>> /\ phase = "pad"
        /\ phase' \in {"fixed", "broken"}
    BY <1>4 DEF Pad
  <2>2. fixedDone = 0 /\ HeaderPos \notin Stream
    BY <2>1 DEF DiskInv, Ended
  <2>3. /\ Stream' = Stream \/ Stream' = Stream \cup {cursor}
        /\ ~io'.bad => ~io.bad
    BY <1>4, <1>a, WriteEffect DEF Pad, Stream
  <2>4. HeaderPos \notin Stream' /\ (~io'.bad => Holds(Stream)')
    BY <1>a, <1>3, <2>1, <2>2, <2>3 DEF DiskInv, Holds, HeaderPos
  <2> QED
    BY <2>1, <2>2, <2>4 DEF DiskInv
<1>5. CASE emitFixedPages
  <2>1. UNCHANGED <<bbt, pages, cursor, amapCount>> /\ phase = "fixed"
    BY <1>5 DEF emitFixedPages
  <2>2. HeaderPos \notin Stream
    BY <2>1 DEF DiskInv, Ended
  <2>3. FixedPos(fixedDone) \in Nat \ {0}
    BY <1>a, FixedPositions
  <2>4. CASE writeAtOk(FixedPos(fixedDone)) /\ fixedDone' = fixedDone + 1
             /\ phase' = IF fixedDone + 1 = FixedCount THEN "header" ELSE "fixed"
    <3>1. ~io.bad /\ Stream' = Stream \cup {FixedPos(fixedDone)}
      BY <2>4, <1>a, WriteEffect
    <3>2. HeaderPos \notin Stream'
      BY <2>2, <2>3, <3>1 DEF HeaderPos
    <3>3. Holds(Stream)'
      <4>1. \A i \in 0 .. (fixedDone' - 1) : i \in 0 .. (fixedDone - 1) \/ i = fixedDone
        BY <2>4, <1>a
      <4> QED
        BY <1>3, <2>1, <3>1, <4>1 DEF DiskInv, Holds
    <3> QED
      BY <1>3, <1>a, <2>1, <2>4, <3>2, <3>3 DEF DiskInv
  <2>5. CASE writeAtThrows /\ phase' = "broken" /\ UNCHANGED fixedDone
    <3>1. io'.bad = TRUE /\ Stream' = Stream
      BY <2>5, <1>a, WriteEffect
    <3> QED
      BY <2>2, <2>5, <3>1 DEF DiskInv, Ended
  <2> QED
    BY <1>5, <2>4, <2>5 DEF emitFixedPages
<1>6. CASE writeHeader
  <2>1. UNCHANGED <<bbt, pages, cursor, amapCount, fixedDone>> /\ phase = "header"
    BY <1>6 DEF writeHeader
  <2>2. fixedDone = FixedCount
    BY <2>1 DEF DiskInv
  <2>3. CASE writeAtOk(HeaderPos) /\ phase' = "flush"
    <3>1. ~io.bad /\ Stream' = Stream \cup {HeaderPos} /\ Stream \subseteq io'.disk
      BY <2>3, <1>a, WriteEffect
    <3>2. Holds(io.disk)' /\ Holds(Stream)'
      BY <1>3, <2>1, <3>1 DEF DiskInv, Holds
    <3> QED
      BY <1>3, <2>1, <2>2, <2>3, <3>2 DEF DiskInv, Ended
  <2>4. CASE writeAtThrows /\ phase' = "broken"
    <3>1. io'.bad = TRUE /\ Stream' = Stream /\ HeaderPos \notin Stream
      BY <2>1, <2>4, <1>a, WriteEffect DEF DiskInv, Ended
    <3> QED
      BY <2>1, <2>4, <3>1 DEF DiskInv, Ended
  <2> QED
    BY <1>6, <2>3, <2>4 DEF writeHeader
<1>7. ASSUME UNCHANGED <<bbt, pages, cursor, amapCount, fixedDone>>, phase \in Ended \cup {"open"},
             phase' \in Ended, Stream' = Stream, io.disk \subseteq io'.disk, ~io'.bad => ~io.bad
      PROVE  DiskInv'
  <2>1. (~io'.bad => Holds(Stream)') /\ (Holds(io.disk) => Holds(io.disk)')
    BY <1>3, <1>7 DEF DiskInv, Holds
  <2> QED
    BY <1>3, <1>7, <2>1 DEF DiskInv, Ended
<1>8. CASE Flush
  <2>1. io.disk \subseteq io'.disk /\ Stream' = Stream /\ (~io'.bad => ~io.bad)
    <3>1. CASE ~io.bad /\ io' = [disk |-> io.disk \cup io.buf, buf |-> {}, bad |-> FALSE]
      <4>1. io'.disk = io.disk \cup io.buf /\ io'.buf = {}
        BY <3>1
      <4> QED
        BY <3>1, <4>1 DEF Stream
    <3>2. CASE writeAtThrows
      BY <1>a, <3>2, WriteEffect
    <3> QED
      BY <1>8, <3>1, <3>2 DEF Flush
  <2> QED
    BY <1>7, <1>8, <2>1 DEF Flush, Ended
<1>9. CASE Abandon
  <2>1. PICK flushed \in SUBSET io.buf :
          io' = [io EXCEPT !.disk = @ \cup flushed, !.buf = @ \ flushed]
    BY <1>9 DEF Abandon
  <2>2. io'.disk = io.disk \cup flushed /\ io'.buf = io.buf \ flushed /\ io'.bad = io.bad
    BY <1>a, <2>1 DEF TypeOK
  <2>3. Stream' = Stream /\ io.disk \subseteq io'.disk
    BY <2>2 DEF Stream
  <2> QED
    BY <1>7, <1>9, <2>2, <2>3 DEF Abandon, Ended
<1>10. ASSUME UNCHANGED <<bbt, pages, fixedDone, io>>,
              \/ UNCHANGED <<cursor, amapCount, phase>>
              \/ phase \in {"open", "nbt", "bbt"} /\ phase' \in {"open", "nbt", "bbt"}
       PROVE  DiskInv'
  <2>1. Stream' = Stream /\ Extents' = Extents
    BY <1>10 DEF Stream, Extents
  <2>2. CASE UNCHANGED <<cursor, amapCount, phase>>
    BY <1>3, <1>10, <2>1, <2>2 DEF DiskInv, Holds
  <2>3. CASE phase \in {"open", "nbt", "bbt"} /\ phase' \in {"open", "nbt", "bbt"}
    <3>1. fixedDone = 0 /\ HeaderPos \notin Stream
      BY <2>3 DEF DiskInv, Ended
    <3>2. ~io'.bad => Holds(Stream)'
      BY <1>10, <2>1, <3>1 DEF DiskInv, Holds
    <3> QED
      BY <1>10, <2>1, <2>3, <3>1, <3>2 DEF DiskInv
  <2> QED
    BY <1>10, <2>2, <2>3
<1>11. CASE SkipReserved
  <2>1. phase \in {"open", "nbt", "bbt"}
    BY <1>11 DEF SkipReserved, TypeInv, ReqInv
  <2> QED
    BY <1>10, <1>11, <2>1 DEF SkipReserved
<1>12. CASE finish \/ allocatePage
  BY <1>10, <1>12 DEF finish, allocatePage
<1>13. ASSUME NEW shape \in BlockShapes, emitBlock(shape[1], shape[2]) PROVE DiskInv'
  BY <1>10, <1>13 DEF emitBlock
<1>14. ASSUME NEW nid \in Nids, NEW b \in bbt, addNode(nid, b.bid) PROVE DiskInv'
  BY <1>10, <1>14 DEF addNode
<1>15. CASE UNCHANGED vars
  BY <1>10, <1>15 DEF vars
<1> QED
  BY <1>1, <1>2, <1>4, <1>5, <1>6, <1>8, <1>9, <1>11, <1>12, <1>13, <1>14, <1>15 DEF Next

----------------------------------------------------------------------------
(* What the header publishes.                                              *)

\* The marks lie in the maps that exist, the maps reach to the cursor unless an
\* allocation is under way, and there is a largest node.
RoomInv ==
  /\ amapCount >= 1
  /\ marked \subseteq FirstAMapPos .. (AMapPos(amapCount) - 1)
  /\ req = NoReq => cursor <= AMapPos(amapCount)
  /\ \E n \in Nat : \A e \in nbt : e.nid <= n

\* What writeHeader() would compose now.
Published ==
  [fileEnd |-> file_end, lastAMap |-> AMapPos(amapCount - 1), amapFree |-> amap_free,
   nextBid |-> makeBid(nextBid, FALSE),
   nextNid |-> [t \in 0..31 |-> next_nid(t)], roots |-> build.roots]

\* The header in the stream is never out of date.
HeaderInv == HeaderPos \in Stream => header = Published

\* The spans follow one another.
LEMMA Spans ==
  ASSUME NEW i \in Nat, NEW j \in Nat, i <= j
  PROVE  /\ AMapPos(i) \in Nat /\ AMapPos(j) \in Nat /\ AMapPos(i) <= AMapPos(j)
         /\ AMapPos(i + 1) = AMapPos(i) + AMapSpan
<1>1. i * AMapSpan \in Nat /\ j * AMapSpan \in Nat /\ (i + 1) * AMapSpan = i * AMapSpan + AMapSpan
  BY Positions
<1>2. i * AMapSpan <= j * AMapSpan
  <2> DEFINE k == j - i
  <2>1. k \in Nat /\ j = i + k
    OBVIOUS
  <2> HIDE DEF k
  <2>2. (i + k) * AMapSpan = i * AMapSpan + k * AMapSpan /\ k * AMapSpan \in Nat
    BY <2>1, Positions
  <2> QED
    BY <1>1, <2>1, <2>2
<1> QED
  BY <1>1, <1>2, Positions DEF AMapPos

\* An offset belongs to one span.
LEMMA OneSpan ==
  ASSUME NEW p \in Nat, NEW i \in Nat, AMapPos(i) <= p, p < AMapPos(i + 1)
  PROVE  MapOf(p) = i
<1>0. AMapPos(i) >= FirstAMapPos /\ AMapPos(i) \in Nat /\ FirstAMapPos \in Nat
  BY AMapReserved, Positions
<1>1. p >= FirstAMapPos
  BY <1>0
<1>2. MapOf(p) \in Nat /\ AMapPos(MapOf(p)) <= p /\ p < AMapPos(MapOf(p) + 1)
  BY <1>1, SpanOf
<1> DEFINE m == MapOf(p)
<1>3. m \in Nat /\ AMapPos(m) <= p /\ p < AMapPos(m + 1)
  BY <1>2
<1> HIDE DEF m
<1>4. ~(m + 1 <= i)
  <2>1. m + 1 <= i => AMapPos(m + 1) <= AMapPos(i) /\ AMapPos(m + 1) \in Nat
    BY <1>3, Spans
  <2> QED
    BY <1>0, <1>3, <2>1
<1>5. ~(i + 1 <= m)
  <2>1. i + 1 <= m => AMapPos(i + 1) <= AMapPos(m) /\ AMapPos(i + 1) \in Nat /\ AMapPos(m) \in Nat
    BY <1>3, Spans
  <2> QED
    BY <1>3, <2>1
<1> QED
  BY <1>3, <1>4, <1>5 DEF m

\* Marking stays within the span of the offset.
LEMMA BitsInSpan ==
  ASSUME NEW ib \in Nat, ib >= FirstAMapPos, NEW n \in Nat, NEW s \in MarkBits(ib, n)
  PROVE  s \in Nat /\ FirstAMapPos <= s /\ s < AMapPos(MapOf(ib) + 1)
  BY Positions DEF MarkBits, Slots

\* So does creating a map.
LEMMA ReservedInSpan ==
  ASSUME NEW i \in Nat, NEW s \in ReservedBits(i)
  PROVE  s \in Nat /\ FirstAMapPos <= s /\ s < AMapPos(i + 1)
<1>a. /\ AMapPos(i) \in Nat /\ AMapPos(i) >= FirstAMapPos /\ AMapPos(i + 1) = AMapPos(i) + AMapSpan
      /\ AMapSpan \in Nat \ {0} /\ PageSize \in Nat /\ FirstAMapPos \in Nat
  BY AMapReserved, Spans, Positions, GeometryAssumption DEF GeometryAssumption
<1>1. ASSUME NEW p \in Slots(AMapPos(i), AMapSpan), s \in MarkBits(p, PageSize)
      PROVE  s \in Nat /\ FirstAMapPos <= s /\ s < AMapPos(i + 1)
  <2>1. p \in Nat /\ p >= AMapPos(i) /\ p < AMapPos(i + 1) /\ p >= FirstAMapPos
    BY <1>a DEF Slots
  <2>2. MapOf(p) = i
    BY <2>1, OneSpan
  <2> QED
    BY <1>a, <1>1, <2>1, <2>2, BitsInSpan
<1>2. AMapPos(i) \in Slots(AMapPos(i), AMapSpan)
  BY <1>a DEF Slots
<1>3. FirstPMapPos \in Slots(AMapPos(0), AMapSpan)
  <2>1. AMapPos(0) = FirstAMapPos
    BY Positions DEF AMapPos
  <2> QED
    BY <2>1, Positions, GeometryAssumption DEF Slots, FirstPMapPos, GeometryAssumption
<1>4. \/ s \in MarkBits(AMapPos(i), PageSize)
      \/ i = 0 /\ s \in MarkBits(FirstPMapPos, PageSize)
      \/ \E p \in Slots(AMapPos(i), AMapSpan) : s \in MarkBits(p, PageSize)
  BY DEF ReservedBits
<1> QED
  BY <1>1, <1>2, <1>3, <1>4

\* allocate() leaves every mark in a map and the maps as long as the cursor.
LEMMA RoomAllocate ==
  ASSUME TypeInv, SpaceInv, RoomInv, req # NoReq, allocate
  PROVE  /\ amapCount' \in Nat /\ amapCount' >= 1
         /\ marked' \subseteq FirstAMapPos .. (AMapPos(amapCount') - 1)
         /\ cursor' <= AMapPos(amapCount')
<1> DEFINE m == MapOf(cursor)
<1>1. /\ cursor \in Nat /\ cursor >= FirstDataPos /\ cursor >= FirstAMapPos /\ amapCount \in Nat
      /\ amapCount >= 1 /\ req.n \in Nat /\ FirstAMapPos \in Nat
  BY Positions DEF TypeInv, TypeOK, Requests, SpaceInv, RoomInv
<1>2. m \in Nat /\ cursor + req.n <= AMapPos(m + 1) /\ cursor' = cursor + req.n
  BY <1>1, SpanOf, AllocateClear DEF allocate
<1>3. /\ amapCount' = IF amapCount < m + 1 THEN m + 1 ELSE amapCount
      /\ marked' = marked \cup ensureAMapCount(m) \cup MarkBits(cursor, req.n)
  BY DEF allocate, markAllocated
<1>4. ASSUME NEW s \in MarkBits(cursor, req.n)
      PROVE  s \in Nat /\ FirstAMapPos <= s /\ s < AMapPos(m + 1)
  BY <1>1, BitsInSpan
<1> HIDE DEF m
<1>5. amapCount' \in Nat /\ amapCount' >= 1 /\ amapCount <= amapCount' /\ m + 1 <= amapCount'
  BY <1>1, <1>2, <1>3
<1>6. \A i \in Nat : i <= amapCount' => AMapPos(i) <= AMapPos(amapCount') /\ AMapPos(i) \in Nat
  BY <1>5, Spans
<1>7. AMapPos(amapCount') \in Nat /\ AMapPos(m + 1) \in Nat /\ AMapPos(amapCount) \in Nat
      /\ AMapPos(m + 1) <= AMapPos(amapCount') /\ AMapPos(amapCount) <= AMapPos(amapCount')
  BY <1>1, <1>2, <1>5, <1>6
<1>8. cursor' <= AMapPos(amapCount')
  BY <1>1, <1>2, <1>7
<1>9. ASSUME NEW s \in marked'
      PROVE  s \in FirstAMapPos .. (AMapPos(amapCount') - 1)
  <2>1. CASE s \in marked
    BY <1>1, <1>7, <2>1 DEF RoomInv
  <2>2. CASE s \in ensureAMapCount(m)
    <3>1. PICK i \in amapCount .. m : s \in ReservedBits(i)
      BY <2>2 DEF ensureAMapCount
    <3>2. i \in Nat /\ i + 1 <= amapCount' /\ i + 1 \in Nat
      BY <1>1, <1>2, <1>5
    <3>3. s \in Nat /\ FirstAMapPos <= s /\ s < AMapPos(i + 1)
      BY <3>1, <3>2, ReservedInSpan
    <3>4. AMapPos(i + 1) <= AMapPos(amapCount') /\ AMapPos(i + 1) \in Nat
      BY <1>6, <3>2
    <3> QED
      BY <1>1, <1>7, <3>3, <3>4
  <2>3. CASE s \in MarkBits(cursor, req.n)
    BY <1>1, <1>4, <1>7, <2>3
  <2> QED
    BY <1>3, <2>1, <2>2, <2>3
<1> QED
  BY <1>5, <1>8, <1>9

\* Only addNode() changes the nodes, and the new one may be the largest.
LEMMA NodesBounded ==
  ASSUME TypeInv, RoomInv, [Next]_vars
  PROVE  \E n \in Nat : \A e \in nbt' : e.nid <= n
<1>1. PICK n \in Nat : \A e \in nbt : e.nid <= n
  BY DEF RoomInv
<1>2. ASSUME NEW nid \in Nids, NEW b \in bbt, addNode(nid, b.bid)
      PROVE  \E k \in Nat : \A e \in nbt' : e.nid <= k
  <2>1. nid \in Nat /\ nbt' = nbt \cup {[nid |-> nid, data |-> b.bid]}
    BY <1>2, TreeAssumption DEF addNode, TreeAssumption
  <2>2. \A e \in nbt : e.nid \in Nat
    BY DEF TypeInv, TypeOK
  <2>3. \A e \in nbt' : e.nid <= n + nid
    BY <1>1, <2>1, <2>2
  <2> QED
    BY <1>1, <2>1, <2>3
<1>3. CASE nbt' = nbt
  BY <1>1, <1>3
<1>4. nbt' = nbt \/ \E nid \in Nids, b \in bbt : addNode(nid, b.bid)
  BY DEF Next, vars, emitBlock, SkipReserved, BlockWritten, finish, allocatePage, PageWritten,
         Pad, emitFixedPages, writeHeader, Flush, Abandon
<1> QED
  BY <1>2, <1>3, <1>4

\* A step ends an allocation, starts or continues one, or leaves the cursor alone.
LEMMA CursorStep ==
  ASSUME TypeInv, [Next]_vars
  PROVE  (allocate /\ req # NoReq) \/ req' # NoReq \/ (UNCHANGED <<cursor, req>>)
<1>1. NoReq.kind = "none"
  BY NoReqFacts
<1>2. ASSUME NEW shape \in BlockShapes, emitBlock(shape[1], shape[2]) PROVE req' # NoReq
  <2>1. req'.kind = "block"
    BY <1>2 DEF emitBlock
  <2> QED
    BY <1>1, <2>1
<1>3. CASE SkipReserved
  BY <1>3 DEF SkipReserved
<1>4. CASE BlockWritten \/ PageWritten
  BY <1>1, <1>4 DEF BlockWritten, PageWritten
<1>5. CASE allocatePage
  <2>1. req'.kind = "page"
    BY <1>5 DEF allocatePage
  <2> QED
    BY <1>1, <2>1
<1>6. ASSUME NEW nid \in Nids, NEW b \in bbt, addNode(nid, b.bid) PROVE UNCHANGED <<cursor, req>>
  BY <1>6 DEF addNode
<1>7. CASE finish \/ Pad \/ emitFixedPages \/ writeHeader \/ Flush \/ Abandon \/ UNCHANGED vars
  BY <1>7 DEF finish, Pad, emitFixedPages, writeHeader, Flush, Abandon, vars
<1> QED
  BY <1>2, <1>3, <1>4, <1>5, <1>6, <1>7 DEF Next

\* The maps keep up with the cursor and hold every mark.
LEMMA RoomStep ==
  ASSUME TypeInv, SpaceInv, RoomInv, [Next]_vars
  PROVE  RoomInv'
<1>1. CASE allocate /\ req # NoReq
  <2>1. /\ amapCount' \in Nat /\ amapCount' >= 1
        /\ marked' \subseteq FirstAMapPos .. (AMapPos(amapCount') - 1)
        /\ cursor' <= AMapPos(amapCount')
    BY <1>1, RoomAllocate
  <2> QED
    BY <2>1, NodesBounded DEF RoomInv, AMapPos
<1>2. CASE ~(allocate /\ req # NoReq)
  <2>1. amapCount' = amapCount /\ marked' = marked
    BY <1>2, ExtentsStep DEF SpaceInv
  <2>2. req' # NoReq \/ (UNCHANGED <<cursor, req>>)
    BY <1>2, CursorStep
  <2>3. req' = NoReq => cursor' <= AMapPos(amapCount')
    BY <2>1, <2>2 DEF RoomInv
  <2> QED
    BY <2>1, <2>3, NodesBounded DEF RoomInv, AMapPos
<1> QED
  BY <1>1, <1>2

\* Offset 0 enters the stream in writeHeader() and nowhere else: blocks, pages
\* and the padding start at the cursor, fixed pages past the header.
LEMMA HeaderEnters ==
  ASSUME TypeInv, SpaceInv, [Next]_vars, HeaderPos \notin Stream, HeaderPos \in Stream'
  PROVE  writeHeader
<1>a. /\ cursor \in Nat /\ cursor > 0 /\ TypeOK /\ FixedPos(fixedDone) # 0 /\ HeaderPos = 0
  <2>1. cursor \in Nat /\ TypeOK /\ FirstDataPos > 0 /\ FirstDataPos \in Nat /\ cursor >= FirstDataPos
    BY Positions, GeometryAssumption DEF SpaceInv, TypeInv, TypeOK, GeometryAssumption
  <2>2. FixedPos(fixedDone) # 0
    BY FixedPositions DEF TypeInv, TypeOK
  <2> QED
    BY <2>1, <2>2 DEF HeaderPos
<1>b. ASSUME NEW ib, writeAtOk(ib) \/ writeAtThrows, ib # 0 PROVE FALSE
  <2>1. Stream' = Stream \cup {ib} \/ Stream' = Stream
    BY <1>a, <1>b, WriteEffect
  <2> QED
    BY <1>a, <1>b, <2>1
<1>c. ASSUME io' = io PROVE FALSE
  BY <1>c DEF Stream
<1>1. ~BlockWritten /\ ~PageWritten /\ ~Pad
  <2>1. cursor # 0
    BY <1>a
  <2>2. ~writeAtOk(cursor) /\ ~writeAtThrows
    BY <1>b, <2>1
  <2>3. ~BlockWritten
    BY <2>2 DEF BlockWritten
  <2>4. ~PageWritten
    BY <2>2 DEF PageWritten
  <2>5. ~Pad
    BY <1>c, <2>2 DEF Pad
  <2> QED
    BY <2>3, <2>4, <2>5
<1>2. ~emitFixedPages
  BY <1>a, <1>b DEF emitFixedPages
<1>3. ~Flush
  <2>1. ASSUME io' = [disk |-> io.disk \cup io.buf, buf |-> {}, bad |-> FALSE] PROVE FALSE
    <3>1. io'.disk = io.disk \cup io.buf /\ io'.buf = {}
      BY <2>1
    <3> QED
      BY <3>1 DEF Stream
  <2>2. ~writeAtThrows
    BY <1>a, WriteEffect
  <2> QED
    BY <2>1, <2>2 DEF Flush
<1>4. ~Abandon
  <2> SUFFICES ASSUME Abandon PROVE FALSE
    OBVIOUS
  <2>1. PICK flushed \in SUBSET io.buf :
          io' = [io EXCEPT !.disk = @ \cup flushed, !.buf = @ \ flushed]
    BY DEF Abandon
  <2>2. io'.disk = io.disk \cup flushed /\ io'.buf = io.buf \ flushed
    BY <1>a, <2>1 DEF TypeOK
  <2> QED
    BY <2>2 DEF Stream
<1>5. ~SkipReserved /\ ~finish /\ ~allocatePage /\ ~(UNCHANGED vars)
  BY <1>c DEF SkipReserved, finish, allocatePage, vars
<1>6. \A shape \in BlockShapes : ~emitBlock(shape[1], shape[2])
  BY <1>c DEF emitBlock
<1>7. \A nid \in Nids, b \in bbt : ~addNode(nid, b.bid)
  BY <1>c DEF addNode
<1> QED
  BY <1>1, <1>2, <1>3, <1>4, <1>5, <1>6, <1>7 DEF Next

\* Once finish() has come to an end, well or badly, nothing moves any more.
LEMMA NothingAfter ==
  ASSUME TypeInv, phase \in Ended, [Next]_vars
  PROVE  UNCHANGED <<cursor, amapCount, marked, nextBid, nbt, build, header>>
<1>1. req = NoReq /\ req.kind = "none"
  BY NoReqFacts DEF TypeInv, ReqInv, Ended
<1>2. ~SkipReserved /\ ~BlockWritten /\ ~PageWritten
  BY <1>1 DEF SkipReserved, BlockWritten, PageWritten
<1>3. ~finish /\ ~allocatePage /\ ~Pad /\ ~emitFixedPages /\ ~writeHeader
  BY DEF finish, allocatePage, Pad, emitFixedPages, writeHeader, Ended
<1>4. \A shape \in BlockShapes : ~emitBlock(shape[1], shape[2])
  BY DEF emitBlock, Ended
<1>5. \A nid \in Nids, b \in bbt : ~addNode(nid, b.bid)
  BY DEF addNode, Ended
<1>6. Flush \/ Abandon \/ UNCHANGED vars
  BY <1>2, <1>3, <1>4, <1>5 DEF Next
<1> QED
  BY <1>6 DEF Flush, Abandon, vars

\* Published is a function of what writeHeader() and NothingAfter leave alone.
LEMMA PublishedStable ==
  ASSUME UNCHANGED <<cursor, amapCount, marked, nextBid, nbt, build>>
  PROVE  Published' = Published
  BY DEF Published, file_end, AMapPos, amap_free, makeBid, next_nid, nidIndex, nidType

\* The header is composed from the final state and stays what it was.
LEMMA HeaderStep ==
  ASSUME TypeInv, SpaceInv, DiskInv, HeaderInv, [Next]_vars
  PROVE  HeaderInv'
<1> SUFFICES ASSUME (HeaderPos \in Stream)' PROVE (header = Published)'
  BY DEF HeaderInv
<1>0. HeaderPos \in Stream'
  BY DEF HeaderPos
<1>1. CASE HeaderPos \in Stream
  <2>1. phase \in Ended /\ header = Published
    BY <1>1 DEF DiskInv, HeaderInv
  <2> QED
    BY <2>1, NothingAfter, PublishedStable
<1>2. CASE HeaderPos \notin Stream
  <2>1. writeHeader
    BY <1>0, <1>2, HeaderEnters
  <2>2. header' = Published /\ UNCHANGED <<cursor, amapCount, marked, nextBid, nbt, build>>
    BY <2>1 DEF writeHeader, Published
  <2> QED
    BY <2>2, PublishedStable
<1> QED
  BY <1>1, <1>2

\* The maps cover the file to its end.
LEMMA FileEnd ==
  ASSUME TypeInv, SpaceInv, RoomInv, req = NoReq
  PROVE  /\ file_end = AMapPos(amapCount) /\ file_end \in Nat /\ cursor <= file_end
         /\ file_end = AMapPos(amapCount - 1) + AMapSpan
         /\ file_end % PageSize = 0
<1>1. amapCount \in Nat /\ amapCount >= 1 /\ cursor \in Nat /\ cursor <= AMapPos(amapCount)
  BY DEF TypeInv, TypeOK, RoomInv
<1>2. AMapPos(amapCount) \in Nat /\ isReservedPage(AMapPos(amapCount))
  BY <1>1, AMapReserved
<1>3. file_end = AMapPos(amapCount)
  BY <1>1, <1>2 DEF file_end
<1>4. AMapPos(amapCount) % PageSize = 0
  BY <1>2, ReservedAligned
<1>5. AMapPos(amapCount) = AMapPos(amapCount - 1) + AMapSpan
  <2> DEFINE k == amapCount - 1
  <2>1. k \in Nat /\ amapCount = k + 1 /\ amapCount - 1 = k
    BY <1>1
  <2> HIDE DEF k
  <2>2. AMapPos(k + 1) = AMapPos(k) + AMapSpan
    BY <2>1, Spans
  <2> QED
    BY <2>1, <2>2
<1> QED
  BY <1>1, <1>2, <1>3, <1>4, <1>5

\* Two page boundaries are a page apart.
LEMMA WholePages ==
  ASSUME NEW p \in Nat, NEW q \in Nat, p % PageSize = 0, q % PageSize = 0, p < q
  PROVE  p + PageSize <= q
<1>0. PageSize \in Nat \ {0}
  BY GeometryAssumption DEF GeometryAssumption
<1> DEFINE a == p \div PageSize
           b == q \div PageSize
<1>1. p = PageSize * a /\ q = PageSize * b /\ a \in Nat /\ b \in Nat
  BY <1>0, DivMod
<1> HIDE DEF a, b
<1>2. a < b
  <2>1. ASSUME b <= a PROVE PageSize * b <= PageSize * a
    <3> DEFINE c == a - b
    <3>1. c \in Nat /\ a = b + c
      BY <1>1, <2>1
    <3> HIDE DEF c
    <3>2. PageSize * (b + c) = PageSize * b + PageSize * c /\ PageSize * c \in Nat
      BY <1>0, <1>1, <3>1
    <3>3. PageSize * b \in Nat
      BY <1>0, <1>1
    <3> QED
      BY <3>1, <3>2, <3>3
  <2> QED
    BY <1>1, <2>1
<1>3. PICK c \in Nat : b = a + 1 + c
  <2>1. b - a - 1 \in Nat /\ b = a + 1 + (b - a - 1)
    BY <1>1, <1>2
  <2> QED
    BY <2>1
<1>4. PageSize * (a + 1 + c) = PageSize * a + PageSize + PageSize * c /\ PageSize * c \in Nat
  BY <1>0, <1>1, <1>3
<1> QED
  BY <1>0, <1>1, <1>3, <1>4

\* Every page of emitFixedPages() ends within the file: the page maps counted by
\* the rounded division start below its end.
LEMMA FixedInFile ==
  ASSUME TypeInv, SpaceInv, RoomInv, req = NoReq, NEW i \in 0 .. (FixedCount - 1)
  PROVE  FixedPos(i) + PageSize <= file_end
<1>1. /\ file_end = AMapPos(amapCount) /\ file_end \in Nat /\ file_end % PageSize = 0
      /\ amapCount \in Nat /\ amapCount >= 1 /\ PageSize \in Nat \ {0} /\ PMapSpan \in Nat \ {0}
  BY FileEnd, GeometryAssumption DEF TypeInv, TypeOK, RoomInv, GeometryAssumption
<1>2. FirstDataPos <= file_end /\ FirstPMapPos \in Nat /\ FirstPMapPos < file_end
  <2>1. cursor <= file_end /\ FirstDataPos <= cursor /\ cursor \in Nat
    BY FileEnd DEF SpaceInv, TypeInv, TypeOK
  <2> QED
    BY <1>1, <2>1, Positions
<1>3. i \in Int /\ i >= 0
  OBVIOUS
<1>4. CASE i = 0
  BY <1>1, <1>2, <1>4, Positions DEF FixedPos, FirstAMapPos
<1>5. CASE i \in 1 .. amapCount
  <2> DEFINE j == i - 1
  <2>1. j \in Nat /\ j + 1 <= amapCount /\ j + 1 \in Nat
    BY <1>1, <1>5
  <2>2. FixedPos(i) = AMapPos(j)
    BY <1>5 DEF FixedPos
  <2> HIDE DEF j
  <2>3. AMapPos(j + 1) <= AMapPos(amapCount) /\ AMapPos(j + 1) = AMapPos(j) + AMapSpan
        /\ AMapPos(j) \in Nat /\ AMapPos(j + 1) \in Nat
    BY <1>1, <2>1, Spans
  <2> QED
    BY <1>1, <2>2, <2>3, Positions
<1>6. CASE i # 0 /\ i \notin 1 .. amapCount
  <2> DEFINE j == i - 1 - amapCount
             y == file_end - FirstPMapPos + PMapSpan - 1
             q == y \div PMapSpan
             p == FirstPMapPos + j * PMapSpan
  <2>1. j \in Nat
    BY <1>1, <1>3, <1>6
  <2>2. FixedPos(i) = p
    BY <1>6 DEF FixedPos
  <2>3. y \in Nat /\ y = file_end - FirstPMapPos + PMapSpan - 1
    BY <1>1, <1>2
  <2>4. PMapCount = q
    BY DEF PMapCount
  <2>5. j < PMapCount /\ PMapCount \in Int
    <3>1. PMapCount \in Int
      <4> HIDE DEF y
      <4>1. q \in Nat
        BY <1>1, <2>3, DivMod
      <4> QED
        BY <2>4, <4>1
    <3> QED
      BY <1>1, <1>3, <3>1 DEF FixedCount
  <2> HIDE DEF y
  <2>6. y = PMapSpan * q + (y % PMapSpan) /\ y % PMapSpan \in 0 .. (PMapSpan - 1) /\ q \in Nat
    BY <1>1, <2>3, DivMod
  <2> HIDE DEF q, j
  <2>7. PICK k \in Nat : q = j + 1 + k
    <3>1. q - j - 1 \in Nat /\ q = j + 1 + (q - j - 1)
      BY <2>1, <2>4, <2>5, <2>6
    <3> QED
      BY <3>1
  <2>8. PMapSpan * (j + 1 + k) = j * PMapSpan + PMapSpan + PMapSpan * k /\ PMapSpan * k \in Nat
        /\ j * PMapSpan \in Nat
    BY <1>1, <2>1, <2>7
  <2>9. p < file_end /\ p \in Nat
    BY <1>1, <1>2, <2>3, <2>6, <2>7, <2>8
  <2>10. isReservedPage(p)
    <3>1. p - FirstPMapPos = j * PMapSpan /\ p >= FirstPMapPos
      BY <1>2, <2>8
    <3>2. (j * PMapSpan) % PMapSpan = 0
      BY <1>1, <2>1, MultipleMod
    <3> QED
      BY <3>1, <3>2 DEF isReservedPage
  <2> HIDE DEF p
  <2>11. p % PageSize = 0
    BY <2>9, <2>10, ReservedAligned
  <2> QED
    BY <1>1, <2>2, <2>9, <2>11, WholePages
<1> QED
  BY <1>4, <1>5, <1>6

\* rgnid is above every node of its type (ndb.cpp:454-466).
LEMMA NextNidFree ==
  ASSUME TypeInv, RoomInv, NEW e \in nbt
  PROVE  nidIndex(e.nid) < next_nid(nidType(e.nid)) /\ nidType(e.nid) \in 0 .. 31
<1>0. \A x \in nbt : x.nid \in Nat
  BY DEF TypeInv, TypeOK
<1>1. PICK n \in Nat : \A x \in nbt : x.nid <= n
  BY DEF RoomInv
<1>2. \A x \in Nat : x \div 32 \in Nat /\ x \div 32 <= x /\ x % 32 \in 0 .. 31
  OBVIOUS
<1> DEFINE t == nidType(e.nid)
           S == {nidIndex(f.nid) + 1 : f \in {x \in nbt : nidType(x.nid) = t}}
           T == {FirstUserNidIndex} \cup S
<1>3. next_nid(t) = Max(T)
  BY DEF next_nid
<1>4. FirstUserNidIndex \in Nat
  BY TreeAssumption DEF TreeAssumption
<1>5. \A x \in S : x \in Nat /\ x <= n + 1
  BY <1>0, <1>1, <1>2 DEF nidIndex
<1>6. nidIndex(e.nid) + 1 \in T /\ nidIndex(e.nid) \in Nat /\ t \in 0 .. 31
  BY <1>0, <1>2 DEF nidIndex, nidType
<1> HIDE DEF S, t
<1>7. T \subseteq 0 .. (n + 1 + FirstUserNidIndex) /\ T # {}
  BY <1>1, <1>4, <1>5, <1>6
<1> HIDE DEF T
<1>8. PICK m \in T : \A y \in T : y <= m
  <2>1. n + 1 + FirstUserNidIndex \in Nat
    BY <1>1, <1>4
  <2> QED
    BY <1>7, <2>1, Greatest
<1>9. \A y \in T : y \in Int
  BY <1>7
<1>10. \A y \in T : m >= y
  BY <1>8, <1>9
<1>11. Max(T) \in T /\ \A y \in T : Max(T) >= y
  BY <1>8, <1>10 DEF Max
<1>12. nidIndex(e.nid) < Max(T)
  BY <1>6, <1>9, <1>11
<1> QED
  BY <1>3, <1>6, <1>12 DEF t

\* Free slots and marked slots are all there are (ndb.cpp:424-432).
LEMMA FreeAndMarked ==
  ASSUME TypeInv, SpaceInv, RoomInv
  PROVE  amap_free + Cardinality(marked) = amapCount * AMapSpan
<1> DEFINE S == FirstAMapPos .. (AMapPos(amapCount) - 1)
<1>1. /\ amapCount \in Nat /\ FirstAMapPos \in Nat /\ AMapSpan \in Nat
      /\ amapCount * AMapSpan \in Nat /\ AMapPos(amapCount) = FirstAMapPos + amapCount * AMapSpan
  BY Positions DEF TypeInv, TypeOK, AMapPos
<1>2. IsFiniteSet(S) /\ Cardinality(S) = amapCount * AMapSpan
  <2>1. AMapPos(amapCount) - 1 \in Int /\ FirstAMapPos \in Int
    BY <1>1
  <2>2. /\ IsFiniteSet(S)
        /\ Cardinality(S) = IF FirstAMapPos > AMapPos(amapCount) - 1 THEN 0
                            ELSE (AMapPos(amapCount) - 1) - FirstAMapPos + 1
    BY <2>1, FS_Interval
  <2> QED
    BY <1>1, <2>2
<1>3. marked \subseteq S
  BY DEF RoomInv
<1>4. amap_free = Cardinality(S \ marked)
  BY DEF amap_free
<1> HIDE DEF S
<1>5. Cardinality(S \ marked) = Cardinality(S) - Cardinality(S \cap marked) /\ S \cap marked = marked
  BY <1>2, <1>3, FS_Difference
<1>6. Cardinality(marked) \in Nat
  BY <1>2, <1>3, FS_Subset, FS_CardinalityType
<1>7. Cardinality(S \ marked) = Cardinality(S) - Cardinality(marked)
  BY <1>5
<1> DEFINE all == amapCount * AMapSpan
           free == Cardinality(S \ marked)
           used == Cardinality(marked)
<1>8. all \in Nat /\ used \in Nat /\ free = all - used /\ amap_free = free
  BY <1>1, <1>2, <1>4, <1>6, <1>7
<1> HIDE DEF all, free, used
<1>9. amap_free + used = all
  BY <1>8
<1> QED
  BY <1>9 DEF all, used

\* What a header on disk says is true of the store it describes.
LEMMA HeaderTrue ==
  ASSUME TypeInv, SpaceInv, DiskInv, RoomInv, HeaderInv
  PROVE  HeaderConsistent
<1> SUFFICES ASSUME HeaderPos \in io.disk
             PROVE  /\ \A x \in Extents : x.bid < header.nextBid
                    /\ \A e \in nbt : nidIndex(e.nid) < header.nextNid[nidType(e.nid)]
                    /\ header.amapFree + Cardinality(marked) = amapCount * AMapSpan
                    /\ header.fileEnd = header.lastAMap + AMapSpan
                    /\ \A x \in Extents : x.ib + x.n <= header.fileEnd
                    /\ \A i \in 0 .. (FixedCount - 1) : FixedPos(i) + PageSize <= header.fileEnd
  BY DEF HeaderConsistent
<1>1. phase \in Ended /\ header = Published
  BY DEF Stream, DiskInv, HeaderInv
<1>2. req = NoReq
  BY <1>1 DEF TypeInv, ReqInv, Ended
<1>3. /\ header.nextBid = 4 * nextBid /\ header.fileEnd = file_end
      /\ header.lastAMap = AMapPos(amapCount - 1) /\ header.amapFree = amap_free
      /\ header.nextNid = [t \in 0..31 |-> next_nid(t)]
  <2>1. makeBid(nextBid, FALSE) = 4 * nextBid
    BY DEF makeBid, TypeInv, TypeOK
  <2> QED
    BY <1>1, <2>1 DEF Published
<1>4. \A x \in Extents : x.bid < header.nextBid
  BY <1>3 DEF SpaceInv
<1>5. ASSUME NEW e \in nbt PROVE nidIndex(e.nid) < header.nextNid[nidType(e.nid)]
  BY <1>3, NextNidFree
<1>6. ASSUME NEW x \in Extents PROVE x.ib + x.n <= header.fileEnd
  <2>1. x.ib \in Nat /\ x.n \in Nat /\ x.ib + x.n <= cursor /\ cursor \in Nat
    BY DEF SpaceInv, TypeInv, TypeOK
  <2>2. cursor <= file_end /\ file_end \in Nat
    BY <1>2, FileEnd
  <2> QED
    BY <1>3, <2>1, <2>2
<1>7. header.fileEnd = header.lastAMap + AMapSpan
  BY <1>2, <1>3, FileEnd
<1>8. \A i \in 0 .. (FixedCount - 1) : FixedPos(i) + PageSize <= header.fileEnd
  BY <1>2, <1>3, FixedInFile
<1>9. header.amapFree + Cardinality(marked) = amapCount * AMapSpan
  BY <1>3, FreeAndMarked
<1> QED
  BY <1>4, <1>5, <1>6, <1>7, <1>8, <1>9

----------------------------------------------------------------------------
(* The theorems.                                                           *)

\* The inductive invariant: types and the phase of a request, extents below
\* the cursor, the properties that lean on them, maps that cover the cursor and
\* a header that is up to date.
IInv ==
  /\ TypeInv
  /\ SpaceInv
  /\ NoOverlap
  /\ MapsTruthful
  /\ AlignInv
  /\ DiskInv
  /\ RoomInv
  /\ HeaderInv

\* The constructor establishes the inductive invariant.
LEMMA InitIInv == Init => IInv
<1> SUFFICES ASSUME Init PROVE IInv
  OBVIOUS
<1>a. Extents = {} /\ Stream = {} /\ fixedDone = 0
  BY DEF Init, Extents, Stream
<1>1. ASSUME NEW s \in marked
      PROVE  s \in Nat /\ \E p \in (s - PageSize + 1) .. s : isReservedPage(p)
  BY ReservedBitsReserved DEF Init
<1>2. TypeInv
  <2>1. cursor \in Nat /\ marked \subseteq Nat
    BY <1>1, Positions DEF Init
  <2>2. req \in Requests /\ phase \in Phases
    BY NoReqFacts DEF Init, Phases
  <2>3. io \in [disk : SUBSET Nat, buf : SUBSET Nat, bad : BOOLEAN]
    BY DEF Init
  <2>4. TypeOK
    BY <2>1, <2>2, <2>3 DEF Init, TypeOK
  <2> QED
    BY <2>4, NoReqFacts DEF Init, TypeInv, ReqInv
<1>3. SpaceInv
  BY <1>a, Positions DEF Init, SpaceInv
<1>4. NoOverlap /\ MapsTruthful
  BY <1>a, <1>1 DEF NoOverlap, MapsTruthful
<1>5. AlignInv
  BY NoReqFacts DEF Init, AlignInv, PagesAligned
<1>6. DiskInv
  BY <1>a DEF Init, DiskInv, Holds
<1>7. RoomInv
  <2>1. /\ amapCount = 1 /\ marked = ReservedBits(0) /\ nbt = {} /\ cursor = FirstDataPos
        /\ PageSize \in Nat /\ MaxBlock \in Nat /\ AMapSpan >= 2 * PageSize + MaxBlock
    BY GeometryAssumption DEF Init, GeometryAssumption
  <2>2. AMapPos(1) = FirstAMapPos + AMapSpan /\ AMapPos(1) \in Nat
    BY Positions DEF AMapPos
  <2>3. \A s \in ReservedBits(0) : s \in Nat /\ FirstAMapPos <= s /\ s < AMapPos(0 + 1)
    BY ReservedInSpan
  <2>4. marked \subseteq FirstAMapPos .. (AMapPos(amapCount) - 1)
    BY <2>1, <2>2, <2>3, Positions
  <2>5. cursor <= AMapPos(amapCount)
    BY <2>1, <2>2, Positions DEF FirstDataPos, FirstPMapPos
  <2>6. \A e \in nbt : e.nid <= 0
    BY <2>1
  <2> QED
    BY <2>1, <2>4, <2>5, <2>6 DEF RoomInv
<1>8. HeaderInv
  BY <1>a DEF HeaderInv
<1> QED
  BY <1>2, <1>3, <1>4, <1>5, <1>6, <1>7, <1>8 DEF IInv

\* Every step of the writer keeps the inductive invariant.
LEMMA StepIInv == IInv /\ [Next]_vars => IInv'
  BY TypeStep, SpaceStep, NoOverlapStep, MapsStep, AlignStep, DiskStep, RoomStep, HeaderStep
     DEF IInv, SpaceInv

\* The header property is the last conjunct of DiskInv read off the disk.
LEMMA HeaderLastHolds ==
  ASSUME DiskInv PROVE HeaderLast
<1> SUFFICES ASSUME HeaderPos \in io.disk PROVE fixedDone = FixedCount /\ Holds(io.disk)
  BY DEF HeaderLast, Holds
<1> QED
  BY DEF DiskInv, Stream

\* The inductive invariant holds in every reachable state.
LEMMA IInvAlways == Spec => []IInv
  BY InitIInv, StepIInv, PTL DEF Spec

\* Every variable of the NDB writer keeps its type in every reachable state,
\* for any geometry and any sequence of blocks, nodes and write failures.
THEOREM TypeCorrect == Spec => []TypeOK
<1>1. IInv => TypeOK
  BY DEF IInv, TypeInv
<1> QED
  BY <1>1, IInvAlways, PTL

\* No two blocks or B-tree pages ever share a slot of the file, and none lies
\* where an allocation map, page map or the density list will be written.
THEOREM ExtentsNeverOverlap == Spec => []NoOverlap
<1>1. IInv => NoOverlap
  BY DEF IInv
<1> QED
  BY <1>1, IInvAlways, PTL

\* markAllocated() never drops a bit: every slot in use is marked, and no slot
\* past the cursor is, reserved pages apart.
THEOREM MapsAreTruthful == Spec => []MapsTruthful
<1>1. IInv => MapsTruthful
  BY DEF IInv
<1> QED
  BY <1>1, IInvAlways, PTL

\* Every B-tree page starts on a page boundary.
THEOREM PagesAlwaysAligned == Spec => []PagesAligned
<1>1. IInv => PagesAligned
  BY DEF IInv, AlignInv
<1> QED
  BY <1>1, IInvAlways, PTL

\* A header on disk means that every block, B-tree page and fixed page is on
\* disk too, whichever write failed or was still buffered.
THEOREM HeaderIsLast == Spec => []HeaderLast
<1>1. IInv => HeaderLast
  BY HeaderLastHolds DEF IInv
<1> QED
  BY <1>1, IInvAlways, PTL

\* A header on disk tells the truth about the store: a reader that goes on
\* writing finds a free BID, free node indexes, the right amount of free space
\* and an end of file that covers everything, for every geometry.
THEOREM HeaderTellsTruth == Spec => []HeaderConsistent
<1>1. IInv => HeaderConsistent
  BY HeaderTrue DEF IInv
<1> QED
  BY <1>1, IInvAlways, PTL

\* One step of the writer only ever adds: marks, extents and fresh BIDs.
LEMMA AppendStep ==
  ASSUME IInv, [Next]_vars
  PROVE  /\ marked \subseteq marked' /\ cursor <= cursor' /\ bbt \subseteq bbt'
         /\ \A b \in bbt' \ bbt : \A x \in Extents : b.bid # x.bid /\ x.ib + x.n <= b.ib
<1>a. TypeInv /\ SpaceInv /\ cursor \in Nat /\ nextBid \in Nat /\ cursor >= FirstDataPos
  BY DEF IInv, TypeInv, TypeOK, SpaceInv
<1>1. marked \subseteq marked' /\ cursor <= cursor'
  <2>1. CASE allocate /\ req # NoReq
    <3>1. req.n \in Nat
      BY <1>a, <2>1, AllocateClear
    <3> QED
      BY <1>a, <2>1, <3>1 DEF allocate, markAllocated
  <2>2. CASE marked' = marked /\ cursor' >= cursor
    <3>1. cursor' \in Nat
      BY <1>a, TypeStep DEF TypeInv, TypeOK
    <3> QED
      BY <1>a, <2>2, <3>1
  <2> QED
    BY <1>a, <2>1, <2>2, ExtentsStep
<1>2. CASE BlockWritten
  <2> DEFINE new == [bid |-> makeBid(nextBid, req.internal), ib |-> cursor, n |-> req.n]
  <2>1. bbt' = bbt \/ bbt' = bbt \cup {new}
    BY <1>2 DEF BlockWritten
  <2>2. req.internal \in BOOLEAN
    BY <1>a DEF TypeInv, TypeOK, Requests
  <2>3. new.ib = cursor /\ new.bid \in Nat /\ new.bid >= 4 * nextBid
    BY <1>a, <2>2, MakeBidNat
  <2> HIDE DEF new
  <2>4. \A x \in Extents : x.bid \in Nat /\ x.bid < 4 * nextBid /\ x.ib + x.n <= cursor
    BY <1>a DEF SpaceInv
  <2>5. \A x \in Extents : new.bid # x.bid /\ x.ib + x.n <= new.ib
    BY <1>a, <2>3, <2>4
  <2> QED
    BY <1>1, <2>1, <2>5
<1>3. CASE bbt' = bbt
  BY <1>1, <1>3
<1>4. BlockWritten \/ bbt' = bbt
  BY DEF Next, vars, emitBlock, SkipReserved, addNode, finish, allocatePage, PageWritten,
         Pad, emitFixedPages, writeHeader, Flush, Abandon
<1> QED
  BY <1>2, <1>3, <1>4

\* "Nothing is ever freed or reused": no step of any behaviour unmarks a slot,
\* moves the cursor back, drops a block or reuses a BID or a place in the file.
THEOREM WriterAppendsOnly == Spec => AppendOnly
<1>1. IInv /\ [Next]_vars =>
        [ /\ marked \subseteq marked' /\ cursor <= cursor' /\ bbt \subseteq bbt'
          /\ \A b \in bbt' \ bbt : \A x \in Extents : b.bid # x.bid /\ x.ib + x.n <= b.ib ]_vars
  BY AppendStep
<1> QED
  BY <1>1, IInvAlways, PTL DEF Spec, AppendOnly

----------------------------------------------------------------------------
(* The B-trees, for every number of nodes and blocks, every number of      *)
(* entries a page holds and every depth: their inductive invariant, in     *)
(* parts.                                                                  *)

Trees == {"nbt", "bbt"}
Entry == [key : Nat, ref : Nat]

EntriesOf(t) == IF t = "nbt" THEN NbtEntries ELSE BbtEntries
PerPage(t, l) == IF l > 0 THEN BtPerPage ELSE IF t = "nbt" THEN NbtPerPage ELSE BbtPerPage

\* The entry the level above has for a page.
LowKey(S) == IF S = {} THEN 0 ELSE Min({e.key : e \in S})
Branch(p) == [key |-> LowKey(p.entries), ref |-> p.ib]

\* Entries in the order of their keys, none of them twice.
Before(S, T) == \A e \in S, f \in T : e.key < f.key
KeysApart(S) == \A e, f \in S : e.key = f.key => e = f

\* The pages ps of one level of a tree, and an entry that one of them holds.
OnLevel(ps, t, l) == {p \in ps : p.tree = t /\ p.level = l}
Held(ps, t, l, e) == \E q \in OnLevel(ps, t, l) : e \in q.entries
Leads(ps, t, l, e) == \E q \in OnLevel(ps, t, l) : e = Branch(q)

\* What finish() sorts into the trees: finitely many nodes and blocks, each
\* under a key of its own.
SourceInv ==
  /\ IsFiniteSet(nbt) /\ \A e, f \in nbt : e.nid = f.nid => e = f
  /\ IsFiniteSet(bbt) /\ \A e, f \in bbt : e.bid = f.bid => e = f

\* The pages: they lie at places of their own, have room for their entries,
\* are in order within a level, and lead to the level below.
Shaped(ps) ==
  /\ \A p \in ps : /\ p.ib \in Nat /\ p.tree \in Trees /\ p.level \in Nat
                   /\ p.entries \subseteq Entry
                   /\ Cardinality(p.entries) <= PerPage(p.tree, p.level)
  /\ \A p, q \in ps : p.ib = q.ib => p = q
  /\ \A p, q \in ps : p.tree = q.tree /\ p.level = q.level =>
       p = q \/ Before(p.entries, q.entries) \/ Before(q.entries, p.entries)
  /\ \A p \in ps : p.level > 0 => \A e \in p.entries : Leads(ps, p.tree, p.level - 1, e)

PagesInv ==
  /\ Shaped(pages)
  /\ \A p \in pages : p.entries = {} => EntriesOf(p.tree) = {}
  /\ phase = "open" => pages = {}
  /\ phase = "nbt" => \A p \in pages : p.tree = "nbt"

\* Level l of tree t, over the entries es, when todo is left of it and next is
\* for the level above.
Partly(ps, t, l, todo, next, es) ==
  /\ l \in Nat /\ todo \subseteq Entry /\ IsFiniteSet(todo) /\ KeysApart(todo)
  /\ next = {Branch(p) : p \in OnLevel(ps, t, l)} /\ IsFiniteSet(next)
  /\ \A p \in ps : p.tree = t =>
       /\ p.level <= l
       /\ p.level = l => Before(p.entries, todo)
       /\ p.level < l => \/ Held(ps, t, p.level + 1, Branch(p))
                         \/ p.level + 1 = l /\ Branch(p) \in todo
  /\ \A e \in es : Held(ps, t, 0, e) \/ (l = 0 /\ e \in todo)
  /\ l > 0 => \A e \in todo : Leads(ps, t, l - 1, e)

\* buildBTree() between two pages.
Building(ps, t, l, todo, next, es) ==
  /\ Partly(ps, t, l, todo, next, es)
  /\ \A p \in ps : p.tree = t => p.entries # {}
  /\ todo = {} => l = 0 /\ \A p \in ps : p.tree # t

\* A complete tree: one page at the top, every other page under an entry of the
\* level above it, and every entry of finish() in a leaf.
Complete(ps, t, root, es) ==
  \E top \in ps :
    /\ top.ib = root /\ top.tree = t
    /\ \A p \in ps : p.tree = t =>
         p = top \/ (p.level < top.level /\ Held(ps, t, p.level + 1, Branch(p)))
    /\ \A e \in es : Held(ps, t, 0, e)

\* The trees are complete from here on, whatever fails.
Past == phase \in {"pad", "fixed", "header", "flush", "closed"} \/ fixedDone # 0

BuildInv ==
  /\ build \in [level : Nat, todo : SUBSET Entry, next : SUBSET Entry, roots : [nbt : Nat, bbt : Nat]]
  /\ phase \in Trees =>
       Building(pages, phase, build.level, build.todo, build.next, EntriesOf(phase))
  /\ phase = "bbt" \/ Past => Complete(pages, "nbt", build.roots.nbt, NbtEntries)
  /\ Past => Complete(pages, "bbt", build.roots.bbt, BbtEntries)

TreeInv == SourceInv /\ PagesInv /\ BuildInv

----------------------------------------------------------------------------
(* Entries and pages.                                                      *)

\* The low key of a page is the key of one of its entries and not above any.
LEMMA LowKeyFacts ==
  ASSUME NEW S, S \subseteq Entry
  PROVE  /\ LowKey(S) \in Nat
         /\ S # {} => \E e \in S : e.key = LowKey(S)
         /\ \A e \in S : LowKey(S) <= e.key
<1>1. CASE S = {}
  BY <1>1 DEF LowKey
<1>2. CASE S # {}
  <2> DEFINE K == {e.key : e \in S}
  <2>1. K \subseteq Nat /\ K # {}
    BY <1>2 DEF Entry
  <2>2. LowKey(S) = Min(K)
    BY <1>2 DEF LowKey
  <2> HIDE DEF K
  <2>3. PICK x \in K : \A y \in K : x <= y
    BY <2>1, Least
  <2>4. Min(K) \in K /\ \A y \in K : Min(K) <= y
    BY <2>3 DEF Min
  <2>5. \A e \in S : e.key \in K
    BY DEF K
  <2>6. \E e \in S : e.key = Min(K)
    BY <2>4 DEF K
  <2> QED
    BY <2>1, <2>2, <2>4, <2>5, <2>6
<1> QED
  BY <1>1, <1>2

\* The k entries of T with the smallest keys.
Firsts(T, k) == {e \in T : Cardinality({f \in T : f.key < e.key}) < k}

\* The next page takes the entries with the smallest keys: at least one, if any
\* is left, no more than it has room for, and all of them below the rest.
LEMMA ChunkFacts ==
  ASSUME NEW T, T \subseteq Entry, IsFiniteSet(T), KeysApart(T), NEW k \in Nat \ {0},
         NEW chunk, chunk = Firsts(T, k)
  PROVE  /\ chunk \subseteq T /\ IsFiniteSet(chunk) /\ Cardinality(chunk) <= k
         /\ Before(chunk, T \ chunk) /\ (T # {} => chunk # {})
<1> DEFINE under(x) == {f \in T : f.key < x}
           rank(x) == Cardinality(under(x))
<1>1. chunk = {e \in T : rank(e.key) < k}
  BY DEF Firsts
<1>2. \A x : under(x) \in SUBSET T /\ IsFiniteSet(under(x)) /\ rank(x) \in Nat
  <2>1. \A x : under(x) \in SUBSET T
    OBVIOUS
  <2> HIDE DEF under
  <2>2. \A x : IsFiniteSet(under(x))
    BY <2>1, FS_Subset
  <2> QED
    BY <2>1, <2>2, FS_CardinalityType
<1>k. \A e \in T : e.key \in Nat
  BY DEF Entry
<1>3. ASSUME NEW a \in T, NEW b \in T, a.key < b.key PROVE rank(a.key) < rank(b.key)
  <2>1. under(a.key) \in SUBSET under(b.key) /\ a \in under(b.key) /\ a \notin under(a.key)
    <3>1. a.key \in Nat /\ b.key \in Nat
      BY <1>k
    <3>2. ASSUME NEW y \in T, y.key < a.key PROVE y.key < b.key
      <4>1. y.key \in Nat
        BY <1>k
      <4> QED
        BY <1>3, <3>1, <3>2, <4>1
    <3>3. ~(a.key < a.key)
      BY <3>1
    <3> QED
      BY <1>3, <3>2, <3>3
  <2>2. rank(a.key) \in Nat /\ rank(b.key) \in Nat /\ IsFiniteSet(under(b.key))
    BY <1>2
  <2> HIDE DEF under
  <2>3. rank(a.key) <= rank(b.key) /\ (rank(b.key) = rank(a.key) => under(b.key) = under(a.key))
    BY <2>1, <2>2, FS_Subset
  <2>4. rank(a.key) # rank(b.key)
    BY <2>1, <2>3
  <2> HIDE DEF rank
  <2> QED
    BY <2>2, <2>3, <2>4
<1>4. ASSUME T # {} PROVE chunk # {}
  <2>1. PICK e \in T : e.key = LowKey(T)
    BY <1>4, LowKeyFacts
  <2>2. \A f \in T : LowKey(T) <= f.key /\ f.key \in Nat /\ LowKey(T) \in Nat
    BY <1>k, LowKeyFacts
  <2>3. \A f \in T : ~(f.key < e.key)
    BY <2>1, <2>2
  <2>4. under(e.key) = {}
    BY <2>3
  <2>5. rank(e.key) = 0
    BY <2>4, FS_EmptySet
  <2> QED
    BY <1>1, <2>5
<1>5. Before(chunk, T \ chunk)
  <2> SUFFICES ASSUME NEW e \in chunk, NEW f \in T \ chunk PROVE e.key < f.key
    BY DEF Before
  <2>1. e \in T /\ f \in T /\ rank(e.key) < k /\ ~(rank(f.key) < k)
    BY <1>1
  <2>2. rank(e.key) \in Nat /\ rank(f.key) \in Nat /\ e.key \in Nat /\ f.key \in Nat
    BY <1>2, <1>k, <2>1
  <2>3. ~(f.key < e.key)
    <3> HIDE DEF rank
    <3> QED
      BY <1>3, <2>1, <2>2
  <2>4. f.key # e.key
    <3> SUFFICES ASSUME f.key = e.key PROVE FALSE
      OBVIOUS
    <3>1. rank(f.key) = rank(e.key)
      OBVIOUS
    <3> HIDE DEF rank
    <3> QED
      BY <2>1, <3>1
  <2> QED
    BY <2>2, <2>3, <2>4
<1>6. IsFiniteSet(chunk) /\ Cardinality(chunk) <= k
  <2> DEFINE R == 0 .. (k - 1)
             g == [e \in chunk |-> rank(e.key)]
  <2>1. IsFiniteSet(R) /\ Cardinality(R) = k
    <3>1. 0 \in Int /\ k - 1 \in Int
      OBVIOUS
    <3> QED
      BY <3>1, FS_Interval
  <2>2. \A e \in chunk : rank(e.key) \in R
    <3>1. \A e \in chunk : rank(e.key) \in Nat /\ rank(e.key) < k
      BY <1>1, <1>2
    <3> HIDE DEF rank
    <3> QED
      BY <3>1
  <2>3. ASSUME NEW a \in chunk, NEW b \in chunk, g[a] = g[b] PROVE a = b
    <3>1. a \in T /\ b \in T /\ rank(a.key) = rank(b.key)
      BY <1>1, <2>3
    <3>2. rank(a.key) \in Nat /\ a.key \in Nat /\ b.key \in Nat
      BY <1>2, <1>k, <3>1
    <3> HIDE DEF rank
    <3>3. a.key = b.key
      BY <1>3, <3>1, <3>2
    <3> QED
      BY <3>1, <3>3 DEF KeysApart
  <2>4. g \in Injection(chunk, R)
    <3> HIDE DEF rank
    <3>1. g \in [chunk -> R]
      BY <2>2
    <3> QED
      BY <2>3, <3>1 DEF Injection, IsInjective
  <2> HIDE DEF R, g
  <2>5. IsFiniteSet(chunk) /\ Cardinality(chunk) <= Cardinality(R)
    BY <2>1, <2>4, FS_Injection
  <2> QED
    BY <2>1, <2>5
<1> QED
  BY <1>1, <1>4, <1>5, <1>6

\* One more page takes nothing away from what the others hold and lead to.
LEMMA MorePages ==
  ASSUME NEW ps, NEW page
  PROVE  /\ \A t, l, e : Held(ps, t, l, e) => Held(ps \cup {page}, t, l, e)
         /\ \A t, l, e : Leads(ps, t, l, e) => Leads(ps \cup {page}, t, l, e)
  BY DEF Held, Leads, OnLevel

\* What finish() sorts into a tree.
LEMMA SourceFacts ==
  ASSUME TypeOK, SourceInv, NEW t \in Trees
  PROVE  EntriesOf(t) \subseteq Entry /\ IsFiniteSet(EntriesOf(t)) /\ KeysApart(EntriesOf(t))
<1>1. NbtEntries \subseteq Entry /\ KeysApart(NbtEntries)
  BY DEF TypeOK, SourceInv, NbtEntries, Entry, KeysApart
<1>2. BbtEntries \subseteq Entry /\ KeysApart(BbtEntries)
  BY DEF TypeOK, SourceInv, BbtEntries, Entry, KeysApart
<1>3. IsFiniteSet(NbtEntries)
  <2> DEFINE g == [e \in nbt |-> [key |-> e.nid, ref |-> e.data]]
  <2>1. g \in Surjection(nbt, NbtEntries)
    BY DEF Surjection, NbtEntries
  <2> HIDE DEF g
  <2> QED
    BY <2>1, FS_Surjection DEF SourceInv
<1>4. IsFiniteSet(BbtEntries)
  <2> DEFINE g == [e \in bbt |-> [key |-> e.bid, ref |-> e.ib]]
  <2>1. g \in Surjection(bbt, BbtEntries)
    BY DEF Surjection, BbtEntries
  <2> HIDE DEF g
  <2> QED
    BY <2>1, FS_Surjection DEF SourceInv
<1> QED
  BY <1>1, <1>2, <1>3, <1>4 DEF EntriesOf

----------------------------------------------------------------------------
(* Building a level, and a tree.                                           *)

\* A page with the smallest entries left goes after the pages of its level.
LEMMA AddPage ==
  ASSUME NEW ps, NEW t \in Trees, NEW l, NEW todo, NEW next, NEW es, NEW chunk, NEW page,
         Shaped(ps), Partly(ps, t, l, todo, next, es),
         chunk \subseteq todo, Before(chunk, todo \ chunk),
         Cardinality(chunk) <= PerPage(t, l),
         page.tree = t, page.level = l, page.entries = chunk, page.ib \in Nat,
         \A p \in ps : p.ib # page.ib
  PROVE  /\ Shaped(ps \cup {page})
         /\ Partly(ps \cup {page}, t, l, todo \ chunk, next \cup {Branch(page)}, es)
<1> DEFINE qs == ps \cup {page}
           rest == todo \ chunk
<1>1. /\ l \in Nat /\ todo \subseteq Entry /\ IsFiniteSet(todo) /\ KeysApart(todo)
      /\ next = {Branch(p) : p \in OnLevel(ps, t, l)} /\ IsFiniteSet(next)
  BY DEF Partly
<1>2. /\ \A u, m, e : Held(ps, u, m, e) => Held(qs, u, m, e)
      /\ \A u, m, e : Leads(ps, u, m, e) => Leads(qs, u, m, e)
  BY MorePages
<1>3. \A p \in ps : p.tree = t /\ p.level = l => Before(p.entries, todo)
  BY DEF Partly
<1>4. \A e \in chunk : Held(qs, t, l, e)
  BY DEF Held, OnLevel
<1>5. Shaped(qs)
  <2>1. ASSUME NEW p \in qs
        PROVE  /\ p.ib \in Nat /\ p.tree \in Trees /\ p.level \in Nat /\ p.entries \subseteq Entry
               /\ Cardinality(p.entries) <= PerPage(p.tree, p.level)
    <3>1. CASE p \in ps
      BY <3>1 DEF Shaped
    <3>2. CASE p = page
      BY <1>1, <3>2
    <3> QED
      BY <3>1, <3>2
  <2>2. \A p, q \in qs : p.ib = q.ib => p = q
    BY DEF Shaped
  <2>3. ASSUME NEW p \in qs, NEW q \in qs, p.tree = q.tree, p.level = q.level
        PROVE  p = q \/ Before(p.entries, q.entries) \/ Before(q.entries, p.entries)
    <3>1. CASE p \in ps /\ q \in ps
      BY <2>3, <3>1 DEF Shaped
    <3>2. CASE p \in ps /\ q = page
      BY <1>3, <2>3, <3>2 DEF Before
    <3>3. CASE p = page /\ q \in ps
      BY <1>3, <2>3, <3>3 DEF Before
    <3> QED
      BY <3>1, <3>2, <3>3
  <2>4. ASSUME NEW p \in qs, p.level > 0, NEW e \in p.entries
        PROVE  Leads(qs, p.tree, p.level - 1, e)
    <3>1. CASE p \in ps
      <4>1. Leads(ps, p.tree, p.level - 1, e)
        BY <2>4, <3>1 DEF Shaped
      <4> QED
        BY <1>2, <4>1
    <3>2. CASE p = page
      <4>1. e \in todo /\ l > 0
        BY <2>4, <3>2
      <4>2. Leads(ps, t, l - 1, e)
        BY <4>1 DEF Partly
      <4> QED
        BY <1>2, <3>2, <4>2
    <3> QED
      BY <3>1, <3>2
  <2> HIDE DEF qs
  <2> QED
    BY <2>1, <2>2, <2>3, <2>4 DEF Shaped
<1>6. rest \subseteq Entry /\ IsFiniteSet(rest) /\ KeysApart(rest)
  BY <1>1, FS_Subset DEF KeysApart
<1>7. /\ next \cup {Branch(page)} = {Branch(p) : p \in OnLevel(qs, t, l)}
      /\ IsFiniteSet(next \cup {Branch(page)})
  <2>1. OnLevel(qs, t, l) = OnLevel(ps, t, l) \cup {page}
    BY DEF OnLevel
  <2>2. IsFiniteSet(next \cup {Branch(page)})
    BY <1>1, FS_AddElement
  <2> QED
    BY <1>1, <2>1, <2>2
<1>8. ASSUME NEW p \in qs, p.tree = t
      PROVE  /\ p.level <= l
             /\ p.level = l => Before(p.entries, rest)
             /\ p.level < l => \/ Held(qs, t, p.level + 1, Branch(p))
                               \/ p.level + 1 = l /\ Branch(p) \in rest
  <2>1. CASE p \in ps
    <3>1. p.level <= l
      BY <1>8, <2>1 DEF Partly
    <3>2. ASSUME p.level = l PROVE Before(p.entries, rest)
      BY <1>3, <1>8, <2>1, <3>2 DEF Before
    <3>3. ASSUME p.level < l
          PROVE  Held(qs, t, p.level + 1, Branch(p)) \/ (p.level + 1 = l /\ Branch(p) \in rest)
      <4>1. \/ Held(ps, t, p.level + 1, Branch(p))
            \/ p.level + 1 = l /\ Branch(p) \in todo
        BY <1>8, <2>1, <3>3 DEF Partly
      <4>2. CASE Held(ps, t, p.level + 1, Branch(p))
        BY <1>2, <4>2
      <4>3. CASE p.level + 1 = l /\ Branch(p) \in chunk
        BY <1>4, <4>3
      <4> QED
        BY <4>1, <4>2, <4>3
    <3> QED
      BY <3>1, <3>2, <3>3
  <2>2. CASE p = page
    BY <1>1, <2>2
  <2> QED
    BY <2>1, <2>2
<1>9. ASSUME NEW e \in es PROVE Held(qs, t, 0, e) \/ (l = 0 /\ e \in rest)
  <2>1. Held(ps, t, 0, e) \/ (l = 0 /\ e \in todo)
    BY DEF Partly
  <2>2. CASE Held(ps, t, 0, e)
    BY <1>2, <2>2
  <2>3. CASE l = 0 /\ e \in chunk
    BY <1>4, <2>3
  <2> QED
    BY <2>1, <2>2, <2>3
<1>10. ASSUME l > 0, NEW e \in rest PROVE Leads(qs, t, l - 1, e)
  <2>1. Leads(ps, t, l - 1, e)
    BY <1>10 DEF Partly
  <2> QED
    BY <1>2, <2>1
<1> HIDE DEF qs, rest
<1>11. Partly(qs, t, l, rest, next \cup {Branch(page)}, es)
  BY <1>1, <1>6, <1>7, <1>8, <1>9, <1>10 DEF Partly
<1> QED
  BY <1>5, <1>11 DEF qs, rest

\* Pages of one level that hold something have low keys of their own.
LEMMA BranchesApart ==
  ASSUME NEW ps, NEW t, NEW l, Shaped(ps), \A p \in OnLevel(ps, t, l) : p.entries # {}
  PROVE  \A p, q \in OnLevel(ps, t, l) : LowKey(p.entries) = LowKey(q.entries) => p = q
<1> SUFFICES ASSUME NEW p \in OnLevel(ps, t, l), NEW q \in OnLevel(ps, t, l),
                    LowKey(p.entries) = LowKey(q.entries), p # q
             PROVE  FALSE
  OBVIOUS
<1>1. /\ p \in ps /\ q \in ps /\ p.tree = q.tree /\ p.level = q.level
      /\ p.entries \subseteq Entry /\ q.entries \subseteq Entry
  BY DEF OnLevel, Shaped
<1>2. PICK e \in p.entries : e.key = LowKey(p.entries)
  BY <1>1, LowKeyFacts
<1>3. PICK f \in q.entries : f.key = LowKey(q.entries)
  BY <1>1, LowKeyFacts
<1>4. Before(p.entries, q.entries) \/ Before(q.entries, p.entries)
  BY <1>1 DEF Shaped
<1>5. e.key < f.key \/ f.key < e.key
  BY <1>4 DEF Before
<1>6. e.key \in Nat /\ f.key \in Nat
  BY <1>1 DEF Entry
<1> QED
  BY <1>2, <1>3, <1>5, <1>6

\* When a level is complete the level above starts with an entry for each page.
LEMMA NextLevel ==
  ASSUME NEW ps, NEW t \in Trees, NEW l, NEW next, NEW es, Shaped(ps),
         Partly(ps, t, l, {}, next, es), next # {},
         \A p \in ps : p.tree = t => p.entries # {}
  PROVE  Building(ps, t, l + 1, next, {}, es)
<1>1. /\ l \in Nat /\ next = {Branch(p) : p \in OnLevel(ps, t, l)} /\ IsFiniteSet(next)
      /\ \A p \in ps : p.tree = t => p.level <= l /\ p.level \in Nat
  BY DEF Partly, Shaped
<1>2. next \subseteq Entry
  <2>1. ASSUME NEW p \in OnLevel(ps, t, l) PROVE Branch(p) \in Entry
    <3>1. p.ib \in Nat /\ p.entries \subseteq Entry
      BY DEF OnLevel, Shaped
    <3>2. LowKey(p.entries) \in Nat
      BY <3>1, LowKeyFacts
    <3> QED
      BY <3>1, <3>2 DEF Branch, Entry
  <2> QED
    BY <1>1, <2>1
<1>3. KeysApart(next)
  <2> SUFFICES ASSUME NEW e \in next, NEW f \in next, e.key = f.key PROVE e = f
    BY DEF KeysApart
  <2>1. PICK p \in OnLevel(ps, t, l) : e = Branch(p)
    BY <1>1
  <2>2. PICK q \in OnLevel(ps, t, l) : f = Branch(q)
    BY <1>1
  <2>3. LowKey(p.entries) = LowKey(q.entries)
    BY <2>1, <2>2 DEF Branch
  <2>4. \A r \in OnLevel(ps, t, l) : r.entries # {}
    BY DEF OnLevel
  <2> QED
    BY <2>1, <2>2, <2>3, <2>4, BranchesApart
<1>4. OnLevel(ps, t, l + 1) = {}
  <2>1. \A p \in ps : p.tree = t => p.level # l + 1
    BY <1>1
  <2> QED
    BY <2>1 DEF OnLevel
<1>5. ASSUME NEW p \in ps, p.tree = t
      PROVE  /\ p.level <= l + 1 /\ p.level # l + 1
             /\ \/ Held(ps, t, p.level + 1, Branch(p))
                \/ p.level + 1 = l + 1 /\ Branch(p) \in next
  <2>1. p.level \in Nat /\ p.level <= l
    BY <1>1, <1>5
  <2>2. CASE p.level < l
    BY <1>5, <2>1, <2>2, <1>1 DEF Partly
  <2>3. CASE p.level = l
    <3>1. Branch(p) \in next
      BY <1>1, <1>5, <2>3 DEF OnLevel
    <3> QED
      BY <1>1, <2>3, <3>1
  <2> QED
    BY <1>1, <2>1, <2>2, <2>3
<1>6. \A e \in es : Held(ps, t, 0, e)
  BY DEF Partly
<1>7. \A e \in next : Leads(ps, t, (l + 1) - 1, e)
  <2>1. \A e \in next : Leads(ps, t, l, e)
    BY <1>1 DEF Leads
  <2> QED
    BY <1>1, <2>1
<1>8. {} = {Branch(p) : p \in OnLevel(ps, t, l + 1)} /\ IsFiniteSet({})
  BY <1>4, FS_EmptySet
<1>9. Partly(ps, t, l + 1, next, {}, es)
  <2> DEFINE m == l + 1
  <2>1. m \in Nat
    BY <1>1
  <2> HIDE DEF m
  <2>2. Partly(ps, t, m, next, {}, es)
    <3>1. /\ {} = {Branch(p) : p \in OnLevel(ps, t, m)} /\ IsFiniteSet({})
          /\ \A e \in next : Leads(ps, t, m - 1, e)
      BY <1>7, <1>8 DEF m
    <3>2. \A p \in ps : p.tree = t =>
            /\ p.level <= m /\ p.level # m
            /\ \/ Held(ps, t, p.level + 1, Branch(p))
               \/ p.level + 1 = m /\ Branch(p) \in next
      BY <1>5 DEF m
    <3> QED
      BY <1>1, <1>2, <1>3, <1>6, <2>1, <3>1, <3>2 DEF Partly
  <2> QED
    BY <2>2 DEF m
<1> QED
  BY <1>9 DEF Building

\* A level of one page is the top of a complete tree.
LEMMA TopPage ==
  ASSUME NEW ps, NEW t \in Trees, NEW l, NEW next, NEW es, NEW b, Shaped(ps),
         Partly(ps, t, l, {}, next, es), next = {b}
  PROVE  Complete(ps, t, b.ref, es)
<1>1. /\ l \in Nat /\ next = {Branch(p) : p \in OnLevel(ps, t, l)}
      /\ \A p \in ps : p.tree = t => p.level <= l /\ p.level \in Nat
  BY DEF Partly, Shaped
<1>2. PICK top \in OnLevel(ps, t, l) : b = Branch(top)
  BY <1>1
<1>3. top \in ps /\ top.tree = t /\ top.level = l /\ b.ref = top.ib
  BY <1>2 DEF OnLevel, Branch
<1>4. ASSUME NEW p \in ps, p.tree = t
      PROVE  p = top \/ (p.level < top.level /\ Held(ps, t, p.level + 1, Branch(p)))
  <2>1. CASE p.level = l
    <3>1. Branch(p) = b
      BY <1>1, <1>4, <2>1 DEF OnLevel
    <3>2. p.ib = top.ib
      BY <1>3, <3>1 DEF Branch
    <3> QED
      BY <1>3, <3>2 DEF Shaped
  <2>2. CASE p.level < l
    BY <1>3, <1>4, <2>2 DEF Partly
  <2> QED
    BY <1>1, <1>4, <2>1, <2>2
<1>5. \A e \in es : Held(ps, t, 0, e)
  BY DEF Partly
<1> QED
  BY <1>3, <1>4, <1>5 DEF Complete

\* A page of another tree changes nothing about a complete one.
LEMMA CompleteKept ==
  ASSUME NEW ps, NEW t, NEW root, NEW es, NEW page, Complete(ps, t, root, es), page.tree # t
  PROVE  Complete(ps \cup {page}, t, root, es)
<1> DEFINE qs == ps \cup {page}
<1>1. \A u, m, e : Held(ps, u, m, e) => Held(qs, u, m, e)
  BY MorePages
<1>2. PICK top \in ps :
        /\ top.ib = root /\ top.tree = t
        /\ \A p \in ps : p.tree = t =>
             p = top \/ (p.level < top.level /\ Held(ps, t, p.level + 1, Branch(p)))
        /\ \A e \in es : Held(ps, t, 0, e)
  BY DEF Complete
<1>3. \A p \in qs : p.tree = t =>
        p = top \/ (p.level < top.level /\ Held(qs, t, p.level + 1, Branch(p)))
  BY <1>1, <1>2
<1>4. top \in qs /\ \A e \in es : Held(qs, t, 0, e)
  BY <1>1, <1>2
<1> HIDE DEF qs
<1>5. Complete(qs, t, root, es)
  BY <1>2, <1>3, <1>4 DEF Complete
<1> QED
  BY <1>5 DEF qs

----------------------------------------------------------------------------
(* The steps.                                                              *)

\* The entry for a page is one.
LEMMA BranchIsEntry ==
  ASSUME NEW p, p.ib \in Nat, p.entries \subseteq Entry
  PROVE  Branch(p) \in Entry
  BY LowKeyFacts DEF Branch, Entry

\* A tree starts at its leaves, with every entry still to be placed.
LEMMA FreshTree ==
  ASSUME NEW ps, NEW t, NEW es, \A p \in ps : p.tree # t,
         es \subseteq Entry, IsFiniteSet(es), KeysApart(es)
  PROVE  Building(ps, t, 0, es, {}, es)
<1>1. OnLevel(ps, t, 0) = {}
  BY DEF OnLevel
<1>2. {} = {Branch(p) : p \in OnLevel(ps, t, 0)} /\ IsFiniteSet({})
  BY <1>1, FS_EmptySet
<1>3. Partly(ps, t, 0, es, {}, es)
  BY <1>2 DEF Partly
<1> QED
  BY <1>3 DEF Building

\* What a page is written from: the chunk fits, lies below the rest, and is only
\* empty when the tree is.
LEMMA ChunkOfPage ==
  ASSUME TypeInv, TreeInv, phase \in Trees
  PROVE  /\ NextChunk \subseteq build.todo /\ Before(NextChunk, build.todo \ NextChunk)
         /\ Cardinality(NextChunk) <= PerPage(phase, build.level)
         /\ NextChunk = {} => /\ build.todo = {} /\ EntriesOf(phase) = {} /\ build.next = {}
                              /\ \A p \in pages : p.tree # phase
<1>1. Building(pages, phase, build.level, build.todo, build.next, EntriesOf(phase))
  BY DEF TreeInv, BuildInv
<1>2. Partly(pages, phase, build.level, build.todo, build.next, EntriesOf(phase))
  BY <1>1 DEF Building
<1>3. entriesPerPage = PerPage(phase, build.level) /\ entriesPerPage \in Nat \ {0}
  BY TreeAssumption DEF entriesPerPage, PerPage, Trees, TreeAssumption
<1>4. build.todo \subseteq Entry /\ IsFiniteSet(build.todo) /\ KeysApart(build.todo)
  BY <1>2 DEF Partly
<1> DEFINE T == build.todo
           k == entriesPerPage
           c == NextChunk
<1>5. /\ c = Firsts(T, k)
      /\ k \in Nat \ {0} /\ T \subseteq Entry /\ IsFiniteSet(T) /\ KeysApart(T)
  BY <1>3, <1>4 DEF NextChunk, Firsts
<1> HIDE DEF T, k, c
<1>6. /\ c \subseteq T /\ Cardinality(c) <= k
      /\ Before(c, T \ c) /\ (T # {} => c # {})
  BY <1>5, ChunkFacts
<1>7. ASSUME NextChunk = {}
      PROVE  /\ T = {} /\ EntriesOf(phase) = {} /\ build.next = {}
             /\ \A p \in pages : p.tree # phase
  <2>1. T = {}
    BY <1>6, <1>7 DEF c
  <2>2. \A p \in pages : p.tree # phase
    BY <1>1, <2>1 DEF Building, T
  <2>3. \A l : OnLevel(pages, phase, l) = {}
    BY <2>2 DEF OnLevel
  <2>4. build.next = {}
    BY <1>2, <2>3 DEF Partly
  <2>5. \A e \in EntriesOf(phase) : Held(pages, phase, 0, e) \/ e \in T
    BY <1>2 DEF Partly, T
  <2>6. \A e : ~Held(pages, phase, 0, e)
    BY <2>3 DEF Held
  <2> QED
    BY <2>1, <2>2, <2>4, <2>5, <2>6
<1> QED
  BY <1>3, <1>6, <1>7 DEF T, k, c

\* A page that was written: the level goes on, the next one starts, the tree is
\* too deep, or it is complete.
LEMMA PageStep ==
  ASSUME TypeInv, SpaceInv, DiskInv, TreeInv, PageWritten
  PROVE  TreeInv'
<1> DEFINE page == [bid |-> makeBid(nextBid, FALSE), ib |-> cursor, tree |-> phase,
                    level |-> build.level, entries |-> NextChunk]
           rest == build.todo \ NextChunk
           more == build.next \cup {Branch(page)}
           ps == pages \cup {page}
           es == EntriesOf(phase)
<1>1. /\ phase \in Trees /\ fixedDone = 0 /\ fixedDone' = fixedDone
      /\ nbt' = nbt /\ bbt' = bbt
  BY DEF PageWritten, TypeInv, ReqInv, DiskInv, Ended, Trees
<1>2. /\ NbtEntries' = NbtEntries /\ BbtEntries' = BbtEntries
      /\ \A u : EntriesOf(u)' = EntriesOf(u)
  BY <1>1 DEF NbtEntries, BbtEntries, EntriesOf
<1>3. SourceInv'
  BY <1>1 DEF TreeInv, SourceInv
<1>4. /\ build \in [level : Nat, todo : SUBSET Entry, next : SUBSET Entry,
                    roots : [nbt : Nat, bbt : Nat]]
      /\ Building(pages, phase, build.level, build.todo, build.next, es)
      /\ phase = "bbt" => Complete(pages, "nbt", build.roots.nbt, NbtEntries)
      /\ Shaped(pages) /\ \A p \in pages : p.entries = {} => EntriesOf(p.tree) = {}
      /\ phase = "nbt" => \A p \in pages : p.tree = "nbt"
  BY <1>1 DEF TreeInv, BuildInv, PagesInv
<1>5. /\ NextChunk \subseteq build.todo /\ Before(NextChunk, rest)
      /\ Cardinality(NextChunk) <= PerPage(phase, build.level)
      /\ NextChunk = {} => /\ build.todo = {} /\ es = {} /\ build.next = {}
                           /\ \A p \in pages : p.tree # phase
  BY <1>1, ChunkOfPage
<1>6. /\ page.ib = cursor /\ page.tree = phase /\ page.level = build.level
      /\ page.entries = NextChunk /\ cursor \in Nat
  BY DEF TypeInv, TypeOK
<1>7. CASE writeAtThrows /\ phase' = "broken" /\ UNCHANGED <<pages, build>>
  <2>1. PagesInv'
    BY <1>2, <1>4, <1>7 DEF PagesInv
  <2>2. ~Past' /\ phase' \notin Trees
    BY <1>1, <1>7 DEF Past, Trees
  <2>3. BuildInv'
    BY <1>4, <1>7, <2>2 DEF BuildInv, Trees
  <2> QED
    BY <1>3, <2>1, <2>3 DEF TreeInv
<1>8. CASE writeAtOk(cursor) /\ pages' = pages \cup {page} /\ AfterPage(rest, more)
  <2>1. \A p \in pages : p.ib # page.ib
    <3> SUFFICES ASSUME NEW p \in pages PROVE p.ib # cursor
      BY <1>6
    <3> DEFINE x == [bid |-> p.bid, ib |-> p.ib, n |-> PageSize]
    <3>1. x \in Extents
      BY DEF Extents
    <3>2. x.ib + x.n <= cursor /\ x.ib = p.ib /\ x.n = PageSize
      BY <3>1 DEF SpaceInv
    <3>3. PageSize \in Nat \ {0} /\ p.ib \in Nat
      BY <1>4, GeometryAssumption DEF GeometryAssumption, Shaped
    <3> HIDE DEF x
    <3> QED
      BY <1>6, <3>2, <3>3
  <2> HIDE DEF page
  <2>2. Partly(pages, phase, build.level, build.todo, build.next, es)
    BY <1>4 DEF Building
  <2> HIDE DEF es
  <2>3. Shaped(ps) /\ Partly(ps, phase, build.level, rest, more, es)
    BY <1>1, <1>4, <1>5, <1>6, <2>1, <2>2, AddPage
  <2>4. \A p \in ps : p.entries = {} => EntriesOf(p.tree) = {}
    BY <1>4, <1>5, <1>6 DEF es
  <2>5. Branch(page) \in Entry /\ more \subseteq Entry
    <3>1. page.entries \subseteq Entry
      BY <1>4, <1>5, <1>6
    <3>2. Branch(page) \in Entry
      BY <1>6, <3>1, BranchIsEntry
    <3> QED
      BY <1>4, <3>2
  <2>6. pages' = ps
    BY <1>8
  <2> HIDE DEF ps, rest, more
  <2>7. phase' # "open" /\ (phase' = "nbt" => phase = "nbt")
    BY <1>1, <1>8 DEF AfterPage, Trees
  <2>8. PagesInv'
    <3>1. phase = "nbt" => \A p \in ps : p.tree = "nbt"
      BY <1>4, <1>6 DEF ps
    <3> QED
      BY <1>2, <2>3, <2>4, <2>6, <2>7, <3>1 DEF PagesInv
  <2>9. BuildInv'
    <3>1. CASE /\ rest # {} /\ build' = [build EXCEPT !.todo = rest, !.next = more]
               /\ phase' = phase
      <4>1. /\ build'.level = build.level /\ build'.todo = rest /\ build'.next = more
            /\ build'.roots = build.roots
        BY <1>4, <3>1
      <4>2. rest \subseteq Entry
        BY <1>4 DEF rest
      <4>3. build' \in [level : Nat, todo : SUBSET Entry, next : SUBSET Entry,
                        roots : [nbt : Nat, bbt : Nat]]
        BY <1>4, <2>5, <3>1, <4>2
      <4>4. \A p \in ps : p.tree = phase => p.entries # {}
        <5>1. NextChunk # {}
          BY <1>5, <3>1 DEF rest
        <5> QED
          BY <1>4, <1>6, <5>1 DEF Building, ps
      <4>5. Building(ps, phase, build.level, rest, more, es)
        BY <2>3, <3>1, <4>4 DEF Building
      <4>6. phase = "bbt" => Complete(ps, "nbt", build.roots.nbt, NbtEntries)
        <5> SUFFICES ASSUME phase = "bbt" PROVE Complete(ps, "nbt", build.roots.nbt, NbtEntries)
          OBVIOUS
        <5> QED
          BY <1>4, <1>6, CompleteKept DEF ps
      <4>7. ~Past'
        BY <1>1, <3>1 DEF Past, Trees
      <4> QED
        BY <1>2, <2>6, <3>1, <4>1, <4>3, <4>5, <4>6, <4>7 DEF BuildInv, es
    <3>2. CASE phase' = "broken" /\ build' = build
      <4>1. ~Past' /\ phase' \notin Trees /\ phase' # "bbt"
        BY <1>1, <3>2 DEF Past, Trees
      <4> QED
        BY <1>4, <3>2, <4>1 DEF BuildInv
    <3>3. CASE /\ rest = {} /\ Cardinality(more) > 1 /\ phase' = phase
               /\ build' = [build EXCEPT !.level = @ + 1, !.todo = more, !.next = {}]
      <4>1. /\ build'.level = build.level + 1 /\ build'.todo = more /\ build'.next = {}
            /\ build'.roots = build.roots /\ build.level \in Nat
        BY <1>4, <3>3
      <4>2. build' \in [level : Nat, todo : SUBSET Entry, next : SUBSET Entry,
                        roots : [nbt : Nat, bbt : Nat]]
        <5>1. build' = [level |-> build.level + 1, todo |-> more, next |-> {},
                        roots |-> build.roots]
          BY <1>4, <3>3
        <5>2. build.level + 1 \in Nat /\ build.roots \in [nbt : Nat, bbt : Nat]
          BY <1>4
        <5> QED
          BY <2>5, <5>1, <5>2
      <4>3. NextChunk # {} /\ more # {}
        <5>1. ASSUME NextChunk = {} PROVE FALSE
          <6>1. more = {Branch(page)}
            BY <1>5, <5>1 DEF more
          <6>2. Cardinality(more) = 1
            BY <6>1, FS_Singleton
          <6> QED
            BY <3>3, <6>2
        <5> QED
          BY <5>1 DEF more
      <4>4. \A p \in ps : p.tree = phase => p.entries # {}
        BY <1>4, <1>6, <4>3 DEF Building, ps
      <4>5. Building(ps, phase, build.level + 1, more, {}, es)
        BY <1>1, <2>3, <3>3, <4>3, <4>4, NextLevel
      <4>6. phase = "bbt" => Complete(ps, "nbt", build.roots.nbt, NbtEntries)
        <5> SUFFICES ASSUME phase = "bbt" PROVE Complete(ps, "nbt", build.roots.nbt, NbtEntries)
          OBVIOUS
        <5> QED
          BY <1>4, <1>6, CompleteKept DEF ps
      <4>7. ~Past'
        BY <1>1, <3>3 DEF Past, Trees
      <4> QED
        BY <1>2, <2>6, <3>3, <4>1, <4>2, <4>5, <4>6, <4>7 DEF BuildInv, es
    <3>4. CASE /\ rest = {} /\ ~(Cardinality(more) > 1)
               /\ phase' = (IF phase = "nbt" THEN "bbt" ELSE "pad")
               /\ build' = StartTree(IF phase = "nbt" THEN BbtEntries ELSE {},
                                     [build.roots EXCEPT ![phase] = (CHOOSE e \in more : TRUE).ref])
      <4>1. PICK b : more = {b}
        <5>1. IsFiniteSet(more) /\ more # {}
          BY <2>3 DEF Partly, more
        <5>2. Cardinality(more) \in Nat /\ Cardinality(more) # 0
          BY <5>1, FS_CardinalityType, FS_EmptySet
        <5>3. Cardinality(more) = 1
          BY <3>4, <5>2
        <5> QED
          BY <5>1, <5>3, FS_Singleton
      <4>2. (CHOOSE e \in more : TRUE) = b /\ b \in Entry /\ b.ref \in Nat
        BY <2>5, <4>1 DEF Entry
      <4>3. Complete(ps, phase, b.ref, es)
        BY <1>1, <2>3, <3>4, <4>1, TopPage
      <4>4. /\ build'.level = 0 /\ build'.next = {}
            /\ build'.todo = (IF phase = "nbt" THEN BbtEntries ELSE {})
            /\ build'.roots = [build.roots EXCEPT ![phase] = b.ref]
        BY <3>4, <4>2 DEF StartTree
      <4>5. build'.roots \in [nbt : Nat, bbt : Nat]
        BY <1>1, <1>4, <4>2, <4>4 DEF Trees
      <4>6. EntriesOf("bbt") = BbtEntries /\ EntriesOf("nbt") = NbtEntries
        BY DEF EntriesOf
      <4>7. BbtEntries \subseteq Entry /\ IsFiniteSet(BbtEntries) /\ KeysApart(BbtEntries)
        BY <4>6, SourceFacts DEF Trees, TreeInv, TypeInv
      <4>8. build' \in [level : Nat, todo : SUBSET Entry, next : SUBSET Entry,
                        roots : [nbt : Nat, bbt : Nat]]
        <5>1. build'.todo \subseteq Entry
          BY <4>4, <4>7
        <5>2. build' = [level |-> 0, todo |-> build'.todo, next |-> {}, roots |-> build'.roots]
          BY <3>4 DEF StartTree
        <5> QED
          BY <4>5, <5>1, <5>2
      <4>9. CASE phase = "nbt"
        <5>1. \A p \in ps : p.tree # "bbt"
          BY <1>4, <1>6, <4>9 DEF ps
        <5>2. Building(ps, "bbt", 0, BbtEntries, {}, BbtEntries)
          BY <4>7, <5>1, FreshTree
        <5>3. build'.roots.nbt = b.ref /\ phase' = "bbt" /\ build'.todo = BbtEntries
          BY <1>4, <3>4, <4>4, <4>9
        <5>4. Complete(ps, "nbt", build'.roots.nbt, NbtEntries)
          BY <4>3, <4>6, <4>9, <5>3 DEF es
        <5>5. ~Past'
          BY <1>1, <5>3 DEF Past
        <5> QED
          BY <1>2, <2>6, <4>4, <4>6, <4>8, <5>2, <5>3, <5>4, <5>5 DEF BuildInv
      <4>10. CASE phase = "bbt"
        <5>1. build'.roots.bbt = b.ref /\ build'.roots.nbt = build.roots.nbt /\ phase' = "pad"
          BY <1>4, <3>4, <4>4, <4>10
        <5>2. Complete(ps, "bbt", build'.roots.bbt, BbtEntries)
          BY <4>3, <4>6, <4>10, <5>1 DEF es
        <5>3. Complete(ps, "nbt", build'.roots.nbt, NbtEntries)
          BY <1>4, <1>6, <4>10, <5>1, CompleteKept DEF ps
        <5>4. phase' \notin Trees
          BY <5>1 DEF Trees
        <5> QED
          BY <1>2, <2>6, <4>8, <5>2, <5>3, <5>4 DEF BuildInv
      <4> QED
        BY <1>1, <4>9, <4>10 DEF Trees
    <3> QED
      BY <1>8, <3>1, <3>2, <3>3, <3>4 DEF AfterPage
  <2> QED
    BY <1>3, <2>8, <2>9 DEF TreeInv
<1>9. [key |-> (IF NextChunk = {} THEN 0 ELSE Min({e.key : e \in NextChunk})), ref |-> cursor]
        = Branch(page)
  BY DEF Branch, LowKey
<1> QED
  BY <1>7, <1>8, <1>9 DEF PageWritten

\* A step outside finish() adds a node or a block under a key of its own.
LEMMA SourceStep ==
  ASSUME TypeInv, SpaceInv, SourceInv, [Next]_vars
  PROVE  SourceInv'
<1>1. CASE UNCHANGED <<nbt, bbt>>
  BY <1>1 DEF SourceInv
<1>2. CASE BlockWritten
  <2> DEFINE new == [bid |-> makeBid(nextBid, req.internal), ib |-> cursor, n |-> req.n]
  <2>1. nbt' = nbt /\ (bbt' = bbt \/ bbt' = bbt \cup {new})
    BY <1>2 DEF BlockWritten
  <2>2. req.internal \in BOOLEAN /\ nextBid \in Nat
    BY DEF TypeInv, TypeOK, Requests
  <2>3. new.bid \in Nat /\ new.bid >= 4 * nextBid
    BY <2>2, MakeBidNat
  <2>4. \A b \in bbt : b.bid \in Nat /\ b.bid < 4 * nextBid
    <3> SUFFICES ASSUME NEW b \in bbt PROVE b.bid \in Nat /\ b.bid < 4 * nextBid
      OBVIOUS
    <3> DEFINE x == [bid |-> b.bid, ib |-> b.ib, n |-> b.n]
    <3>1. x \in Extents /\ x.bid = b.bid
      BY DEF Extents
    <3> HIDE DEF x
    <3> QED
      BY <3>1 DEF SpaceInv
  <2> HIDE DEF new
  <2>5. \A b \in bbt : b.bid # new.bid
    BY <2>2, <2>3, <2>4
  <2>6. IsFiniteSet(bbt \cup {new})
    BY FS_AddElement DEF SourceInv
  <2> QED
    BY <2>1, <2>5, <2>6 DEF SourceInv
<1>3. CASE \E nid \in Nids, b \in bbt : addNode(nid, b.bid)
  <2>1. PICK nid \in Nids, b \in bbt : addNode(nid, b.bid)
    BY <1>3
  <2> DEFINE new == [nid |-> nid, data |-> b.bid]
  <2>2. nbt' = nbt \cup {new} /\ bbt' = bbt /\ new.nid = nid /\ \A e \in nbt : e.nid # nid
    BY <2>1 DEF addNode
  <2> HIDE DEF new
  <2>3. IsFiniteSet(nbt \cup {new})
    BY FS_AddElement DEF SourceInv
  <2> QED
    BY <2>2, <2>3 DEF SourceInv
<1> QED
  BY <1>1, <1>2, <1>3 DEF Next, vars, emitBlock, SkipReserved, finish, allocatePage, PageWritten,
                          Pad, emitFixedPages, writeHeader, Flush, Abandon

\* Every step keeps the invariant of the trees.
LEMMA TreeStep ==
  ASSUME TypeInv, SpaceInv, DiskInv, TreeInv, [Next]_vars
  PROVE  TreeInv'
<1>s. SourceInv'
  BY SourceStep DEF TreeInv
<1>1. ASSUME UNCHANGED <<nbt, bbt, pages, build>>,
             \/ phase' = phase
             \/ phase' \notin Trees \cup {"open"} /\ (Past' => Past),
             phase' = phase => fixedDone' = fixedDone \/ (fixedDone' # 0 /\ Past)
      PROVE  TreeInv'
  <2>1. /\ NbtEntries' = NbtEntries /\ BbtEntries' = BbtEntries
        /\ \A u : EntriesOf(u)' = EntriesOf(u)
    BY <1>1 DEF NbtEntries, BbtEntries, EntriesOf
  <2>2. PagesInv'
    BY <1>1, <2>1 DEF PagesInv, TreeInv, Trees
  <2>3. (Past' => Past) /\ (phase' \in Trees => phase' = phase)
    BY <1>1 DEF Past
  <2>4. phase' = "bbt" => phase' \in Trees
    BY DEF Trees
  <2>5. BuildInv'
    BY <1>1, <2>1, <2>3, <2>4 DEF BuildInv, TreeInv
  <2> QED
    BY <1>s, <2>2, <2>5 DEF TreeInv
<1>2. ASSUME phase = "open", phase' = phase, UNCHANGED <<pages, build, fixedDone>> PROVE TreeInv'
  <2>1. ~Past' /\ phase' \notin Trees /\ phase' # "bbt" /\ phase' # "nbt"
    BY <1>2 DEF DiskInv, Past, Trees, Ended
  <2>2. PagesInv'
    BY <1>2, <2>1 DEF PagesInv, TreeInv, Shaped
  <2>3. BuildInv'
    BY <1>2, <2>1 DEF BuildInv, TreeInv
  <2> QED
    BY <1>s, <2>2, <2>3 DEF TreeInv
<1>3. CASE finish
  <2>1. /\ phase = "open" /\ phase' = "nbt" /\ pages' = pages /\ pages = {} /\ nbt' = nbt
        /\ build' = StartTree(NbtEntries, [nbt |-> 0, bbt |-> 0]) /\ fixedDone' = fixedDone
    BY <1>3 DEF finish, TreeInv, PagesInv
  <2>2. fixedDone = 0
    BY <2>1 DEF DiskInv, Ended
  <2>3. NbtEntries' = NbtEntries /\ EntriesOf("nbt") = NbtEntries
    BY <2>1 DEF NbtEntries, EntriesOf
  <2>4. EntriesOf("nbt")' = NbtEntries
    BY <2>3 DEF EntriesOf
  <2>5. NbtEntries \subseteq Entry /\ IsFiniteSet(NbtEntries) /\ KeysApart(NbtEntries)
    BY <2>3, SourceFacts DEF Trees, TreeInv, TypeInv
  <2>6. Building({}, "nbt", 0, NbtEntries, {}, NbtEntries)
    BY <2>5, FreshTree
  <2>7. PagesInv'
    BY <2>1 DEF PagesInv, Shaped
  <2>8. ~Past'
    BY <2>1, <2>2 DEF Past
  <2>9. BuildInv'
    <3>1. build' = [level |-> 0, todo |-> NbtEntries, next |-> {}, roots |-> [nbt |-> 0, bbt |-> 0]]
      BY <2>1 DEF StartTree
    <3>2. build' \in [level : Nat, todo : SUBSET Entry, next : SUBSET Entry,
                      roots : [nbt : Nat, bbt : Nat]]
      BY <2>5, <3>1
    <3>3. Building(pages', phase', build'.level, build'.todo, build'.next, EntriesOf(phase)')
      BY <2>1, <2>4, <2>6, <3>1
    <3> QED
      BY <2>1, <2>8, <3>2, <3>3 DEF BuildInv
  <2> QED
    BY <1>s, <2>7, <2>9 DEF TreeInv
<1>4. CASE PageWritten
  BY <1>4, PageStep
<1>5. CASE BlockWritten
  <2>1. phase = "open"
    BY <1>5 DEF BlockWritten, TypeInv, ReqInv
  <2> QED
    BY <1>2, <1>5, <2>1 DEF BlockWritten
<1>6. CASE \E nid \in Nids, b \in bbt : addNode(nid, b.bid)
  BY <1>2, <1>6 DEF addNode
<1>7. CASE Pad \/ writeHeader \/ Flush
  <2>1. /\ UNCHANGED <<nbt, bbt, pages, build, fixedDone>> /\ Past
        /\ phase' \notin Trees \cup {"open"} /\ phase' # phase
    BY <1>7 DEF Pad, writeHeader, Flush, Past, Trees
  <2> QED
    BY <1>1, <2>1
<1>8. CASE emitFixedPages
  <2>1. /\ UNCHANGED <<nbt, bbt, pages, build>> /\ Past /\ phase' \notin Trees \cup {"open"}
    BY <1>8 DEF emitFixedPages, Past, Trees
  <2>2. fixedDone' = fixedDone \/ fixedDone' # 0
    BY <1>8 DEF emitFixedPages, TypeInv, TypeOK
  <2> QED
    BY <1>1, <2>1, <2>2
<1>9. CASE Abandon
  <2>1. /\ UNCHANGED <<nbt, bbt, pages, build, fixedDone>> /\ phase' = "aborted"
        /\ phase \in {"open", "broken"}
    BY <1>9 DEF Abandon
  <2>2. phase' \notin Trees \cup {"open"} /\ (Past' => Past) /\ phase' # phase
    BY <2>1 DEF Past, Trees
  <2> QED
    BY <1>1, <2>1, <2>2
<1>10. CASE UNCHANGED <<nbt, bbt, pages, build, phase, fixedDone>>
  BY <1>1, <1>10
<1> QED
  BY <1>3, <1>4, <1>5, <1>6, <1>7, <1>8, <1>9, <1>10
     DEF Next, vars, emitBlock, SkipReserved, allocatePage

\* The constructor starts with no trees.
LEMMA TreeInit == Init => TreeInv
<1> SUFFICES ASSUME Init PROVE TreeInv
  OBVIOUS
<1>1. SourceInv
  BY FS_EmptySet DEF Init, SourceInv
<1>2. PagesInv
  BY DEF Init, PagesInv, Shaped
<1>3. BuildInv
  <2>1. build = [level |-> 0, todo |-> {}, next |-> {}, roots |-> [nbt |-> 0, bbt |-> 0]]
    BY DEF Init, StartTree
  <2>2. phase \notin Trees /\ ~Past /\ phase # "bbt"
    BY DEF Init, Past, Trees
  <2> QED
    BY <2>1, <2>2 DEF BuildInv
<1> QED
  BY <1>1, <1>2, <1>3 DEF TreeInv

\* The invariant of the trees holds throughout.
LEMMA TreeInvAlways == Spec => []TreeInv
<1>1. IInv /\ TreeInv /\ [Next]_vars => TreeInv'
  BY TreeStep DEF IInv
<1> QED
  BY <1>1, TreeInit, IInvAlways, PTL DEF Spec

----------------------------------------------------------------------------
(* The descent of a reader.                                                *)

\* On its level p is the last page that does not start above k.
Covers(t, k, p) ==
  /\ p.tree = t /\ LowKey(p.entries) <= k
  /\ \A q \in OnLevel(pages, t, p.level) :
       LowKey(q.entries) <= k => LowKey(q.entries) <= LowKey(p.entries)

\* The page at the top, as Complete has it, of a tree that has entries.
Tops(t, es, top) ==
  /\ top \in pages /\ top.tree = t
  /\ \A p \in pages : p.tree = t =>
       /\ p.entries # {}
       /\ p = top \/ (p.level < top.level /\ Held(pages, t, p.level + 1, Branch(p)))
  /\ \A e \in es : Held(pages, t, 0, e)

\* Of two pages of a level, one ends below the start of the other.
LEMMA PagesInOrder ==
  ASSUME Shaped(pages), NEW p \in pages, NEW q \in pages, p.tree = q.tree, p.level = q.level,
         p # q, p.entries # {}, q.entries # {}, LowKey(p.entries) <= LowKey(q.entries)
  PROVE  \A e \in p.entries : e.key < LowKey(q.entries)
<1>1. p.entries \subseteq Entry /\ q.entries \subseteq Entry
  BY DEF Shaped
<1>2. PICK a \in p.entries : a.key = LowKey(p.entries)
  BY <1>1, LowKeyFacts
<1>3. PICK b \in q.entries : b.key = LowKey(q.entries)
  BY <1>1, LowKeyFacts
<1>4. a.key \in Nat /\ b.key \in Nat
  BY <1>1 DEF Entry
<1>5. ~(b.key < a.key)
  BY <1>2, <1>3, <1>4
<1>6. Before(p.entries, q.entries)
  BY <1>5 DEF Shaped, Before
<1> QED
  BY <1>3, <1>6 DEF Before

\* The top covers every key of the tree.
LEMMA TopCovers ==
  ASSUME Shaped(pages), NEW t \in Trees, NEW es, es \subseteq Entry, NEW top, Tops(t, es, top),
         NEW e \in es
  PROVE  Covers(t, e.key, top)
<1> DEFINE k == e.key
           n == top.level
           S == {l \in 0 .. n : \E p \in OnLevel(pages, t, l) : LowKey(p.entries) <= k}
<1>1. n \in Nat /\ k \in Nat /\ top \in pages /\ top.tree = t
  BY DEF Tops, Shaped, Entry
<1>2. \A p \in pages : p.entries \subseteq Entry /\ p.level \in Nat
  BY DEF Shaped
<1>3. S # {} /\ S \subseteq 0 .. n
  <2>1. PICK q \in OnLevel(pages, t, 0) : e \in q.entries
    BY DEF Tops, Held
  <2>2. q \in pages
    BY DEF OnLevel
  <2>3. LowKey(q.entries) <= k
    BY <1>2, <2>1, <2>2, LowKeyFacts
  <2>4. 0 \in S
    BY <1>1, <2>1, <2>3
  <2> QED
    BY <2>4
<1> HIDE DEF k, n
<1>4. PICK g \in S : \A l \in S : l <= g
  BY <1>1, <1>3, Greatest
<1>5. PICK p \in OnLevel(pages, t, g) : LowKey(p.entries) <= k
  BY <1>4
<1>6. p \in pages /\ p.tree = t /\ p.level = g /\ g \in Nat
  BY <1>2, <1>5 DEF OnLevel
<1>7. p = top
  <2> SUFFICES ASSUME p # top PROVE FALSE
    OBVIOUS
  <2>1. g < n /\ Held(pages, t, g + 1, Branch(p))
    BY <1>6 DEF Tops, n
  <2>2. PICK s \in OnLevel(pages, t, g + 1) : Branch(p) \in s.entries
    BY <2>1 DEF Held
  <2>3. s \in pages /\ s.entries \subseteq Entry /\ p.entries \subseteq Entry
    BY <1>2, <1>6, <2>2 DEF OnLevel
  <2>4. LowKey(s.entries) <= LowKey(p.entries)
    <3>1. LowKey(s.entries) <= Branch(p).key
      BY <2>2, <2>3, LowKeyFacts
    <3> QED
      BY <3>1 DEF Branch
  <2>5. LowKey(s.entries) \in Nat /\ LowKey(p.entries) \in Nat
    BY <2>3, LowKeyFacts
  <2>6. LowKey(s.entries) <= k
    BY <1>1, <1>5, <2>4, <2>5
  <2> DEFINE h == g + 1
  <2>7. h \in 0 .. n /\ ~(h <= g)
    BY <1>1, <1>6, <2>1
  <2>8. s \in OnLevel(pages, t, h)
    BY <2>2
  <2> HIDE DEF h
  <2>9. h \in S
    BY <2>6, <2>7, <2>8
  <2> HIDE DEF S
  <2> QED
    BY <1>4, <2>7, <2>9
<1>8. ASSUME NEW q \in OnLevel(pages, t, top.level) PROVE q = top
  <2>1. q \in pages /\ q.tree = t /\ q.level = top.level
    BY DEF OnLevel
  <2>2. ~(q.level < top.level)
    BY <1>2, <2>1
  <2> QED
    BY <2>1, <2>2 DEF Tops
<1>9. LowKey(top.entries) <= k /\ LowKey(top.entries) \in Nat
  BY <1>1, <1>2, <1>5, <1>7, LowKeyFacts
<1> QED
  BY <1>1, <1>8, <1>9 DEF Covers, k

\* The last entry not above k of a page that covers k leads to one that does.
LEMMA ChildCovers ==
  ASSUME Shaped(pages), NEW t \in Trees, NEW es, NEW top, Tops(t, es, top), NEW k \in Nat,
         NEW p \in pages, Covers(t, k, p), p.level > 0,
         NEW q, q = PageAt(ChildOf(p, k))
  PROVE  q \in pages /\ q.level = p.level - 1 /\ Covers(t, k, q)
<1>0. /\ p.tree = t /\ p.entries \subseteq Entry /\ p.level \in Nat /\ p.entries # {}
      /\ LowKey(p.entries) <= k /\ LowKey(p.entries) \in Nat
  BY LowKeyFacts DEF Covers, Shaped, Tops
<1> DEFINE Last(c) == c.key <= k /\ \A f \in p.entries : f.key <= k => f.key <= c.key
<1>1. \E c \in p.entries : Last(c)
  <2> DEFINE K == {x \in 0 .. k : \E c \in p.entries : c.key = x}
  <2>1. PICK a \in p.entries : a.key = LowKey(p.entries)
    BY <1>0, LowKeyFacts
  <2>2. a.key \in K
    BY <1>0, <2>1
  <2>3. K \subseteq 0 .. k /\ K # {}
    BY <2>2
  <2>4. \A f \in p.entries : f.key <= k => f.key \in K
    BY <1>0 DEF Entry
  <2>5. \A x \in K : x \in 0 .. k /\ \E c \in p.entries : c.key = x
    OBVIOUS
  <2> HIDE DEF K
  <2>6. PICK x \in K : \A y \in K : y <= x
    BY <2>3, Greatest
  <2>7. PICK c \in p.entries : c.key = x
    BY <2>5, <2>6
  <2> QED
    BY <2>4, <2>5, <2>6, <2>7
<1>2. PICK c \in p.entries : Last(c) /\ ChildOf(p, k) = c.ref
  <2> DEFINE d == CHOOSE c \in p.entries : Last(c)
  <2>1. d \in p.entries /\ Last(d)
    BY <1>1
  <2>2. ChildOf(p, k) = d.ref
    BY DEF ChildOf
  <2> HIDE DEF d
  <2> QED
    BY <2>1, <2>2
<1>3. PICK r \in OnLevel(pages, t, p.level - 1) : c = Branch(r)
  BY <1>0, <1>2 DEF Shaped, Leads
<1>4. /\ r \in pages /\ r.tree = t /\ r.level = p.level - 1 /\ r.ib = c.ref
      /\ LowKey(r.entries) = c.key
  BY <1>3 DEF OnLevel, Branch
<1>5. q = r
  <2>1. q = PageAt(c.ref)
    BY <1>2
  <2>2. \A s \in pages : s.ib = c.ref => s = r
    BY <1>4 DEF Shaped
  <2> QED
    BY <1>4, <2>1, <2>2 DEF PageAt
<1>6. c.key \in Nat /\ c.key <= k
  BY <1>0, <1>2 DEF Entry
<1>7. ASSUME NEW s \in OnLevel(pages, t, r.level), LowKey(s.entries) <= k
      PROVE  LowKey(s.entries) <= c.key
  <2>1. s \in pages /\ s.tree = t /\ s.level = p.level - 1
    BY <1>4 DEF OnLevel
  <2>2. s # top
    <3>1. p.level <= top.level /\ top.level \in Nat
      BY <1>0 DEF Tops, Shaped
    <3> QED
      BY <1>0, <2>1, <3>1
  <2>3. Held(pages, t, s.level + 1, Branch(s)) /\ s.level + 1 = p.level
    BY <1>0, <2>1, <2>2 DEF Tops
  <2>4. PICK o \in OnLevel(pages, t, p.level) : Branch(s) \in o.entries
    BY <2>3 DEF Held
  <2>5. o \in pages /\ o.tree = t /\ o.level = p.level /\ o.entries \subseteq Entry /\ o.entries # {}
    BY <2>4 DEF OnLevel, Shaped
  <2> DEFINE x == LowKey(s.entries)
             y == LowKey(o.entries)
  <2>6. Branch(s).key = x
    BY DEF Branch
  <2>7. y <= x /\ x \in Nat /\ y \in Nat
    <3>1. s.entries \subseteq Entry
      BY <2>1 DEF Shaped
    <3>2. LowKey(o.entries) <= Branch(s).key
      BY <2>4, <2>5, LowKeyFacts
    <3> QED
      BY <2>5, <2>6, <3>1, <3>2, LowKeyFacts
  <2> HIDE DEF x, y
  <2>8. x <= k
    BY <1>7 DEF x
  <2>9. y <= k
    BY <2>7, <2>8
  <2>10. y <= LowKey(p.entries)
    BY <2>4, <2>9 DEF Covers, y
  <2>11. CASE o = p
    BY <1>2, <2>4, <2>6, <2>8, <2>11 DEF x
  <2>12. CASE o # p
    <3>1. \A f \in o.entries : f.key < LowKey(p.entries)
      BY <1>0, <2>5, <2>10, <2>12, PagesInOrder DEF y
    <3>2. x < LowKey(p.entries)
      BY <2>4, <2>6, <3>1
    <3>3. LowKey(p.entries) <= c.key
      BY <1>0, <1>2, LowKeyFacts
    <3> QED
      BY <1>0, <1>6, <2>7, <3>2, <3>3 DEF x
  <2> QED
    BY <2>11, <2>12
<1>8. Covers(t, k, r)
  BY <1>4, <1>6, <1>7 DEF Covers
<1> QED
  BY <1>4, <1>5, <1>8

\* The leaf that covers the key of an entry has the entry.
LEMMA LeafHolds ==
  ASSUME Shaped(pages), NEW t \in Trees, NEW es, NEW top, Tops(t, es, top), NEW e \in es,
         NEW p \in pages, p.level = 0, Covers(t, e.key, p)
  PROVE  e \in p.entries
<1>1. PICK q \in OnLevel(pages, t, 0) : e \in q.entries
  BY DEF Tops, Held
<1>2. /\ q \in pages /\ q.tree = t /\ q.level = 0 /\ p.tree = t
      /\ q.entries # {} /\ p.entries # {} /\ q.entries \subseteq Entry /\ p.entries \subseteq Entry
  BY <1>1 DEF OnLevel, Covers, Shaped, Tops
<1>3. /\ LowKey(q.entries) <= e.key /\ e.key \in Nat /\ LowKey(p.entries) \in Nat
  BY <1>1, <1>2, LowKeyFacts DEF Entry
<1>4. LowKey(q.entries) <= LowKey(p.entries) /\ LowKey(p.entries) <= e.key
  BY <1>1, <1>3 DEF Covers
<1>5. CASE q # p
  <2>1. e.key < LowKey(p.entries)
    BY <1>1, <1>2, <1>4, <1>5, PagesInOrder
  <2> QED
    BY <1>3, <1>4, <2>1
<1> QED
  BY <1>1, <1>5

\* The descent from the root of a complete tree ends in the leaf that has the
\* entry, at whatever depth that is.
LEMMA Descent ==
  ASSUME Shaped(pages), NEW t \in Trees, NEW es, es \subseteq Entry, NEW root,
         Complete(pages, t, root, es), \A p \in pages : p.tree = t => p.entries # {},
         NEW e \in es
  PROVE  e \in Leaf(root, e.key).entries
<1> DEFINE k == e.key
<1>1. PICK top : top.ib = root /\ Tops(t, es, top)
  BY DEF Complete, Tops
<1>2. top \in pages /\ top.level \in Nat /\ k \in Nat /\ Covers(t, k, top)
  BY <1>1, TopCovers DEF Tops, Shaped, Entry
<1>3. PageAt(root) = top
  <2>1. \A s \in pages : s.ib = root => s = top
    BY <1>1, <1>2 DEF Shaped
  <2> QED
    BY <1>1, <1>2, <2>1 DEF PageAt
<1> DEFINE n == top.level
           F(g) == [l \in 0 .. n |-> IF l = n THEN top ELSE PageAt(ChildOf(g[l + 1], k))]
           G == CHOOSE g : g = F(g)
           Down(p) == IF p.level > 0 /\ Covers(t, k, p) THEN PageAt(ChildOf(p, k)) ELSE p
           f == [l \in 0 .. n |-> [p \in pages |-> Down(p)]]
<1>4. Leaf(root, k) = G[0]
  BY <1>3 DEF Leaf
<1>5. ASSUME NEW p \in pages, p.level > 0, Covers(t, k, p)
      PROVE  /\ Down(p) = PageAt(ChildOf(p, k)) /\ Down(p) \in pages
             /\ Down(p).level = p.level - 1 /\ Covers(t, k, Down(p))
  BY <1>1, <1>2, <1>5, ChildCovers
<1>6. f \in [0 .. n -> [pages -> pages]]
  <2>1. \A p \in pages : Down(p) \in pages
    BY <1>5
  <2> HIDE DEF Down
  <2> QED
    BY <2>1
<1> HIDE DEF n, k
<1>7. PICK h \in [0 .. n -> pages] :
        h[n] = top /\ \A l \in 0 .. (n - 1) : h[l] = f[l][h[l + 1]]
  <2> HIDE DEF f
  <2>1. n \in Nat /\ top \in pages
    BY <1>2 DEF n
  <2>2. \E h : IsDescent(h, n, pages, top, f)
    BY <1>6, <2>1, DescentExists
  <2> QED
    BY <2>2 DEF IsDescent
<1> DEFINE S == {l \in 0 .. n : h[l].level = l /\ Covers(t, k, h[l])}
<1>8. n \in Nat /\ n \in S
  BY <1>2, <1>7 DEF n
<1>9. ASSUME NEW l \in 0 .. (n - 1), l + 1 \in S
      PROVE  h[l] = PageAt(ChildOf(h[l + 1], k)) /\ l \in S
  <2> DEFINE m == l + 1
             p == h[m]
  <2>1. m \in 0 .. n /\ l \in 0 .. n /\ m > 0 /\ m - 1 = l
    BY <1>8
  <2>2. p \in pages /\ p.level = m /\ Covers(t, k, p)
    BY <1>7, <1>9, <2>1
  <2>3. h[l] = Down(p)
    <3>1. h[l] = f[l][p]
      BY <1>7
    <3> HIDE DEF Down, p
    <3>2. f[l][p] = Down(p)
      BY <2>1, <2>2
    <3> QED
      BY <3>1, <3>2
  <2> HIDE DEF p
  <2>4. Down(p) = PageAt(ChildOf(p, k)) /\ Down(p).level = l /\ Covers(t, k, Down(p))
    <3>1. p.level > 0 /\ p.level - 1 = l
      BY <2>1, <2>2
    <3> HIDE DEF Down
    <3> QED
      BY <1>5, <2>2, <3>1
  <2> HIDE DEF Down
  <2> QED
    BY <2>1, <2>3, <2>4 DEF p
<1>10. 0 .. n \subseteq S
  <2> HIDE DEF S
  <2> QED
    BY <1>8, <1>9, DownTo
<1>11. \A l \in 0 .. (n - 1) : h[l] = PageAt(ChildOf(h[l + 1], k))
  <2> SUFFICES ASSUME NEW l \in 0 .. (n - 1) PROVE h[l] = PageAt(ChildOf(h[l + 1], k))
    OBVIOUS
  <2>1. l + 1 \in 0 .. n
    BY <1>8
  <2> HIDE DEF S
  <2>2. l + 1 \in S
    BY <1>10, <2>1
  <2> QED
    BY <1>9, <2>2
<1>12. h = F(h)
  <2>1. ASSUME NEW l \in 0 .. n PROVE h[l] = F(h)[l]
    <3>1. CASE l = n
      BY <1>7, <3>1
    <3>2. CASE l # n
      <4>1. l \in 0 .. (n - 1)
        BY <1>8, <3>2
      <4> QED
        BY <1>11, <3>2, <4>1
    <3> QED
      BY <3>1, <3>2
  <2> QED
    BY <1>7, <2>1
<1>13. G = F(G)
  <2> HIDE DEF F
  <2> QED
    BY <1>12
<1> HIDE DEF G
<1> DEFINE Q == {l \in 0 .. n : G[l] = h[l]}
<1>14. n \in Q
  <2>1. G[n] = top
    BY <1>8, <1>13
  <2> QED
    BY <1>7, <1>8, <2>1
<1>15. ASSUME NEW l \in 0 .. (n - 1), l + 1 \in Q PROVE l \in Q
  <2>1. l \in 0 .. n /\ l # n
    BY <1>8
  <2>2. G[l] = PageAt(ChildOf(G[l + 1], k))
    BY <1>13, <2>1
  <2>3. G[l + 1] = h[l + 1]
    BY <1>15
  <2> QED
    BY <1>11, <2>1, <2>2, <2>3
<1>16. 0 .. n \subseteq Q
  <2> HIDE DEF Q
  <2> QED
    BY <1>8, <1>14, <1>15, DownTo
<1>17. 0 \in 0 .. n
  BY <1>8
<1>18. G[0] = h[0] /\ h[0] \in pages /\ h[0].level = 0 /\ Covers(t, k, h[0])
  BY <1>7, <1>10, <1>16, <1>17
<1>19. e \in h[0].entries
  BY <1>1, <1>18, LeafHolds DEF k
<1> QED
  BY <1>4, <1>18, <1>19 DEF k

----------------------------------------------------------------------------
(* The theorem.                                                            *)

\* A header on disk stands over complete trees.
LEMMA HeaderOverTrees ==
  ASSUME IInv, TreeInv, HeaderPos \in io.disk
  PROVE  Past /\ header.roots = build.roots
<1>1. HeaderPos \in Stream
  BY DEF Stream
<1>2. header = Published
  BY <1>1 DEF IInv, HeaderInv
<1>3. fixedDone = FixedCount
  BY <1>1 DEF IInv, DiskInv
<1>4. FixedCount # 0
  <2>1. /\ amapCount \in Nat /\ amapCount >= 1 /\ cursor \in Nat /\ cursor >= FirstDataPos
    BY DEF IInv, TypeInv, TypeOK, RoomInv, SpaceInv
  <2> DEFINE d == file_end - FirstPMapPos + PMapSpan - 1
  <2>2. PMapSpan \in Nat \ {0}
    BY GeometryAssumption DEF GeometryAssumption
  <2>3. file_end \in Int /\ file_end >= cursor
    <3>1. AMapPos(amapCount) \in Int
      BY <2>1, Positions DEF AMapPos
    <3> QED
      BY <2>1, <3>1 DEF file_end
  <2>4. d \in Nat
    BY <2>1, <2>2, <2>3, Positions
  <2> HIDE DEF d
  <2>5. d \div PMapSpan \in Nat
    BY <2>2, <2>4, DivMod
  <2>6. FixedCount = 1 + amapCount + (d \div PMapSpan)
    BY DEF FixedCount, PMapCount, d
  <2> QED
    BY <2>1, <2>5, <2>6
<1> QED
  BY <1>2, <1>3, <1>4 DEF Past, Published

\* A reader that starts at the roots the header names finds every node and every
\* block, for every number of entries and every depth of the trees, and no page
\* holds more entries than buildBTree() may put into it (ndb.cpp:299-333).
THEOREM EverythingFound == Spec => []TreesSearchable
<1>1. ASSUME IInv, TreeInv PROVE TreesSearchable
  <2> SUFFICES ASSUME HeaderPos \in io.disk
      PROVE  /\ \A e \in NbtEntries : e \in Leaf(header.roots.nbt, e.key).entries
             /\ \A e \in BbtEntries : e \in Leaf(header.roots.bbt, e.key).entries
             /\ \A p \in pages : Cardinality(p.entries) <= PerPage(p.tree, p.level)
    BY DEF TreesSearchable, PerPage
  <2>1. /\ Complete(pages, "nbt", header.roots.nbt, NbtEntries)
        /\ Complete(pages, "bbt", header.roots.bbt, BbtEntries)
    BY <1>1, HeaderOverTrees DEF TreeInv, BuildInv
  <2>2. /\ Shaped(pages) /\ \A p \in pages : p.entries = {} => EntriesOf(p.tree) = {}
    BY <1>1 DEF TreeInv, PagesInv
  <2>3. /\ "nbt" \in Trees /\ "bbt" \in Trees
        /\ EntriesOf("nbt") = NbtEntries /\ EntriesOf("bbt") = BbtEntries
    BY DEF Trees, EntriesOf
  <2>4. NbtEntries \subseteq Entry /\ BbtEntries \subseteq Entry
    BY <1>1, <2>3, SourceFacts DEF IInv, TypeInv, TreeInv
  <2>5. ASSUME NEW e \in NbtEntries PROVE e \in Leaf(header.roots.nbt, e.key).entries
    <3>1. \A p \in pages : p.tree = "nbt" => p.entries # {}
      BY <2>2, <2>3
    <3> QED
      BY <2>1, <2>2, <2>3, <2>4, <3>1, Descent
  <2>6. ASSUME NEW e \in BbtEntries PROVE e \in Leaf(header.roots.bbt, e.key).entries
    <3>1. \A p \in pages : p.tree = "bbt" => p.entries # {}
      BY <2>2, <2>3
    <3> QED
      BY <2>1, <2>2, <2>3, <2>4, <3>1, Descent
  <2> QED
    BY <2>2, <2>5, <2>6 DEF Shaped
<1> QED
  BY <1>1, IInvAlways, TreeInvAlways, PTL
=============================================================================
