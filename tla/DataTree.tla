------------------------------ MODULE DataTree ------------------------------
(***************************************************************************)
(* How the node database of src/src/pst/ndb.cpp spreads one value and one  *)
(* set of subnodes over blocks: writeData(), assembleDataTree() with its   *)
(* XBLOCKs and XXBLOCK, and writeSubnodes() with its SLBLOCKs and SIBLOCK. *)
(*                                                                         *)
(* A value is the range 0 .. len - 1 of its byte positions; a leaf block   *)
(* holds a part of the range, and its block id is its place in the list of *)
(* blocks emitted so far (module Ndb says where in the file that is).      *)
(* Writing ends in a root block or with an exception.                      *)
(***************************************************************************)
EXTENDS Integers, Sequences, FiniteSets, FiniteSetsExt

CONSTANTS
  BlockData,   \* kMaxBlockData
  XFanout,     \* kXBlockFanout
  MaxTotal,    \* the largest total an XBLOCK can state, 2^32 - 1
  SlFanout,    \* kSlBlockFanout
  SiFanout,    \* kSiBlockFanout
  Lengths,     \* lengths of values
  NidSets      \* sets of subnode identifiers, added in any order

ASSUME TreeAssumption ==
  /\ {BlockData, XFanout, MaxTotal, SlFanout, SiFanout} \subseteq Nat \ {0}
  /\ Lengths \subseteq Nat /\ \A S \in NidSets : S \subseteq Nat /\ IsFiniteSet(S)

VARIABLES
  blocks,   \* the blocks emitted, in order
  pc,       \* what is being written
  len,      \* length of the value
  streamed, \* its blocks come from a streaming heap or table, not from writeData()
  leaves,   \* its leaf blocks
  xblocks,  \* its XBLOCKs
  todo,     \* subnode entries not yet in an SLBLOCK
  children, \* the SLBLOCKs: [key, bid]
  root      \* the result
vars == <<blocks, pc, len, streamed, leaves, xblocks, todo, children, root>>

----------------------------------------------------------------------------
NoBid == 0
NewBid == Len(blocks) + 1
emitBlock(b) == blocks' = Append(blocks, b)

LeafBlock(from, n) == [kind |-> "leaf", from |-> from, total |-> n, refs |-> <<>>]
emitXBlock(refs, level, total) ==
  emitBlock([kind |-> IF level = 1 THEN "x" ELSE "xx", from |-> 0, total |-> total, refs |-> refs])

Return(bid) == root' = bid /\ pc' = "done"
Throw == root' = NoBid /\ pc' = "thrown" /\ UNCHANGED blocks

SmallerOf(a, b) == IF a < b THEN a ELSE b

\* writeData(): a short value is a single block.
writeShort ==
  /\ pc = "data" /\ ~streamed /\ len <= BlockData
  /\ emitBlock(LeafBlock(0, len)) /\ Return(NewBid)
  /\ UNCHANGED <<len, streamed, leaves, xblocks, todo, children>>

\* writeLeafChunk(): full blocks, and what is left in the last one.
Written == Len(leaves) * BlockData

writeLeafChunk ==
  /\ pc = "data" /\ (streamed \/ len > BlockData) /\ Written < len
  /\ emitBlock(LeafBlock(Written, SmallerOf(BlockData, len - Written)))
  /\ leaves' = Append(leaves, NewBid)
  /\ UNCHANGED <<pc, len, streamed, xblocks, todo, children, root>>

\* assembleDataTree(): nothing, one block, too long, one XBLOCK, or XBLOCKs
\* under an XXBLOCK.
assembleDataTree ==
  /\ pc = "data" /\ (streamed \/ len > BlockData) /\ Written >= len
  /\ \/ leaves = <<>> /\ emitBlock(LeafBlock(0, 0)) /\ Return(NewBid)
     \/ Len(leaves) = 1 /\ Return(leaves[1]) /\ UNCHANGED blocks
     \/ Len(leaves) > 1 /\ len > MaxTotal /\ Throw
     \/ /\ Len(leaves) \in 2 .. XFanout /\ len <= MaxTotal
        /\ emitXBlock(leaves, 1, len) /\ Return(NewBid)
     \/ /\ len <= MaxTotal /\ Len(leaves) > XFanout
        /\ pc' = "slices" /\ UNCHANGED <<blocks, root>>
  /\ UNCHANGED <<len, streamed, leaves, xblocks, todo, children>>

\* One slice of leaves, and the bytes it is said to cover.
Sliced == Len(xblocks) * XFanout
\* Fault: the last slice is taken for a full one.
covered_AlwaysFull(i, n) == n * BlockData

covered(i, n) == SmallerOf(n * BlockData, len - i * BlockData)

EmitSlice ==
  LET n == SmallerOf(XFanout, Len(leaves) - Sliced)
  IN  /\ pc = "slices" /\ Sliced < Len(leaves)
      /\ emitXBlock(SubSeq(leaves, Sliced + 1, Sliced + n), 1, covered(Sliced, n))
      /\ xblocks' = Append(xblocks, NewBid)
      /\ UNCHANGED <<pc, len, streamed, leaves, todo, children, root>>

EmitXXBlock ==
  /\ pc = "slices" /\ Sliced >= Len(leaves)
  /\ \/ Len(xblocks) > XFanout /\ Throw
     \/ Len(xblocks) <= XFanout /\ emitXBlock(xblocks, 2, len) /\ Return(NewBid)
  /\ UNCHANGED <<len, streamed, leaves, xblocks, todo, children>>

----------------------------------------------------------------------------
(* Subnodes: sorted by NID, cut into SLBLOCKs, indexed by an SIBLOCK.      *)

\* Fault: one entry more than the block holds.
Smallest_OneMore(S, k) == {e \in S : Cardinality({f \in S : f < e}) <= k}

Smallest(S, k) == {e \in S : Cardinality({f \in S : f < e}) < k}

emit_sl ==
  LET chunk == Smallest(todo, SlFanout)
  IN  /\ pc = "subnodes" /\ todo # {}
      /\ emitBlock([kind |-> "sl", from |-> 0, total |-> 0, refs |-> chunk])
      /\ children' = children \cup {[key |-> Min(chunk), bid |-> NewBid]}
      /\ todo' = todo \ chunk
      /\ IF children = {} /\ todo' = {} THEN Return(NewBid) ELSE UNCHANGED <<pc, root>>
      /\ UNCHANGED <<len, streamed, leaves, xblocks>>

emit_si ==
  /\ pc = "subnodes" /\ todo = {}
  /\ \/ children = {} /\ Return(NoBid) /\ UNCHANGED blocks
     \/ Cardinality(children) > SiFanout /\ Throw
     \/ /\ Cardinality(children) \in 1 .. SiFanout
        /\ emitBlock([kind |-> "si", from |-> 0, total |-> 0, refs |-> children]) /\ Return(NewBid)
  /\ UNCHANGED <<len, streamed, leaves, xblocks, todo, children>>

----------------------------------------------------------------------------
\* One call, on a database that already holds a block.
Init ==
  /\ blocks = <<LeafBlock(0, 0)>> /\ leaves = <<>> /\ xblocks = <<>> /\ children = {}
  /\ root = NoBid
  /\ \/ pc = "data" /\ len \in Lengths /\ streamed \in BOOLEAN /\ todo = {}
     \/ pc = "subnodes" /\ len = 0 /\ streamed = FALSE /\ todo \in NidSets

Next ==
  \/ writeShort
  \/ writeLeafChunk
  \/ assembleDataTree
  \/ EmitSlice
  \/ EmitXXBlock
  \/ emit_sl
  \/ emit_si

Spec == Init /\ [][Next]_vars

----------------------------------------------------------------------------
(* Correctness.                                                            *)

IsValue == root # NoBid /\ blocks[root].kind \in {"leaf", "x", "xx"}

\* A reader that wants byte position p of the value at r: it picks the child by
\* dividing, as it may when every leaf but the last is full, and ends in a leaf.
LeafFor(r, p) ==
  LET b      == blocks[r]
      within == IF b.kind = "xx" THEN blocks[b.refs[p \div (XFanout * BlockData) + 1]] ELSE b
      n      == (p % (XFanout * BlockData)) \div BlockData + 1
  IN  IF b.kind = "leaf" THEN b ELSE blocks[within.refs[n]]

Total(refs) ==
  LET upTo[i \in 0 .. Len(refs)] == IF i = 0 THEN 0 ELSE upTo[i - 1] + blocks[refs[i]].total
  IN  upTo[Len(refs)]

\* A value that was written reads back: each position is found in the leaf
\* that holds it, and each XBLOCK states the bytes its children hold ("Every
\* child XBLOCK except the last is completely full", ndb.cpp:181); and a call is
\* refused only for a value over the 4 GiB an XBLOCK can state, or for a tree
\* of more than two levels.
ValueReadable ==
  /\ pc = "thrown" => \/ len > MaxTotal \/ len > XFanout * XFanout * BlockData
                      \/ Cardinality(children) > SiFanout
  /\ pc = "done" /\ IsValue =>
    /\ blocks[root].total = len
    /\ \A p \in 0 .. (len - 1) :
         LET leaf == LeafFor(root, p) IN leaf.from <= p /\ p < leaf.from + leaf.total
    /\ \A i \in DOMAIN blocks :
         blocks[i].kind \in {"x", "xx"} =>
           Len(blocks[i].refs) <= XFanout /\ blocks[i].total = Total(blocks[i].refs)

\* The SLBLOCK the root, or the SIBLOCK's keys, lead to.
SubnodeLeaf(nid) ==
  LET below == {c \in children : c.key <= nid}
  IN  IF blocks[root].kind = "sl" THEN blocks[root]
      ELSE blocks[(CHOOSE c \in below : \A d \in below : d.key <= c.key).bid]

\* Every subnode is found from the root: in the SLBLOCK itself, or in the one
\* the SIBLOCK's keys lead to.
SubnodesFound ==
  pc = "done" /\ root # NoBid /\ blocks[root].kind \in {"sl", "si"} =>
    \A nid \in UNION {blocks[i].refs : i \in {j \in DOMAIN blocks : blocks[j].kind = "sl"}} :
      nid \in SubnodeLeaf(nid).refs /\ Cardinality(SubnodeLeaf(nid).refs) <= SlFanout
=============================================================================
