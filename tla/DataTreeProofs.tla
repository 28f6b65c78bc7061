--------------------------- MODULE DataTreeProofs ---------------------------
(***************************************************************************)
(* Theorems about DataTree, for every block size, every fanout, every      *)
(* length and every set of subnodes: what was written reads back.          *)
(***************************************************************************)
EXTENDS DataTree, NatLemmas, FunctionTheorems, TLAPS

----------------------------------------------------------------------------
(* The inductive invariant, in parts.                                      *)

Children == [key : Nat, bid : Nat]
Block ==
  [kind : {"leaf", "x", "xx"}, from : Nat, total : Nat, refs : Seq(Nat)]
    \cup [kind : {"sl"}, from : {0}, total : {0}, refs : SUBSET Nat]
    \cup [kind : {"si"}, from : {0}, total : {0}, refs : SUBSET Children]

TypeInv ==
  /\ blocks \in Seq(Block) /\ root \in 0 .. Len(blocks)
  /\ pc \in {"data", "slices", "subnodes", "done", "thrown"}
  /\ len \in Nat /\ streamed \in BOOLEAN /\ leaves \in Seq(Nat) /\ xblocks \in Seq(Nat)
  /\ todo \subseteq Nat /\ IsFiniteSet(todo) /\ children \subseteq Children

\* The leaves are the value, cut at multiples of the block size.
LeafAt(i) == LeafBlock((i - 1) * BlockData, SmallerOf(BlockData, len - (i - 1) * BlockData))

LeavesInv ==
  \A i \in DOMAIN leaves :
    leaves[i] \in DOMAIN blocks /\ (i - 1) * BlockData < len /\ blocks[leaves[i]] = LeafAt(i)

\* The XBLOCKs under an XXBLOCK are the leaves, cut at multiples of the fanout.
SliceLen(j) == SmallerOf(XFanout, Len(leaves) - (j - 1) * XFanout)
SliceAt(j) ==
  [kind |-> "x", from |-> 0, total |-> covered((j - 1) * XFanout, SliceLen(j)),
   refs |-> SubSeq(leaves, (j - 1) * XFanout + 1, (j - 1) * XFanout + SliceLen(j))]

SlicesCut ==
  \A j \in DOMAIN xblocks :
    /\ xblocks[j] \in DOMAIN blocks /\ (j - 1) * XFanout < Len(leaves)
    /\ blocks[xblocks[j]] = SliceAt(j)

SlicesInv ==
  /\ pc = "data" => xblocks = <<>>
  /\ pc = "slices" => Written >= len
  /\ SlicesCut

\* A block of references has room for them, refers to blocks before it, and
\* states the sum of what they hold.
PartSums(bs, refs, sums) ==
  /\ sums \in [0 .. Len(refs) -> Nat] /\ sums[0] = 0
  /\ \A k \in 1 .. Len(refs) : sums[k] = sums[k - 1] + bs[refs[k]].total

AddsUp(bs, b, i) ==
  /\ b.refs \in Seq(1 .. (i - 1)) /\ Len(b.refs) <= XFanout
  /\ \E sums : PartSums(bs, b.refs, sums) /\ sums[Len(b.refs)] = b.total

TotalsInv ==
  \A i \in DOMAIN blocks : blocks[i].kind \in {"x", "xx"} => AddsUp(blocks, blocks[i], i)

\* What the root is when a value was written, and why a call was refused.
IsLeaf(b) == b.kind = "leaf" /\ b.from = 0 /\ b.total = len
IsX(b) ==
  /\ b.kind = "x" /\ b.refs = leaves /\ b.total = len
  /\ Len(leaves) <= XFanout /\ len <= Written
IsXX(b) ==
  /\ b.kind = "xx" /\ b.refs = xblocks /\ b.total = len
  /\ len <= Written /\ Len(leaves) <= Len(xblocks) * XFanout

ResultInv ==
  /\ pc = "thrown" => \/ len > MaxTotal \/ len > XFanout * XFanout * BlockData
                      \/ Cardinality(children) > SiFanout
  /\ pc = "done" /\ root # NoBid =>
       \/ blocks[root].kind \in {"sl", "si"}
       \/ IsLeaf(blocks[root]) \/ IsX(blocks[root]) \/ IsXX(blocks[root])

\* The SLBLOCKs cut the subnodes in the order of their identifiers.
IsChild(bs, c) ==
  /\ c.bid \in DOMAIN bs /\ bs[c.bid].kind = "sl" /\ bs[c.bid].refs \subseteq Nat
  /\ c.key \in bs[c.bid].refs /\ \A n \in bs[c.bid].refs : c.key <= n
  /\ Cardinality(bs[c.bid].refs) <= SlFanout

SubnodesCut ==
  /\ \A c \in children : IsChild(blocks, c)
  /\ \A j \in DOMAIN blocks : blocks[j].kind = "sl" => \E c \in children : c.bid = j
  /\ \A c, d \in children : c = d \/ (\A n \in blocks[c.bid].refs : n < d.key)
                                  \/ (\A n \in blocks[d.bid].refs : n < c.key)
  /\ \A c \in children : \A n \in blocks[c.bid].refs : \A m \in todo : n < m

SubnodesInv ==
  /\ SubnodesCut
  /\ pc = "done" /\ root # NoBid /\ blocks[root].kind = "sl" =>
       \E c \in children : children = {c} /\ c.bid = root

IInv == TypeInv /\ LeavesInv /\ SlicesInv /\ TotalsInv /\ ResultInv /\ SubnodesInv

----------------------------------------------------------------------------
(* Facts about the operators of DataTree.                                  *)

\* What the proofs use of the constants.
LEMMA Sizes ==
  /\ BlockData \in Nat \ {0} /\ XFanout \in Nat \ {0} /\ MaxTotal \in Nat \ {0}
  /\ SlFanout \in Nat \ {0} /\ SiFanout \in Nat \ {0}
  BY TreeAssumption DEF TreeAssumption

\* emitBlock() appends: the new block has the next id, the others keep theirs.
LEMMA Emitted ==
  ASSUME blocks \in Seq(Block), NEW b \in Block, blocks' = Append(blocks, b)
  PROVE  /\ blocks' \in Seq(Block) /\ Len(blocks) \in Nat /\ Len(blocks') = Len(blocks) + 1
         /\ DOMAIN blocks = 1 .. Len(blocks) /\ DOMAIN blocks' = 1 .. (Len(blocks) + 1)
         /\ \A i \in DOMAIN blocks : blocks'[i] = blocks[i]
         /\ NewBid = Len(blocks) + 1 /\ blocks'[NewBid] = b
<1>1. /\ blocks' \in Seq(Block) /\ Len(blocks) \in Nat /\ Len(blocks') = Len(blocks) + 1
      /\ DOMAIN blocks = 1 .. Len(blocks)
  OBVIOUS
<1>2. DOMAIN blocks' = 1 .. (Len(blocks) + 1)
  BY <1>1
<1>3. \A i \in DOMAIN blocks : blocks'[i] = blocks[i]
  BY <1>1
<1>4. NewBid = Len(blocks) + 1 /\ blocks'[Len(blocks) + 1] = b
  BY <1>1 DEF NewBid
<1> QED
  BY <1>1, <1>2, <1>3, <1>4

\* A list of partial sums determines the total: the recursive definition has
\* one solution.
LEMMA TotalIs ==
  ASSUME NEW refs, Len(refs) \in Nat, NEW sums, PartSums(blocks, refs, sums)
  PROVE  Total(refs) = sums[Len(refs)]
<1> DEFINE n == Len(refs)
           F(g) == [i \in 0 .. n |-> IF i = 0 THEN 0 ELSE g[i - 1] + blocks[refs[i]].total]
           G == CHOOSE g : g = F(g)
<1>1. sums = F(sums)
  <2>1. sums \in [0 .. n -> Nat] /\ sums[0] = 0
    BY DEF PartSums
  <2>2. ASSUME NEW i \in 0 .. n PROVE sums[i] = F(sums)[i]
    <3>1. i = 0 \/ i \in 1 .. n
      OBVIOUS
    <3> QED
      BY <2>1, <3>1 DEF PartSums
  <2> QED
    BY <2>1, <2>2
<1>2. G = F(G)
  BY <1>1
<1>3. Total(refs) = G[n]
  BY DEF Total
<1> HIDE DEF G
<1>4. \A i \in 0 .. n : G[i] = IF i = 0 THEN 0 ELSE G[i - 1] + blocks[refs[i]].total
  BY <1>2
<1> DEFINE bad == {i \in 0 .. n : G[i] # sums[i]}
<1>5. bad = {}
  <2> SUFFICES ASSUME bad # {} PROVE FALSE
    OBVIOUS
  <2>1. bad \subseteq Nat
    OBVIOUS
  <2>2. PICK i \in bad : \A j \in bad : i <= j
    BY <2>1, Least
  <2>3. i \in 0 .. n /\ G[i] # sums[i]
    OBVIOUS
  <2>4. i # 0
    BY <1>4, <2>3 DEF PartSums
  <2>5. i - 1 \in 0 .. n /\ i \in 1 .. n /\ ~(i <= i - 1)
    BY <2>3, <2>4
  <2>6. G[i - 1] = sums[i - 1]
    BY <2>2, <2>5
  <2>7. sums[i] = sums[i - 1] + blocks[refs[i]].total
    BY <2>5 DEF PartSums
  <2>8. G[i] = G[i - 1] + blocks[refs[i]].total
    BY <1>4, <2>3, <2>4
  <2> QED
    BY <2>3, <2>6, <2>7, <2>8
<1> QED
  BY <1>3, <1>5

\* What a block of references adds up to is the same after later blocks.
LEMMA StillAddsUp ==
  ASSUME NEW bs, NEW cs, NEW b, NEW i \in Nat, AddsUp(bs, b, i),
         \A k \in 1 .. (i - 1) : cs[k].total = bs[k].total
  PROVE  AddsUp(cs, b, i)
<1>1. b.refs \in Seq(1 .. (i - 1)) /\ Len(b.refs) <= XFanout
  BY DEF AddsUp
<1>2. PICK sums : PartSums(bs, b.refs, sums) /\ sums[Len(b.refs)] = b.total
  BY DEF AddsUp
<1>3. \A k \in 1 .. Len(b.refs) : b.refs[k] \in 1 .. (i - 1)
  BY <1>1
<1>4. \A k \in 1 .. Len(b.refs) : sums[k] = sums[k - 1] + cs[b.refs[k]].total
  BY <1>2, <1>3 DEF PartSums
<1>5. PartSums(cs, b.refs, sums)
  BY <1>2, <1>4 DEF PartSums
<1> QED
  BY <1>1, <1>2, <1>5 DEF AddsUp

\* Consecutive leaves hold a piece of the value that ends with the last of them
\* or with the value.
LEMMA LeafSums ==
  ASSUME TypeInv, LeavesInv, NEW o \in Nat, NEW n \in Nat \ {0}, o + n <= Len(leaves),
         NEW refs, Len(refs) = n, \A k \in 1 .. n : refs[k] = leaves[o + k]
  PROVE  \E sums : PartSums(blocks, refs, sums) /\ sums[n] = covered(o, n)
<1>0. BlockData \in Nat \ {0} /\ len \in Nat /\ DOMAIN leaves = 1 .. Len(leaves) /\ Len(leaves) \in Nat
  BY Sizes DEF TypeInv
<1> DEFINE x == o * BlockData
           sums == [k \in 0 .. n |-> SmallerOf(k * BlockData, len - x)]
<1>1. ASSUME NEW k \in 1 .. n
      PROVE  /\ blocks[refs[k]].total = SmallerOf(BlockData, len - (x + (k - 1) * BlockData))
             /\ x + (k - 1) * BlockData < len
  <2>1. o + k \in DOMAIN leaves /\ refs[k] = leaves[o + k]
    BY <1>0
  <2>2. /\ (o + k - 1) * BlockData < len
        /\ blocks[refs[k]].total = SmallerOf(BlockData, len - (o + k - 1) * BlockData)
    <3> DEFINE i == o + k
    <3>1. i \in DOMAIN leaves /\ refs[k] = leaves[i] /\ o + k - 1 = i - 1
      BY <1>0, <2>1
    <3> HIDE DEF i
    <3>2. (i - 1) * BlockData < len /\ blocks[leaves[i]] = LeafAt(i)
      BY <3>1 DEF LeavesInv
    <3>3. LeafAt(i).total = SmallerOf(BlockData, len - (i - 1) * BlockData)
      BY DEF LeafAt, LeafBlock
    <3> QED
      BY <3>1, <3>2, <3>3
  <2>3. (o + k - 1) * BlockData = x + (k - 1) * BlockData
    BY <1>0
  <2> QED
    BY <2>2, <2>3
<1>2. x \in Nat /\ x < len
  <2>1. x + (1 - 1) * BlockData < len
    BY <1>1
  <2> QED
    BY <1>0, <2>1
<1>3. \A k \in 0 .. n : k * BlockData \in Nat
  BY <1>0
<1>4. sums \in [0 .. n -> Nat] /\ sums[0] = 0
  BY <1>0, <1>2, <1>3 DEF SmallerOf
<1>5. ASSUME NEW k \in 1 .. n PROVE sums[k] = sums[k - 1] + blocks[refs[k]].total
  <2> DEFINE y == (k - 1) * BlockData
             t == blocks[refs[k]].total
  <2>1. k * BlockData = y + BlockData /\ y \in Nat
    BY <1>0
  <2>2. t = SmallerOf(BlockData, len - (x + y)) /\ x + y < len
    BY <1>1
  <2>3. sums[k] = SmallerOf(y + BlockData, len - x) /\ sums[k - 1] = SmallerOf(y, len - x)
    BY <1>3, <2>1
  <2> HIDE DEF x, y, t, sums
  <2>4. SmallerOf(y + BlockData, len - x) = SmallerOf(y, len - x) + t
    BY <1>0, <1>2, <2>1, <2>2 DEF SmallerOf
  <2> QED
    BY <2>3, <2>4 DEF t
<1>6. sums[n] = covered(o, n)
  BY DEF covered
<1>7. PartSums(blocks, refs, sums)
  <2> HIDE DEF sums
  <2> QED
    BY <1>4, <1>5 DEF PartSums
<1> QED
  BY <1>6, <1>7

\* The slices, one after the other, hold the value.
LEMMA SliceSums ==
  ASSUME TypeInv, SlicesInv, len <= Written, Len(leaves) <= Len(xblocks) * XFanout,
         \A i \in DOMAIN leaves : (i - 1) * BlockData < len
  PROVE  \E sums : PartSums(blocks, xblocks, sums) /\ sums[Len(xblocks)] = len
<1>0. /\ BlockData \in Nat \ {0} /\ XFanout \in Nat \ {0} /\ len \in Nat
      /\ DOMAIN leaves = 1 .. Len(leaves) /\ Len(leaves) \in Nat
      /\ DOMAIN xblocks = 1 .. Len(xblocks) /\ Len(xblocks) \in Nat
  BY Sizes DEF TypeInv
<1> DEFINE n == Len(xblocks)
           Full(j) == (j * XFanout) * BlockData
           sums == [j \in 0 .. n |-> SmallerOf(Full(j), len)]
<1>1. \A j \in 0 .. n : Full(j) \in Nat /\ Full(0) = 0
  BY <1>0
<1>2. sums \in [0 .. n -> Nat] /\ sums[0] = 0
  BY <1>0, <1>1 DEF SmallerOf
<1>3. ASSUME NEW j \in 1 .. n PROVE sums[j] = sums[j - 1] + blocks[xblocks[j]].total
  <2> DEFINE a == (j - 1) * XFanout
             m == SliceLen(j)
             t == blocks[xblocks[j]].total
  <2>1. a \in Nat /\ a < Len(leaves) /\ t = covered(a, m)
    <3>1. j \in DOMAIN xblocks /\ a \in Nat
      BY <1>0
    <3>2. a < Len(leaves) /\ blocks[xblocks[j]] = SliceAt(j)
      BY <3>1 DEF SlicesInv, SlicesCut
    <3>3. SliceAt(j).total = covered(a, m)
      BY DEF SliceAt
    <3> QED
      BY <3>1, <3>2, <3>3
  <2>2. m = SmallerOf(XFanout, Len(leaves) - a)
    BY DEF SliceLen
  <2>3. j * XFanout = a + XFanout
    BY <1>0
  <2>4. sums[j] = SmallerOf((a + XFanout) * BlockData, len) /\ sums[j - 1] = SmallerOf(a * BlockData, len)
    <3>1. j - 1 \in 0 .. n /\ j \in 0 .. n
      BY <1>0
    <3> QED
      BY <2>3, <3>1
  <2> HIDE DEF a, m, t, sums
  <2>5. a * BlockData < len
    <3> DEFINE i == a + 1
    <3>1. i \in DOMAIN leaves /\ i - 1 = a
      BY <1>0, <2>1
    <3> HIDE DEF i
    <3>2. (i - 1) * BlockData < len
      BY <3>1
    <3> QED
      BY <3>1, <3>2
  <2>6. m \in Nat /\ (m = XFanout \/ (m = Len(leaves) - a /\ Len(leaves) - a <= XFanout))
    <3>1. a \in Nat /\ a < Len(leaves) /\ Len(leaves) \in Nat /\ XFanout \in Nat
      BY <1>0, <2>1
    <3> QED
      BY <2>2, <3>1 DEF SmallerOf
  <2> DEFINE x == a * BlockData
             f == XFanout * BlockData
             l == Len(leaves) * BlockData
  <2>7. x \in Nat /\ f \in Nat /\ l \in Nat /\ (a + XFanout) * BlockData = x + f /\ len <= l
    BY <1>0, <2>1 DEF Written
  <2>8. m * BlockData = f \/ (m * BlockData = l - x /\ len <= x + f)
    <3>1. CASE m = XFanout
      BY <3>1
    <3>2. CASE m = Len(leaves) - a /\ Len(leaves) - a <= XFanout
      <4>1. m * BlockData = l - x
        BY <1>0, <2>1, <3>2
      <4> DEFINE r == a + XFanout - Len(leaves)
      <4>2. r \in Nat /\ a + XFanout = Len(leaves) + r
        BY <1>0, <2>1, <3>2
      <4> HIDE DEF r
      <4>3. (Len(leaves) + r) * BlockData = l + r * BlockData /\ r * BlockData \in Nat
        BY <1>0, <4>2
      <4> HIDE DEF x, f, l
      <4>4. len <= x + f
        BY <1>0, <2>7, <4>2, <4>3
      <4> QED
        BY <4>1, <4>4
    <3> QED
      BY <2>6, <3>1, <3>2
  <2>9. t = SmallerOf(m * BlockData, len - x)
    BY <2>1 DEF covered
  <2>10. sums[j] = SmallerOf(x + f, len) /\ sums[j - 1] = SmallerOf(x, len) /\ x < len
    BY <2>4, <2>5, <2>7
  <2> DEFINE mb == m * BlockData
  <2>11. mb \in Nat /\ (mb = f \/ (mb = l - x /\ len <= x + f))
    BY <1>0, <2>6, <2>8
  <2> HIDE DEF x, f, l, mb
  <2>12. SmallerOf(x + f, len) = SmallerOf(x, len) + SmallerOf(mb, len - x)
    <3>1. x \in Nat /\ f \in Nat /\ l \in Nat /\ len <= l /\ x < len /\ len \in Nat
      BY <1>0, <2>7, <2>10
    <3> QED
      BY <2>11, <3>1 DEF SmallerOf
  <2> QED
    BY <2>9, <2>10, <2>12 DEF mb, t
<1>4. sums[n] = len
  <2> DEFINE r == n * XFanout - Len(leaves)
  <2>1. r \in Nat /\ n * XFanout = Len(leaves) + r
    BY <1>0
  <2> HIDE DEF r
  <2>2. (Len(leaves) + r) * BlockData = Len(leaves) * BlockData + r * BlockData /\ r * BlockData \in Nat
    BY <1>0, <2>1
  <2>3. Len(leaves) * BlockData \in Nat /\ len <= Len(leaves) * BlockData
    BY <1>0 DEF Written
  <2>4. Full(n) >= len /\ Full(n) \in Nat
    BY <1>0, <1>1, <2>1, <2>2, <2>3
  <2> HIDE DEF Full
  <2>5. sums[n] = SmallerOf(Full(n), len)
    BY <1>0
  <2> QED
    BY <1>0, <2>4, <2>5 DEF SmallerOf
<1>5. PartSums(blocks, xblocks, sums)
  <2> HIDE DEF sums
  <2> QED
    BY <1>2, <1>3 DEF PartSums
<1> QED
  BY <1>4, <1>5

----------------------------------------------------------------------------
(* What emitting a block leaves alone.                                     *)

More(bs, cs) == DOMAIN bs \subseteq DOMAIN cs /\ \A i \in DOMAIN bs : cs[i] = bs[i]

\* A sequence over one set whose elements are in another is one over that.
LEMMA SeqOver ==
  ASSUME NEW S, NEW T, NEW s \in Seq(S), \A i \in 1 .. Len(s) : s[i] \in T
  PROVE  s \in Seq(T)
  OBVIOUS

\* The leaves stay where they are.
LEMMA KeepLeaves ==
  ASSUME LeavesInv, More(blocks, blocks'), UNCHANGED <<leaves, len>>
  PROVE  LeavesInv'
  BY DEF LeavesInv, More, LeafAt, LeafBlock, SmallerOf

\* So do the slices.
LEMMA KeepSlices ==
  ASSUME SlicesCut, More(blocks, blocks'), UNCHANGED <<leaves, len, xblocks>>
  PROVE  SlicesCut'
<1>1. ASSUME NEW j PROVE SliceAt(j)' = SliceAt(j)
  BY DEF SliceAt, SliceLen, covered, SmallerOf
<1> QED
  BY <1>1 DEF SlicesCut, More

\* Sums stay right, and so does that of the new block.
LEMMA KeepTotals ==
  ASSUME TypeInv, TotalsInv, NEW b \in Block, blocks' = Append(blocks, b),
         b.kind \in {"x", "xx"} => AddsUp(blocks, b, NewBid)
  PROVE  TotalsInv'
<1>1. /\ Len(blocks) \in Nat /\ DOMAIN blocks = 1 .. Len(blocks)
      /\ DOMAIN blocks' = 1 .. (Len(blocks) + 1) /\ \A i \in DOMAIN blocks : blocks'[i] = blocks[i]
      /\ NewBid = Len(blocks) + 1 /\ blocks'[NewBid] = b
  BY Emitted DEF TypeInv
<1>2. ASSUME NEW i \in DOMAIN blocks', blocks'[i].kind \in {"x", "xx"}
      PROVE  AddsUp(blocks', blocks'[i], i)
  <2>1. i \in Nat /\ \A k \in 1 .. (i - 1) : blocks'[k].total = blocks[k].total
    BY <1>1
  <2>2. AddsUp(blocks, blocks'[i], i)
    <3>1. CASE i \in DOMAIN blocks
      BY <1>1, <1>2, <3>1 DEF TotalsInv
    <3>2. CASE i = NewBid
      BY <1>1, <1>2, <3>2
    <3> QED
      BY <1>1, <3>1, <3>2
  <2> QED
    BY <2>1, <2>2, StillAddsUp
<1> QED
  BY <1>2 DEF TotalsInv

\* The subnodes stay where they are.
LEMMA KeepSubnodes ==
  ASSUME SubnodesCut, More(blocks, blocks'), UNCHANGED <<children, todo>>,
         \A j \in DOMAIN blocks' : j \in DOMAIN blocks \/ blocks'[j].kind # "sl"
  PROVE  SubnodesCut'
<1>1. \A c \in children : IsChild(blocks, c) /\ blocks'[c.bid] = blocks[c.bid] /\ c.bid \in DOMAIN blocks'
  BY DEF SubnodesCut, IsChild, More
<1>2. \A c \in children : IsChild(blocks', c)
  BY <1>1 DEF IsChild
<1>3. \A j \in DOMAIN blocks' : blocks'[j].kind = "sl" => \E c \in children : c.bid = j
  BY DEF SubnodesCut, More
<1>4. \A c, d \in children : c = d \/ (\A n \in blocks'[c.bid].refs : n < d.key)
                                   \/ (\A n \in blocks'[d.bid].refs : n < c.key)
  BY <1>1 DEF SubnodesCut
<1>5. \A c \in children : \A n \in blocks'[c.bid].refs : \A m \in todo : n < m
  BY <1>1 DEF SubnodesCut
<1> QED
  BY <1>2, <1>3, <1>4, <1>5 DEF SubnodesCut

\* All of it, for a block that is neither a leaf of the value nor a slice nor an
\* SLBLOCK, or for none.
LEMMA Kept ==
  ASSUME IInv, UNCHANGED <<len, leaves, xblocks, todo, children>>,
         \/ UNCHANGED blocks
         \/ \E b \in Block : /\ blocks' = Append(blocks, b) /\ b.kind # "sl"
                             /\ b.kind \in {"x", "xx"} => AddsUp(blocks, b, NewBid)
  PROVE  LeavesInv' /\ SlicesCut' /\ TotalsInv' /\ SubnodesCut'
<1>0. TypeInv /\ LeavesInv /\ SlicesCut /\ TotalsInv /\ SubnodesCut
  BY DEF IInv, SlicesInv, SubnodesInv
<1>1. CASE UNCHANGED blocks
  <2>1. More(blocks, blocks') /\ \A j \in DOMAIN blocks' : j \in DOMAIN blocks
    BY <1>1 DEF More
  <2>2. TotalsInv'
    BY <1>0, <1>1 DEF TotalsInv
  <2> QED
    BY <1>0, <2>1, <2>2, KeepLeaves, KeepSlices, KeepSubnodes
<1>2. ASSUME NEW b \in Block, blocks' = Append(blocks, b), b.kind # "sl",
             b.kind \in {"x", "xx"} => AddsUp(blocks, b, NewBid)
      PROVE  LeavesInv' /\ SlicesCut' /\ TotalsInv' /\ SubnodesCut'
  <2>1. /\ DOMAIN blocks = 1 .. Len(blocks) /\ Len(blocks) \in Nat
        /\ DOMAIN blocks' = 1 .. (Len(blocks) + 1) /\ \A i \in DOMAIN blocks : blocks'[i] = blocks[i]
        /\ NewBid = Len(blocks) + 1 /\ blocks'[NewBid] = b
    BY <1>0, <1>2, Emitted DEF TypeInv
  <2>2. More(blocks, blocks')
    BY <2>1 DEF More
  <2>3. ASSUME NEW j \in DOMAIN blocks' PROVE j \in DOMAIN blocks \/ blocks'[j].kind # "sl"
    <3>1. j \in DOMAIN blocks \/ j = NewBid
      BY <2>1
    <3> QED
      BY <1>2, <2>1, <3>1, Zenon
  <2>4. TotalsInv'
    BY <1>0, <1>2, KeepTotals
  <2> QED
    BY <1>0, <2>2, <2>3, <2>4, KeepLeaves, KeepSlices, KeepSubnodes
<1> QED
  BY <1>1, <1>2

----------------------------------------------------------------------------
(* The steps.                                                              *)

\* The types of the blocks that are emitted.
LEMMA BlockTypes ==
  /\ \A f, n \in Nat : LeafBlock(f, n) \in Block /\ LeafBlock(f, n).kind = "leaf"
  /\ \A refs \in Seq(Nat), n \in Nat, k \in {"x", "xx"} :
       [kind |-> k, from |-> 0, total |-> n, refs |-> refs] \in Block
  /\ \A S \in SUBSET Nat : [kind |-> "sl", from |-> 0, total |-> 0, refs |-> S] \in Block
  /\ \A S \in SUBSET Children : [kind |-> "si", from |-> 0, total |-> 0, refs |-> S] \in Block
<1>1. <<>> \in Seq(Nat)
  OBVIOUS
<1>2. \A f, n \in Nat : LeafBlock(f, n) \in Block /\ LeafBlock(f, n).kind = "leaf"
  BY <1>1 DEF LeafBlock, Block
<1>3. \A refs \in Seq(Nat), n \in Nat, k \in {"x", "xx"} :
        [kind |-> k, from |-> 0, total |-> n, refs |-> refs] \in Block
  BY DEF Block
<1>4. \A S \in SUBSET Nat : [kind |-> "sl", from |-> 0, total |-> 0, refs |-> S] \in Block
  BY DEF Block
<1>5. \A S \in SUBSET Children : [kind |-> "si", from |-> 0, total |-> 0, refs |-> S] \in Block
  BY DEF Block
<1> QED
  BY <1>2, <1>3, <1>4, <1>5

\* A call that returns the block it just emitted.
LEMMA Returned ==
  ASSUME IInv, UNCHANGED <<len, streamed, leaves, xblocks, todo, children>>,
         NEW b \in Block, emitBlock(b), Return(NewBid), b.kind # "sl",
         b.kind \in {"x", "xx"} => AddsUp(blocks, b, NewBid),
         b.kind = "si" \/ IsLeaf(b) \/ IsX(b) \/ IsXX(b)
  PROVE  IInv'
<1>1. blocks' = Append(blocks, b) /\ root' = NewBid /\ pc' = "done"
  BY DEF emitBlock, Return
<1>2. /\ blocks' \in Seq(Block) /\ Len(blocks) \in Nat /\ Len(blocks') = Len(blocks) + 1
      /\ NewBid = Len(blocks) + 1 /\ blocks'[NewBid] = b
  BY <1>1, Emitted DEF IInv, TypeInv
<1>3. LeavesInv' /\ SlicesCut' /\ TotalsInv' /\ SubnodesCut'
  BY <1>1, Kept
<1>4. TypeInv'
  <2>1. root' \in 0 .. Len(blocks')
    BY <1>1, <1>2
  <2> QED
    BY <1>1, <1>2, <2>1 DEF IInv, TypeInv
<1>5. blocks'[root'] = b
  BY <1>1, <1>2
<1>6. ResultInv'
  <2>1. IsLeaf(b)' = IsLeaf(b) /\ IsX(b)' = IsX(b) /\ IsXX(b)' = IsXX(b)
    BY DEF IsLeaf, IsX, IsXX, Written
  <2>2. blocks'[root'].kind \in {"sl", "si"} \/ IsLeaf(b)' \/ IsX(b)' \/ IsXX(b)'
    BY <1>5, <2>1
  <2>3. (blocks[root].kind \in {"sl", "si"} \/ IsLeaf(blocks[root]) \/ IsX(blocks[root])
           \/ IsXX(blocks[root]))'
    BY <1>5, <2>2 DEF IsLeaf, IsX, IsXX
  <2> QED
    BY <1>1, <2>3 DEF ResultInv
<1>7. SlicesInv'
  BY <1>1, <1>3 DEF SlicesInv
<1>8. SubnodesInv'
  BY <1>3, <1>5 DEF SubnodesInv
<1> QED
  BY <1>3, <1>4, <1>6, <1>7, <1>8 DEF IInv

\* A call that is refused.
LEMMA Refused ==
  ASSUME IInv, UNCHANGED <<len, streamed, leaves, xblocks, todo, children>>, Throw,
         \/ len > MaxTotal \/ len > XFanout * XFanout * BlockData
         \/ Cardinality(children) > SiFanout
  PROVE  IInv'
<1>1. UNCHANGED blocks /\ root' = 0 /\ pc' = "thrown"
  BY DEF Throw, NoBid
<1>2. LeavesInv' /\ SlicesCut' /\ TotalsInv' /\ SubnodesCut'
  BY <1>1, Kept
<1>3. TypeInv'
  <2>1. Len(blocks) \in Nat
    BY DEF IInv, TypeInv
  <2>2. root' \in 0 .. Len(blocks')
    BY <1>1, <2>1
  <2> QED
    BY <1>1, <2>2 DEF IInv, TypeInv
<1>4. ResultInv'
  BY <1>1 DEF ResultInv
<1>5. SlicesInv' /\ SubnodesInv'
  BY <1>1, <1>2 DEF SlicesInv, SubnodesInv
<1> QED
  BY <1>2, <1>3, <1>4, <1>5 DEF IInv

\* writeData() of a short value.
LEMMA ShortStep == IInv /\ writeShort => IInv'
<1> SUFFICES ASSUME IInv, writeShort PROVE IInv'
  OBVIOUS
<1>1. LeafBlock(0, len) \in Block /\ LeafBlock(0, len).kind = "leaf"
  BY BlockTypes DEF IInv, TypeInv
<1>2. IsLeaf(LeafBlock(0, len))
  BY DEF IsLeaf, LeafBlock
<1> QED
  BY <1>1, <1>2, Returned DEF writeShort

\* writeLeafChunk(): the next leaf starts where the last one ended.
LEMMA ChunkStep == IInv /\ writeLeafChunk => IInv'
<1> SUFFICES ASSUME IInv, writeLeafChunk PROVE IInv'
  OBVIOUS
<1>0. /\ BlockData \in Nat \ {0} /\ len \in Nat /\ Len(leaves) \in Nat /\ leaves \in Seq(Nat)
      /\ DOMAIN leaves = 1 .. Len(leaves) /\ Len(blocks) \in Nat
  BY Sizes DEF IInv, TypeInv
<1> DEFINE i == Len(leaves) + 1
<1>1. Written \in Nat /\ Written < len /\ (i - 1) * BlockData = Written /\ i \in Nat
  BY <1>0 DEF Written, writeLeafChunk
<1>2. LeafAt(i) = LeafBlock(Written, SmallerOf(BlockData, len - Written))
  BY <1>0, <1>1 DEF LeafAt
<1>3. /\ blocks' = Append(blocks, LeafAt(i)) /\ leaves' = Append(leaves, NewBid)
      /\ UNCHANGED <<pc, len, streamed, xblocks, todo, children, root>> /\ pc = "data"
  BY <1>2 DEF writeLeafChunk, emitBlock
<1>4. LeafAt(i) \in Block /\ LeafAt(i).kind = "leaf"
  <2>1. SmallerOf(BlockData, len - Written) \in Nat
    BY <1>0, <1>1 DEF SmallerOf
  <2> QED
    BY <1>1, <1>2, <2>1, BlockTypes
<1>5. /\ blocks' \in Seq(Block) /\ Len(blocks') = Len(blocks) + 1 /\ DOMAIN blocks = 1 .. Len(blocks)
      /\ DOMAIN blocks' = 1 .. (Len(blocks) + 1) /\ \A k \in DOMAIN blocks : blocks'[k] = blocks[k]
      /\ NewBid = Len(blocks) + 1 /\ blocks'[NewBid] = LeafAt(i)
  <2> HIDE DEF i
  <2> QED
    BY <1>3, <1>4, Emitted DEF IInv, TypeInv
<1> HIDE DEF i
<1>6. /\ leaves' \in Seq(Nat) /\ DOMAIN leaves' = 1 .. (Len(leaves) + 1)
      /\ \A k \in DOMAIN leaves : leaves'[k] = leaves[k]
      /\ leaves'[Len(leaves) + 1] = NewBid
  BY <1>0, <1>3, <1>5
<1>7. TypeInv'
  <2>1. root' \in 0 .. Len(blocks')
    BY <1>0, <1>3, <1>5 DEF IInv, TypeInv
  <2> QED
    BY <1>3, <1>5, <1>6, <2>1 DEF IInv, TypeInv
<1>8. LeavesInv'
  <2>1. \A k : LeafAt(k)' = LeafAt(k)
    BY <1>3 DEF LeafAt, LeafBlock, SmallerOf
  <2>2. ASSUME NEW k \in DOMAIN leaves'
        PROVE  /\ leaves'[k] \in DOMAIN blocks' /\ (k - 1) * BlockData < len
               /\ blocks'[leaves'[k]] = LeafAt(k)
    <3>1. CASE k \in DOMAIN leaves
      <4>1. leaves[k] \in DOMAIN blocks /\ (k - 1) * BlockData < len /\ blocks[leaves[k]] = LeafAt(k)
        BY <3>1 DEF IInv, LeavesInv
      <4>2. DOMAIN blocks \subseteq DOMAIN blocks'
        BY <1>0, <1>5
      <4> QED
        BY <1>5, <1>6, <3>1, <4>1, <4>2
    <3>2. CASE k = i
      <4>1. leaves'[k] = NewBid
        BY <1>6, <3>2 DEF i
      <4>2. NewBid \in DOMAIN blocks'
        BY <1>0, <1>5
      <4> QED
        BY <1>1, <1>5, <3>2, <4>1, <4>2
    <3> QED
      BY <1>0, <1>6, <3>1, <3>2 DEF i
  <2> QED
    BY <1>3, <2>1, <2>2 DEF LeavesInv
<1>9. More(blocks, blocks') /\ \A j \in DOMAIN blocks' : j \in DOMAIN blocks \/ blocks'[j].kind # "sl"
  <2>1. More(blocks, blocks')
    BY <1>0, <1>5 DEF More
  <2>2. ASSUME NEW j \in DOMAIN blocks' PROVE j \in DOMAIN blocks \/ blocks'[j].kind # "sl"
    <3>1. j \in DOMAIN blocks \/ j = NewBid
      BY <1>0, <1>5
    <3>2. blocks'[NewBid].kind # "sl"
      BY <1>4, <1>5
    <3> QED
      BY <3>1, <3>2, Zenon
  <2> QED
    BY <2>1, <2>2
<1>10. TotalsInv'
  BY <1>3, <1>4, KeepTotals DEF IInv
<1>11. SubnodesInv'
  <2>1. SubnodesCut'
    BY <1>3, <1>9, KeepSubnodes DEF IInv, SubnodesInv
  <2> QED
    BY <1>3, <2>1 DEF SubnodesInv
<1>12. SlicesInv'
  <2>1. xblocks' = <<>>
    BY <1>3 DEF IInv, SlicesInv
  <2> QED
    BY <1>3, <2>1 DEF SlicesInv, SlicesCut
<1>13. ResultInv'
  BY <1>3 DEF ResultInv
<1> QED
  BY <1>7, <1>8, <1>10, <1>11, <1>12, <1>13 DEF IInv

\* The leaves are blocks written before.
LEMMA LeafRefs ==
  ASSUME IInv
  PROVE  /\ leaves \in Seq(1 .. Len(blocks)) /\ Len(leaves) \in Nat /\ DOMAIN leaves = 1 .. Len(leaves)
         /\ Len(blocks) \in Nat /\ NewBid - 1 = Len(blocks) /\ NewBid \in Nat
<1>1. /\ leaves \in Seq(Nat) /\ Len(leaves) \in Nat /\ DOMAIN leaves = 1 .. Len(leaves)
      /\ DOMAIN blocks = 1 .. Len(blocks) /\ Len(blocks) \in Nat
  BY DEF IInv, TypeInv
<1>2. \A i \in 1 .. Len(leaves) : leaves[i] \in 1 .. Len(blocks)
  BY <1>1 DEF IInv, LeavesInv
<1>3. leaves \in Seq(1 .. Len(blocks))
  BY <1>1, <1>2, SeqOver
<1> QED
  BY <1>1, <1>3 DEF NewBid

\* assembleDataTree(), in each of its cases.
LEMMA AssembleStep == IInv /\ assembleDataTree => IInv'
<1> SUFFICES ASSUME IInv, assembleDataTree PROVE IInv'
  OBVIOUS
<1>0. /\ BlockData \in Nat \ {0} /\ XFanout \in Nat \ {0} /\ len \in Nat /\ Written >= len
      /\ leaves \in Seq(Nat) /\ pc = "data" /\ TypeInv /\ LeavesInv
      /\ Len(leaves) \in Nat /\ DOMAIN leaves = 1 .. Len(leaves)
      /\ UNCHANGED <<len, streamed, leaves, xblocks, todo, children>>
  BY Sizes DEF IInv, TypeInv, assembleDataTree
<1>1. CASE leaves = <<>> /\ emitBlock(LeafBlock(0, 0)) /\ Return(NewBid)
  <2>1. len = 0
    BY <1>0, <1>1 DEF Written
  <2>2. LeafBlock(0, 0) \in Block /\ LeafBlock(0, 0).kind = "leaf" /\ IsLeaf(LeafBlock(0, 0))
    BY <2>1, BlockTypes DEF IsLeaf, LeafBlock
  <2> QED
    BY <1>0, <1>1, <2>2, Returned
<1>2. CASE Len(leaves) = 1 /\ Return(leaves[1]) /\ UNCHANGED blocks
  <2>1. leaves[1] \in DOMAIN blocks /\ blocks[leaves[1]] = LeafAt(1) /\ 1 \in DOMAIN leaves
    BY <1>0, <1>2 DEF LeavesInv
  <2>2. LeafAt(1) = LeafBlock(0, len)
    BY <1>0, <1>2 DEF LeafAt, Written, SmallerOf
  <2>3. root' = leaves[1] /\ pc' = "done" /\ root' \in 0 .. Len(blocks')
    BY <1>2, <2>1 DEF Return, TypeInv, IInv
  <2>4. blocks'[root'] = LeafBlock(0, len)
    BY <1>2, <2>1, <2>2, <2>3
  <2>5. LeavesInv' /\ SlicesCut' /\ TotalsInv' /\ SubnodesCut'
    BY <1>0, <1>2, Kept
  <2>6. TypeInv'
    BY <1>0, <1>2, <2>3 DEF TypeInv
  <2>7. blocks'[root'].kind = "leaf" /\ IsLeaf(blocks[root])'
    BY <1>0, <2>4 DEF IsLeaf, LeafBlock
  <2>8. ResultInv'
    BY <2>3, <2>7 DEF ResultInv
  <2>9. SlicesInv' /\ SubnodesInv'
    BY <2>3, <2>5, <2>7 DEF SlicesInv, SubnodesInv
  <2> QED
    BY <2>5, <2>6, <2>8, <2>9 DEF IInv
<1>3. CASE len > MaxTotal /\ Throw
  BY <1>0, <1>3, Refused
<1>4. CASE Len(leaves) \in 2 .. XFanout /\ emitXBlock(leaves, 1, len) /\ Return(NewBid)
  <2> DEFINE b == [kind |-> "x", from |-> 0, total |-> len, refs |-> leaves]
  <2>1. b \in Block /\ emitBlock(b)
    BY <1>0, <1>4, BlockTypes DEF emitXBlock
  <2>2. IsX(b)
    BY <1>0, <1>4 DEF IsX
  <2>3. AddsUp(blocks, b, NewBid)
    <3>1. PICK sums : PartSums(blocks, leaves, sums) /\ sums[Len(leaves)] = covered(0, Len(leaves))
      <4>1. 0 + Len(leaves) <= Len(leaves) /\ Len(leaves) \in Nat \ {0} /\ 0 \in Nat
        BY <1>0, <1>4
      <4>2. \A k \in 1 .. Len(leaves) : leaves[k] = leaves[0 + k]
        OBVIOUS
      <4> QED
        BY <1>0, <4>1, <4>2, LeafSums
    <3>2. covered(0, Len(leaves)) = len
      BY <1>0 DEF covered, Written, SmallerOf
    <3>3. leaves \in Seq(1 .. (NewBid - 1))
      BY LeafRefs
    <3> QED
      BY <1>0, <1>4, <3>1, <3>2, <3>3 DEF AddsUp
  <2> QED
    BY <1>0, <1>4, <2>1, <2>2, <2>3, Returned
<1>5. CASE pc' = "slices" /\ UNCHANGED <<blocks, root>>
  <2>1. LeavesInv' /\ SlicesCut' /\ TotalsInv' /\ SubnodesCut'
    BY <1>0, <1>5, Kept
  <2>2. TypeInv'
    BY <1>0, <1>5 DEF TypeInv
  <2>3. SlicesInv' /\ SubnodesInv' /\ ResultInv'
    BY <1>0, <1>5, <2>1 DEF SlicesInv, SubnodesInv, ResultInv, Written
  <2> QED
    BY <2>1, <2>2, <2>3 DEF IInv
<1> QED
  BY <1>1, <1>2, <1>3, <1>4, <1>5 DEF assembleDataTree

\* The next XBLOCK under an XXBLOCK takes the leaves the last one left.
LEMMA SliceStep == IInv /\ EmitSlice => IInv'
<1> SUFFICES ASSUME IInv, EmitSlice PROVE IInv'
  OBVIOUS
<1>0. /\ BlockData \in Nat \ {0} /\ XFanout \in Nat \ {0} /\ len \in Nat /\ TypeInv /\ LeavesInv
      /\ leaves \in Seq(1 .. Len(blocks)) /\ Len(leaves) \in Nat /\ DOMAIN leaves = 1 .. Len(leaves)
      /\ xblocks \in Seq(Nat) /\ Len(xblocks) \in Nat /\ DOMAIN xblocks = 1 .. Len(xblocks)
      /\ Len(blocks) \in Nat /\ NewBid - 1 = Len(blocks) /\ pc = "slices"
  BY Sizes, LeafRefs DEF IInv, TypeInv, EmitSlice
<1> DEFINE j == Len(xblocks) + 1
           o == Sliced
           n == SliceLen(j)
           refs == SubSeq(leaves, o + 1, o + n)
           b == SliceAt(j)
<1>1. (j - 1) * XFanout = o /\ o \in Nat /\ o < Len(leaves) /\ j \in Nat
  BY <1>0 DEF Sliced, EmitSlice
<1>2. n = SmallerOf(XFanout, Len(leaves) - Sliced)
  BY <1>0, <1>1 DEF SliceLen
<1>3. n \in Nat \ {0} /\ n <= XFanout /\ o + n <= Len(leaves)
  <2> HIDE DEF n, o
  <2>1. n = SmallerOf(XFanout, Len(leaves) - o)
    BY <1>2 DEF o
  <2>2. o \in Nat /\ o < Len(leaves) /\ Len(leaves) \in Nat /\ XFanout \in Nat \ {0}
    BY <1>0, <1>1
  <2> QED
    BY <2>1, <2>2 DEF SmallerOf
<1>4. b = [kind |-> "x", from |-> 0, total |-> covered(o, n), refs |-> refs]
  BY <1>1 DEF SliceAt
<1>5. /\ blocks' = Append(blocks, b) /\ xblocks' = Append(xblocks, NewBid)
      /\ UNCHANGED <<pc, len, streamed, leaves, todo, children, root>>
  BY <1>2, <1>4 DEF EmitSlice, emitXBlock, emitBlock
<1> HIDE DEF n, o, b, j
<1>6. refs \in Seq(1 .. Len(blocks)) /\ Len(refs) = n /\ \A k \in 1 .. n : refs[k] = leaves[o + k]
  <2>1. o + 1 \in 1 .. (Len(leaves) + 1) /\ o + n \in 0 .. Len(leaves) /\ o + n - (o + 1) + 1 = n
    BY <1>0, <1>1, <1>3
  <2>2. Len(refs) = n /\ \A k \in 1 .. n : refs[k] = leaves[o + 1 + k - 1]
    BY <1>0, <1>1, <1>3, <2>1
  <2>3. \A k \in 1 .. n : o + 1 + k - 1 = o + k /\ leaves[o + k] \in 1 .. Len(blocks)
    BY <1>0, <1>1, <1>3
  <2>4. \A k \in 1 .. n : refs[k] = leaves[o + k]
    BY <2>2, <2>3
  <2>5. refs \in Seq(1 .. Len(blocks))
    BY <1>0, <1>1, <1>3, <2>1
  <2> QED
    BY <2>2, <2>4, <2>5
<1> HIDE DEF refs
<1>7. covered(o, n) \in Nat
  <2> DEFINE i == o + 1
  <2>1. i \in DOMAIN leaves /\ i - 1 = o
    BY <1>0, <1>1
  <2> HIDE DEF i
  <2>2. (i - 1) * BlockData < len
    BY <1>0, <2>1 DEF LeavesInv
  <2>3. o * BlockData < len
    BY <2>1, <2>2
  <2>4. o * BlockData \in Nat /\ n * BlockData \in Nat
    BY <1>0, <1>1, <1>3
  <2> QED
    BY <1>0, <2>3, <2>4 DEF covered, SmallerOf
<1>8. b \in Block /\ b.kind = "x" /\ b.refs = refs /\ b.total = covered(o, n)
  <2>1. refs \in Seq(Nat)
    BY <1>0, <1>6, SeqOver
  <2> QED
    BY <1>4, <1>7, <2>1, BlockTypes
<1>9. AddsUp(blocks, b, NewBid)
  <2>1. PICK sums : PartSums(blocks, refs, sums) /\ sums[n] = covered(o, n)
    <3>1. o \in Nat /\ n \in Nat \ {0} /\ o + n <= Len(leaves) /\ TypeInv /\ LeavesInv
      BY <1>0, <1>1, <1>3
    <3>2. Len(refs) = n /\ \A k \in 1 .. n : refs[k] = leaves[o + k]
      BY <1>6
    <3> QED
      BY <3>1, <3>2, LeafSums
  <2> QED
    BY <1>0, <1>3, <1>6, <1>8, <2>1 DEF AddsUp
<1>10. /\ blocks' \in Seq(Block) /\ Len(blocks') = Len(blocks) + 1 /\ DOMAIN blocks = 1 .. Len(blocks)
       /\ DOMAIN blocks' = 1 .. (Len(blocks) + 1) /\ \A k \in DOMAIN blocks : blocks'[k] = blocks[k]
       /\ NewBid = Len(blocks) + 1 /\ blocks'[NewBid] = b
  BY <1>0, <1>5, <1>8, Emitted DEF TypeInv
<1>11. More(blocks, blocks') /\ \A k \in DOMAIN blocks' : k \in DOMAIN blocks \/ blocks'[k].kind # "sl"
  <2>1. More(blocks, blocks')
    BY <1>0, <1>10 DEF More
  <2>2. ASSUME NEW k \in DOMAIN blocks' PROVE k \in DOMAIN blocks \/ blocks'[k].kind # "sl"
    <3>1. k \in DOMAIN blocks \/ k = NewBid
      BY <1>0, <1>10
    <3>2. blocks'[NewBid].kind # "sl"
      BY <1>8, <1>10
    <3> QED
      BY <3>1, <3>2, Zenon
  <2> QED
    BY <2>1, <2>2
<1>12. TotalsInv' /\ LeavesInv' /\ SubnodesCut'
  BY <1>5, <1>8, <1>9, <1>11, KeepTotals, KeepLeaves, KeepSubnodes DEF IInv, SubnodesInv
<1>13. TypeInv'
  <2>1. root' \in 0 .. Len(blocks') /\ xblocks' \in Seq(Nat)
    BY <1>0, <1>5, <1>10 DEF TypeInv
  <2> QED
    BY <1>0, <1>5, <1>10, <2>1 DEF TypeInv
<1>14. SlicesCut'
  <2>1. ASSUME NEW k PROVE SliceAt(k)' = SliceAt(k)
    BY <1>5 DEF SliceAt, SliceLen, covered, SmallerOf
  <2>2. /\ DOMAIN xblocks' = 1 .. (Len(xblocks) + 1) /\ \A k \in DOMAIN xblocks : xblocks'[k] = xblocks[k]
        /\ xblocks'[j] = NewBid
    BY <1>0, <1>5, <1>10 DEF j
  <2>3. ASSUME NEW k \in DOMAIN xblocks'
        PROVE  /\ xblocks'[k] \in DOMAIN blocks' /\ (k - 1) * XFanout < Len(leaves)
               /\ blocks'[xblocks'[k]] = SliceAt(k)
    <3>1. CASE k \in DOMAIN xblocks
      <4>1. /\ xblocks[k] \in DOMAIN blocks /\ (k - 1) * XFanout < Len(leaves)
            /\ blocks[xblocks[k]] = SliceAt(k)
        BY <3>1 DEF IInv, SlicesInv, SlicesCut
      <4> QED
        BY <1>11, <2>2, <3>1, <4>1 DEF More
    <3>2. CASE k = j
      <4>1. NewBid \in DOMAIN blocks'
        BY <1>0, <1>10
      <4> QED
        BY <1>1, <1>10, <2>2, <3>2, <4>1 DEF b
    <3> QED
      BY <1>0, <2>2, <3>1, <3>2 DEF j
  <2> QED
    BY <1>5, <2>1, <2>3 DEF SlicesCut
<1>15. SlicesInv' /\ SubnodesInv' /\ ResultInv'
  BY <1>0, <1>5, <1>12, <1>14 DEF IInv, SlicesInv, SubnodesInv, ResultInv, Written
<1> QED
  BY <1>12, <1>13, <1>15 DEF IInv

\* The XXBLOCK takes all slices, or there are too many of them.
LEMMA TopStep == IInv /\ EmitXXBlock => IInv'
<1> SUFFICES ASSUME IInv, EmitXXBlock PROVE IInv'
  OBVIOUS
<1>0. /\ BlockData \in Nat \ {0} /\ XFanout \in Nat \ {0} /\ len \in Nat /\ TypeInv
      /\ Len(leaves) \in Nat /\ DOMAIN leaves = 1 .. Len(leaves)
      /\ xblocks \in Seq(Nat) /\ Len(xblocks) \in Nat /\ DOMAIN xblocks = 1 .. Len(xblocks)
      /\ Len(blocks) \in Nat /\ NewBid - 1 = Len(blocks) /\ DOMAIN blocks = 1 .. Len(blocks)
      /\ UNCHANGED <<len, streamed, leaves, xblocks, todo, children>>
      /\ len <= Written /\ Len(leaves) <= Len(xblocks) * XFanout
  <2>1. pc = "slices" /\ len <= Written
    BY DEF EmitXXBlock, IInv, SlicesInv, TypeInv, Written
  <2> QED
    BY <2>1, Sizes, LeafRefs DEF IInv, TypeInv, EmitXXBlock, Sliced
<1>1. \A i \in DOMAIN leaves : (i - 1) * BlockData < len
  BY DEF IInv, LeavesInv
<1>2. CASE Len(xblocks) > XFanout /\ Throw
  <2>1. len > XFanout * XFanout * BlockData
    <3> DEFINE k == XFanout + 1
    <3>1. k \in DOMAIN xblocks /\ k - 1 = XFanout
      BY <1>0, <1>2
    <3> HIDE DEF k
    <3>2. (k - 1) * XFanout < Len(leaves)
      BY <3>1 DEF IInv, SlicesInv, SlicesCut
    <3> DEFINE s == XFanout * XFanout
               i == s + 1
    <3>3. s \in Nat /\ s < Len(leaves)
      BY <1>0, <3>1, <3>2
    <3>4. i \in DOMAIN leaves /\ i - 1 = s
      BY <1>0, <3>3
    <3> HIDE DEF i
    <3>5. (i - 1) * BlockData < len
      BY <1>1, <3>4
    <3>6. s * BlockData < len
      BY <3>4, <3>5
    <3> QED
      BY <1>0, <3>6
  <2> QED
    BY <1>0, <1>2, <2>1, Refused
<1>3. CASE Len(xblocks) <= XFanout /\ emitXBlock(xblocks, 2, len) /\ Return(NewBid)
  <2> DEFINE b == [kind |-> "xx", from |-> 0, total |-> len, refs |-> xblocks]
  <2>1. b \in Block /\ emitBlock(b)
    <3>1. b \in Block
      BY <1>0, BlockTypes
    <3>2. emitBlock(b)
      BY <1>3 DEF emitXBlock
    <3> QED
      BY <3>1, <3>2
  <2>2. IsXX(b)
    BY <1>0, <1>3 DEF IsXX
  <2>3. AddsUp(blocks, b, NewBid)
    <3>1. PICK sums : PartSums(blocks, xblocks, sums) /\ sums[Len(xblocks)] = len
      BY <1>0, <1>1, SliceSums DEF IInv
    <3>2. \A i \in 1 .. Len(xblocks) : xblocks[i] \in 1 .. Len(blocks)
      BY <1>0 DEF IInv, SlicesInv, SlicesCut
    <3>3. xblocks \in Seq(1 .. (NewBid - 1))
      BY <1>0, <3>2, SeqOver
    <3> QED
      BY <1>3, <3>1, <3>3 DEF AddsUp
  <2> QED
    BY <1>0, <1>3, <2>1, <2>2, <2>3, Returned
<1> QED
  BY <1>2, <1>3 DEF EmitXXBlock

\* The k smallest elements of a set: at least one, at most k, and below the rest.
LEMMA SmallestFacts ==
  ASSUME NEW S, S \subseteq Nat, S # {}, IsFiniteSet(S), NEW k \in Nat \ {0},
         NEW chunk, chunk = Smallest(S, k)
  PROVE  /\ chunk \subseteq S /\ chunk # {} /\ IsFiniteSet(chunk) /\ Cardinality(chunk) <= k
         /\ \A e \in chunk : \A f \in S \ chunk : e < f
         /\ Min(chunk) \in chunk /\ \A e \in chunk : Min(chunk) <= e
<1> DEFINE rank(e) == Cardinality(Below(S, e))
<1>1. chunk = {e \in S : rank(e) < k}
  BY DEF Smallest, Below
<1>2. \A e : Below(S, e) \in SUBSET S /\ IsFiniteSet(Below(S, e)) /\ rank(e) \in Nat
  <2>1. \A e : Below(S, e) \in SUBSET S
    BY DEF Below
  <2>2. \A e : IsFiniteSet(Below(S, e))
    BY <2>1, FS_Subset
  <2> QED
    BY <2>1, <2>2, FS_CardinalityType
<1>3. ASSUME NEW a \in S, NEW b \in S, a < b PROVE rank(a) < rank(b)
  <2>1. Below(S, a) \in SUBSET Below(S, b) /\ a \in Below(S, b) /\ a \notin Below(S, a)
    <3>1. a \in Nat /\ b \in Nat /\ \A y \in S : y \in Nat
      BY <1>3
    <3>2. ASSUME NEW y \in S, y < a PROVE y < b
      <4>1. y \in Nat
        BY <3>1
      <4> QED
        BY <1>3, <3>1, <3>2, <4>1
    <3>3. ~(a < a)
      BY <3>1
    <3> QED
      BY <1>3, <3>2, <3>3, Zenon DEF Below
  <2>2. rank(a) <= rank(b) /\ (rank(b) = rank(a) => Below(S, b) = Below(S, a))
    BY <1>2, <2>1, FS_Subset
  <2>3. rank(a) # rank(b)
    BY <2>1, <2>2
  <2>4. rank(a) \in Nat /\ rank(b) \in Nat
    BY <1>2
  <2> HIDE DEF rank
  <2> QED
    BY <2>2, <2>3, <2>4
<1>4. chunk # {}
  <2>1. PICK m \in S : \A y \in S : m <= y
    BY Least
  <2>2. Below(S, m) = {}
    <3>1. \A y \in S : ~(y < m)
      BY <2>1
    <3> QED
      BY <3>1 DEF Below
  <2>3. rank(m) = 0
    BY <2>2, FS_EmptySet
  <2> QED
    BY <1>1, <2>3
<1>5. ASSUME NEW e \in chunk, NEW f \in S \ chunk PROVE e < f
  <2>1. e \in S /\ f \in S /\ e \in Nat /\ f \in Nat /\ rank(e) < k /\ ~(rank(f) < k)
    BY <1>1
  <2>2. rank(e) \in Nat /\ rank(f) \in Nat
    BY <1>2
  <2>3. ~(f < e)
    BY <1>3, <2>1, <2>2
  <2> QED
    BY <2>1, <2>3
<1>6. IsFiniteSet(chunk) /\ Cardinality(chunk) <= k
  <2> DEFINE T == 0 .. (k - 1)
             g == [e \in chunk |-> rank(e)]
  <2>1. IsFiniteSet(T) /\ Cardinality(T) = k
    <3>1. 0 \in Int /\ k - 1 \in Int
      OBVIOUS
    <3> QED
      BY <3>1, FS_Interval
  <2>2. \A e \in chunk : rank(e) \in T
    BY <1>1, <1>2
  <2>3. ASSUME NEW a \in chunk, NEW b \in chunk, g[a] = g[b] PROVE a = b
    <3>1. a \in S /\ b \in S /\ a \in Nat /\ b \in Nat /\ rank(a) = rank(b)
      BY <1>1, <2>3
    <3>2. rank(a) \in Nat
      BY <1>2
    <3> QED
      BY <1>3, <3>1, <3>2
  <2>4. g \in Injection(chunk, T)
    <3> HIDE DEF rank
    <3>1. g \in [chunk -> T]
      BY <2>2
    <3> QED
      BY <2>3, <3>1 DEF Injection, IsInjective
  <2> HIDE DEF T, g
  <2>5. IsFiniteSet(chunk) /\ Cardinality(chunk) <= Cardinality(T)
    BY <2>1, <2>4, FS_Injection
  <2> QED
    BY <2>1, <2>5
<1>7. chunk \subseteq S
  BY <1>1
<1>8. Min(chunk) \in chunk /\ \A e \in chunk : Min(chunk) <= e
  <2>1. PICK m \in chunk : \A y \in chunk : m <= y
    BY <1>4, <1>7, Least
  <2> QED
    BY <2>1 DEF Min
<1> QED
  BY <1>4, <1>5, <1>6, <1>7, <1>8

\* The next SLBLOCK takes the smallest subnodes left, all above those before.
LEMMA SlStep == IInv /\ emit_sl => IInv'
<1> SUFFICES ASSUME IInv, emit_sl PROVE IInv'
  OBVIOUS
<1> DEFINE chunk == Smallest(todo, SlFanout)
           b == [kind |-> "sl", from |-> 0, total |-> 0, refs |-> chunk]
           new == [key |-> Min(chunk), bid |-> NewBid]
<1>0. /\ todo \subseteq Nat /\ todo # {} /\ IsFiniteSet(todo) /\ SlFanout \in Nat \ {0} /\ TypeInv
      /\ pc = "subnodes" /\ children \subseteq Children /\ SubnodesCut
  BY Sizes DEF IInv, TypeInv, emit_sl, SubnodesInv
<1>1. /\ chunk \subseteq todo /\ Cardinality(chunk) <= SlFanout
      /\ \A e \in chunk : \A f \in todo \ chunk : e < f
      /\ Min(chunk) \in chunk /\ \A e \in chunk : Min(chunk) <= e
  BY <1>0, SmallestFacts
<1>2. /\ blocks' = Append(blocks, b) /\ children' = children \cup {new} /\ todo' = todo \ chunk
      /\ IF children = {} /\ todo' = {} THEN Return(NewBid) ELSE UNCHANGED <<pc, root>>
      /\ UNCHANGED <<len, streamed, leaves, xblocks>>
  BY DEF emit_sl, emitBlock
<1> HIDE DEF chunk
<1>3. b \in Block /\ b.kind = "sl" /\ b.refs = chunk /\ chunk \subseteq Nat
  <2>1. chunk \in SUBSET Nat
    BY <1>0, <1>1
  <2> QED
    BY <2>1, BlockTypes
<1>4. new.key = Min(chunk) /\ new.bid = NewBid
  OBVIOUS
<1> HIDE DEF b
<1>5. /\ blocks' \in Seq(Block) /\ Len(blocks) \in Nat /\ Len(blocks') = Len(blocks) + 1
      /\ DOMAIN blocks = 1 .. Len(blocks) /\ DOMAIN blocks' = 1 .. (Len(blocks) + 1)
      /\ \A i \in DOMAIN blocks : blocks'[i] = blocks[i]
      /\ NewBid = Len(blocks) + 1 /\ blocks'[NewBid] = b
  BY <1>0, <1>2, <1>3, Emitted DEF TypeInv
<1>6. More(blocks, blocks') /\ NewBid \in DOMAIN blocks' /\ NewBid \notin DOMAIN blocks /\ NewBid \in Nat
  BY <1>5 DEF More
<1>7. new \in Children
  BY <1>1, <1>3, <1>6 DEF Children
<1> HIDE DEF new
<1>8. (pc' = "subnodes" /\ root' = root) \/ (pc' = "done" /\ root' = NewBid /\ children = {})
  BY <1>0, <1>2 DEF Return
<1>9. TypeInv'
  <2>1. root' \in 0 .. Len(blocks')
    BY <1>5, <1>8 DEF IInv, TypeInv
  <2>2. todo' \subseteq Nat /\ IsFiniteSet(todo')
    <3>1. todo' \in SUBSET todo
      BY <1>2
    <3> QED
      BY <1>0, <3>1, FS_Subset
  <2>3. children' \subseteq Children
    BY <1>0, <1>2, <1>7
  <2>4. pc' \in {"data", "slices", "subnodes", "done", "thrown"}
    BY <1>8
  <2> QED
    BY <1>0, <1>2, <1>5, <2>1, <2>2, <2>3, <2>4 DEF TypeInv
<1>10. LeavesInv' /\ SlicesCut' /\ TotalsInv'
  BY <1>2, <1>3, <1>6, KeepLeaves, KeepSlices, KeepTotals DEF IInv, SlicesInv
<1>11. SlicesInv'
  BY <1>8, <1>10 DEF SlicesInv
<1>12. ASSUME NEW c \in children
       PROVE  IsChild(blocks', c) /\ blocks'[c.bid] = blocks[c.bid] /\ IsChild(blocks, c)
  <2>1. IsChild(blocks, c)
    BY <1>0 DEF SubnodesCut
  <2>2. c.bid \in DOMAIN blocks' /\ blocks'[c.bid] = blocks[c.bid]
    BY <1>6, <2>1 DEF IsChild, More
  <2> QED
    BY <2>1, <2>2 DEF IsChild
<1>13. /\ IsChild(blocks', new) /\ blocks'[new.bid].refs = chunk
  BY <1>1, <1>3, <1>4, <1>5, <1>6 DEF IsChild
<1>14. ASSUME NEW c \in children PROVE \A n \in blocks'[c.bid].refs : n < new.key
  <2>1. new.key \in todo
    BY <1>1, <1>4
  <2>2. \A n \in blocks[c.bid].refs : \A m \in todo : n < m
    BY <1>0 DEF SubnodesCut
  <2> QED
    BY <1>12, <2>1, <2>2
<1>15. SubnodesCut'
  <2>1. \A c \in children' : IsChild(blocks', c)
    BY <1>2, <1>12, <1>13
  <2>2. \A j \in DOMAIN blocks' : blocks'[j].kind = "sl" => \E c \in children' : c.bid = j
    <3> SUFFICES ASSUME NEW j \in DOMAIN blocks', blocks'[j].kind = "sl"
                 PROVE  \E c \in children' : c.bid = j
      OBVIOUS
    <3>1. CASE j \in DOMAIN blocks
      <4>1. blocks[j].kind = "sl"
        BY <1>5, <3>1
      <4>2. \E c \in children : c.bid = j
        BY <1>0, <3>1, <4>1 DEF SubnodesCut
      <4> QED
        BY <1>2, <4>2
    <3>2. CASE j = NewBid
      BY <1>2, <1>4, <3>2
    <3> QED
      BY <1>5, <3>1, <3>2
  <2>3. ASSUME NEW c \in children', NEW d \in children'
        PROVE  c = d \/ (\A n \in blocks'[c.bid].refs : n < d.key)
                     \/ (\A n \in blocks'[d.bid].refs : n < c.key)
    <3>1. CASE c \in children /\ d \in children
      <4>1. c = d \/ (\A n \in blocks[c.bid].refs : n < d.key)
                  \/ (\A n \in blocks[d.bid].refs : n < c.key)
        BY <1>0, <3>1 DEF SubnodesCut
      <4> QED
        BY <1>12, <3>1, <4>1
    <3>2. CASE c \in children /\ d = new
      BY <1>14, <3>2
    <3>3. CASE c = new /\ d \in children
      BY <1>14, <3>3
    <3> QED
      BY <1>2, <3>1, <3>2, <3>3
  <2>4. ASSUME NEW c \in children', NEW n \in blocks'[c.bid].refs, NEW m \in todo' PROVE n < m
    <3>1. CASE c \in children
      <4>1. n \in blocks[c.bid].refs /\ m \in todo
        BY <1>2, <1>12, <3>1
      <4> QED
        BY <1>0, <3>1, <4>1 DEF SubnodesCut
    <3>2. CASE c = new
      BY <1>1, <1>2, <1>13, <3>2
    <3> QED
      BY <1>2, <3>1, <3>2
  <2> QED
    BY <2>1, <2>2, <2>3, <2>4 DEF SubnodesCut
<1>16. SubnodesInv'
  <2>1. CASE pc' = "subnodes"
    BY <1>15, <2>1 DEF SubnodesInv
  <2>2. CASE root' = NewBid /\ children = {}
    <3>1. children' = {new} /\ new.bid = root'
      BY <1>2, <1>4, <2>2
    <3> QED
      BY <1>15, <3>1 DEF SubnodesInv
  <2> QED
    BY <1>8, <2>1, <2>2
<1>17. ResultInv'
  <2>1. CASE pc' = "subnodes"
    BY <2>1 DEF ResultInv
  <2>2. CASE pc' = "done" /\ root' = NewBid
    <3>1. blocks'[root'].kind = "sl"
      BY <1>3, <1>5, <2>2
    <3> QED
      BY <2>2, <3>1 DEF ResultInv
  <2> QED
    BY <1>8, <2>1, <2>2
<1> QED
  BY <1>9, <1>10, <1>11, <1>16, <1>17 DEF IInv

\* The SIBLOCK, no subnodes at all, or too many.
LEMMA SiStep == IInv /\ emit_si => IInv'
<1> SUFFICES ASSUME IInv, emit_si PROVE IInv'
  OBVIOUS
<1>0. UNCHANGED <<len, streamed, leaves, xblocks, todo, children>> /\ children \in SUBSET Children
  BY DEF emit_si, IInv, TypeInv
<1>1. CASE Return(NoBid) /\ UNCHANGED blocks
  <2>1. root' = 0 /\ pc' = "done" /\ NoBid = 0
    BY <1>1 DEF Return, NoBid
  <2>2. LeavesInv' /\ SlicesCut' /\ TotalsInv' /\ SubnodesCut'
    BY <1>0, <1>1, Kept
  <2>3. TypeInv'
    <3>1. Len(blocks) \in Nat
      BY DEF IInv, TypeInv
    <3>2. root' \in 0 .. Len(blocks')
      BY <1>1, <2>1, <3>1
    <3> QED
      BY <1>0, <1>1, <2>1, <3>2 DEF IInv, TypeInv
  <2>4. SlicesInv' /\ SubnodesInv' /\ ResultInv'
    BY <2>1, <2>2 DEF SlicesInv, SubnodesInv, ResultInv, NoBid
  <2> QED
    BY <2>2, <2>3, <2>4 DEF IInv
<1>2. CASE Cardinality(children) > SiFanout /\ Throw
  BY <1>0, <1>2, Refused
<1>3. CASE /\ emitBlock([kind |-> "si", from |-> 0, total |-> 0, refs |-> children])
           /\ Return(NewBid)
  <2> DEFINE b == [kind |-> "si", from |-> 0, total |-> 0, refs |-> children]
  <2>1. b \in Block /\ b.kind = "si"
    BY <1>0, BlockTypes
  <2> QED
    BY <1>0, <1>3, <2>1, Returned
<1> QED
  BY <1>1, <1>2, <1>3 DEF emit_si

----------------------------------------------------------------------------
(* The theorems.                                                           *)

\* A call on a database that holds a block establishes the invariant.
LEMMA InitIInv == Init => IInv
<1> SUFFICES ASSUME Init PROVE IInv
  OBVIOUS
<1> DEFINE b == LeafBlock(0, 0)
<1>1. b \in Block /\ b.kind = "leaf"
  BY BlockTypes
<1>2. /\ blocks = <<b>> /\ leaves = <<>> /\ xblocks = <<>> /\ children = {} /\ root = 0
      /\ pc \in {"data", "subnodes"}
  BY DEF Init, NoBid
<1> HIDE DEF b
<1>3. blocks \in Seq(Block) /\ Len(blocks) = 1 /\ DOMAIN blocks = {1} /\ blocks[1] = b
  BY <1>1, <1>2
<1>4. len \in Nat /\ streamed \in BOOLEAN
  <2>1. Lengths \subseteq Nat /\ 0 \in Nat
    BY TreeAssumption DEF TreeAssumption
  <2>2. len \in Lengths \/ len = 0
    BY DEF Init
  <2>3. streamed \in BOOLEAN \/ streamed = FALSE
    BY Zenon DEF Init
  <2> QED
    BY <2>1, <2>2, <2>3, Zenon
<1>5. todo \subseteq Nat /\ IsFiniteSet(todo)
  BY TreeAssumption, FS_EmptySet DEF Init, TreeAssumption
<1>6. TypeInv
  BY <1>2, <1>3, <1>4, <1>5 DEF TypeInv
<1>7. LeavesInv /\ SlicesInv /\ ResultInv
  BY <1>2 DEF LeavesInv, SlicesInv, SlicesCut, ResultInv
<1>8. TotalsInv /\ SubnodesInv
  BY <1>1, <1>2, <1>3 DEF TotalsInv, SubnodesInv, SubnodesCut
<1> QED
  BY <1>6, <1>7, <1>8 DEF IInv

\* Every step of a call keeps it.
LEMMA StepIInv == IInv /\ [Next]_vars => IInv'
<1>1. ASSUME IInv, UNCHANGED vars PROVE IInv'
  <2>1. LeavesInv' /\ SlicesCut' /\ TotalsInv' /\ SubnodesCut'
    BY <1>1, Kept DEF vars
  <2>2. TypeInv' /\ SlicesInv' /\ SubnodesInv'
    BY <1>1, <2>1 DEF vars, IInv, TypeInv, SlicesInv, SubnodesInv, Written
  <2>3. ResultInv'
    BY <1>1 DEF vars, IInv, ResultInv, IsLeaf, IsX, IsXX, Written
  <2> QED
    BY <2>1, <2>2, <2>3 DEF IInv
<1> QED
  BY <1>1, ShortStep, ChunkStep, AssembleStep, SliceStep, TopStep, SlStep, SiStep DEF Next

\* The inductive invariant holds in every reachable state.
LEMMA IInvAlways == Spec => []IInv
  BY InitIInv, StepIInv, PTL DEF Spec

\* The leaf that has a position.
LEMMA InLeaf ==
  ASSUME IInv, NEW p \in 0 .. (len - 1), NEW q \in Nat, NEW s \in 0 .. (BlockData - 1),
         p = q * BlockData + s, len <= Written
  PROVE  /\ q + 1 \in DOMAIN leaves
         /\ blocks[leaves[q + 1]].from <= p
         /\ p < blocks[leaves[q + 1]].from + blocks[leaves[q + 1]].total
<1>0. /\ BlockData \in Nat \ {0} /\ len \in Nat /\ Len(leaves) \in Nat
      /\ DOMAIN leaves = 1 .. Len(leaves) /\ p \in Nat /\ p < len /\ s \in Nat /\ s < BlockData
  BY Sizes DEF IInv, TypeInv
<1> DEFINE x == q * BlockData
<1>1. x \in Nat
  BY <1>0
<1>2. q < Len(leaves)
  <2> SUFFICES ASSUME Len(leaves) <= q PROVE FALSE
    BY <1>0
  <2> DEFINE r == q - Len(leaves)
  <2>1. r \in Nat /\ q = Len(leaves) + r
    BY <1>0
  <2> HIDE DEF r
  <2>2. (Len(leaves) + r) * BlockData = Len(leaves) * BlockData + r * BlockData
    BY <1>0, <2>1
  <2>3. Len(leaves) * BlockData \in Nat /\ r * BlockData \in Nat /\ len <= Len(leaves) * BlockData
    BY <1>0, <2>1 DEF Written
  <2> QED
    BY <1>0, <2>1, <2>2, <2>3
<1> DEFINE i == q + 1
<1>3. i \in DOMAIN leaves /\ i - 1 = q
  BY <1>0, <1>2
<1> HIDE DEF i
<1>4. blocks[leaves[i]] = LeafAt(i)
  BY <1>3 DEF IInv, LeavesInv
<1>5. LeafAt(i).from = x /\ LeafAt(i).total = SmallerOf(BlockData, len - x)
  BY <1>3 DEF LeafAt, LeafBlock
<1> DEFINE f == blocks[leaves[i]].from
           t == blocks[leaves[i]].total
<1>6. f = x /\ t = SmallerOf(BlockData, len - x) /\ p = x + s
  BY <1>4, <1>5
<1> HIDE DEF x, f, t
<1>7. f <= p /\ p < f + t
  BY <1>0, <1>1, <1>6 DEF SmallerOf
<1> QED
  BY <1>3, <1>7 DEF i, f, t

\* Division finds the leaf of a position, through one level of blocks or two.
LEMMA PositionFound ==
  ASSUME IInv, pc = "done", IsValue, NEW p \in 0 .. (len - 1)
  PROVE  /\ LeafFor(root, p).from <= p
         /\ p < LeafFor(root, p).from + LeafFor(root, p).total
<1>0. /\ BlockData \in Nat \ {0} /\ XFanout \in Nat \ {0} /\ len \in Nat /\ p \in Nat /\ p < len
      /\ Len(leaves) \in Nat /\ DOMAIN leaves = 1 .. Len(leaves)
      /\ Len(xblocks) \in Nat /\ DOMAIN xblocks = 1 .. Len(xblocks)
  BY Sizes DEF IInv, TypeInv
<1> DEFINE b == blocks[root]
           f == XFanout * BlockData
           a == p \div f
           r == p % f
           m == r \div BlockData
           s == r % BlockData
           within == IF b.kind = "xx" THEN blocks[b.refs[a + 1]] ELSE b
<1>1. LeafFor(root, p) = IF b.kind = "leaf" THEN b ELSE blocks[within.refs[m + 1]]
  BY DEF LeafFor
<1>2. f \in Nat \ {0}
  BY <1>0
<1> HIDE DEF f
<1>3. p = f * a + r /\ r \in 0 .. (f - 1) /\ a \in Nat
  BY <1>0, <1>2, DivMod
<1>4. r \in Nat
  BY <1>2, <1>3
<1> HIDE DEF a, r
<1>5. r = BlockData * m + s /\ s \in 0 .. (BlockData - 1) /\ m \in Nat
  BY <1>0, <1>4, DivMod
<1> HIDE DEF m, s
<1> DEFINE q == a * XFanout + m
<1>6. q \in Nat /\ p = q * BlockData + s
  <2>1. f * a = (a * XFanout) * BlockData
    BY <1>0, <1>3 DEF f
  <2>2. a * XFanout \in Nat
    BY <1>0, <1>3
  <2> DEFINE c == a * XFanout
  <2> HIDE DEF c
  <2>3. (c + m) * BlockData = c * BlockData + m * BlockData /\ m * BlockData = BlockData * m
        /\ c \in Nat /\ c * BlockData \in Nat /\ BlockData * m \in Nat /\ f * a = c * BlockData
    BY <1>0, <1>5, <2>1, <2>2 DEF c
  <2>4. q = c + m
    BY DEF c
  <2> QED
    BY <1>0, <1>3, <1>5, <2>3, <2>4
<1>7. IsLeaf(b) \/ IsX(b) \/ IsXX(b)
  <2>1. b.kind \in {"leaf", "x", "xx"} /\ root # NoBid
    BY DEF IsValue
  <2> QED
    BY <2>1 DEF IInv, ResultInv
<1>8. CASE IsLeaf(b)
  <2>1. LeafFor(root, p) = b /\ b.from = 0 /\ b.total = len
    BY <1>1, <1>8 DEF IsLeaf
  <2> QED
    BY <1>0, <2>1
<1>9. CASE IsX(b)
  <2>1. within.refs = leaves /\ b.kind # "leaf" /\ len <= Written /\ Len(leaves) <= XFanout
    BY <1>9 DEF IsX
  <2>2. a = 0
    <3> SUFFICES ASSUME a # 0 PROVE FALSE
      OBVIOUS
    <3> DEFINE d == a - 1
    <3>1. d \in Nat /\ a = d + 1
      BY <1>3
    <3> HIDE DEF d
    <3>2. f * (d + 1) = f * d + f /\ f * d \in Nat
      BY <1>2, <3>1
    <3>3. f <= p
      BY <1>2, <1>3, <1>4, <3>1, <3>2
    <3> DEFINE e == XFanout - Len(leaves)
    <3>4. e \in Nat /\ XFanout = Len(leaves) + e
      BY <1>0, <2>1
    <3> HIDE DEF e
    <3>5. (Len(leaves) + e) * BlockData = Len(leaves) * BlockData + e * BlockData
          /\ e * BlockData \in Nat /\ Len(leaves) * BlockData \in Nat
      BY <1>0, <3>4
    <3>6. Len(leaves) * BlockData <= f
      BY <3>4, <3>5 DEF f
    <3> QED
      BY <1>0, <1>2, <2>1, <3>3, <3>5, <3>6 DEF Written
  <2>3. q = m
    BY <1>0, <1>5, <2>2
  <2> HIDE DEF q, within
  <2>4. LeafFor(root, p) = blocks[leaves[q + 1]]
    BY <1>1, <2>1, <2>3
  <2> QED
    BY <1>5, <1>6, <2>1, <2>4, InLeaf
<1>10. CASE IsXX(b)
  <2>1. /\ within = blocks[xblocks[a + 1]] /\ b.kind # "leaf" /\ len <= Written
        /\ Len(leaves) <= Len(xblocks) * XFanout
    BY <1>10 DEF IsXX
  <2> HIDE DEF within
  <2>2. q + 1 \in DOMAIN leaves
    <3> HIDE DEF q
    <3> QED
      BY <1>5, <1>6, <2>1, InLeaf
  <2> DEFINE c == a * XFanout
  <2>3. c \in Nat /\ q = c + m /\ c + m < Len(leaves)
    BY <1>0, <1>3, <1>5, <2>2
  <2>4. m < XFanout
    <3> SUFFICES ASSUME XFanout <= m PROVE FALSE
      BY <1>0, <1>5
    <3> DEFINE e == m - XFanout
    <3>1. e \in Nat /\ m = XFanout + e
      BY <1>0, <1>5
    <3> HIDE DEF e
    <3>2. BlockData * (XFanout + e) = XFanout * BlockData + BlockData * e /\ BlockData * e \in Nat
      BY <1>0, <3>1
    <3>3. f <= BlockData * m /\ BlockData * m \in Nat
      BY <1>0, <1>2, <1>5, <3>1, <3>2 DEF f
    <3> QED
      BY <1>2, <1>3, <1>4, <1>5, <3>3
  <2>5. a < Len(xblocks)
    <3> SUFFICES ASSUME Len(xblocks) <= a PROVE FALSE
      BY <1>0, <1>3
    <3> DEFINE e == a - Len(xblocks)
    <3>1. e \in Nat /\ a = Len(xblocks) + e
      BY <1>0, <1>3
    <3> HIDE DEF e
    <3>2. (Len(xblocks) + e) * XFanout = Len(xblocks) * XFanout + e * XFanout
          /\ e * XFanout \in Nat /\ Len(xblocks) * XFanout \in Nat
      BY <1>0, <3>1
    <3>3. Len(xblocks) * XFanout <= c
      BY <3>1, <3>2
    <3> HIDE DEF c
    <3> QED
      BY <1>0, <1>5, <2>1, <2>3, <3>2, <3>3
  <2> DEFINE j == a + 1
             n == SliceLen(j)
  <2>6. j \in DOMAIN xblocks /\ (j - 1) * XFanout = c
    BY <1>0, <1>3, <2>5
  <2>7. n = SmallerOf(XFanout, Len(leaves) - c)
    BY <2>6 DEF SliceLen
  <2>8. within.refs = SubSeq(leaves, c + 1, c + n)
    <3>1. blocks[xblocks[j]] = SliceAt(j)
      BY <2>6 DEF IInv, SlicesInv, SlicesCut
    <3>2. SliceAt(j).refs = SubSeq(leaves, c + 1, c + n)
      BY <2>6 DEF SliceAt
    <3> QED
      BY <2>1, <3>1, <3>2
  <2> HIDE DEF c, n, j, q
  <2>9. m + 1 \in 1 .. n /\ n \in Nat /\ c + n <= Len(leaves)
    <3>1. /\ c \in Nat /\ m \in Nat /\ XFanout \in Nat /\ Len(leaves) \in Nat
          /\ c + m < Len(leaves) /\ m < XFanout
      BY <1>0, <1>5, <2>3, <2>4
    <3>2. n = (IF XFanout < Len(leaves) - c THEN XFanout ELSE Len(leaves) - c)
      BY <2>7 DEF SmallerOf
    <3> QED
      BY <3>1, <3>2
  <2>10. SubSeq(leaves, c + 1, c + n)[m + 1] = leaves[q + 1]
    <3>1. leaves \in Seq(Nat)
      BY DEF IInv, TypeInv
    <3>2. c + 1 + (m + 1) - 1 = q + 1 /\ m + 1 \in 1 .. (c + n - (c + 1) + 1)
      BY <1>5, <2>3, <2>9
    <3>3. SubSeq(leaves, c + 1, c + n)[m + 1] = leaves[c + 1 + (m + 1) - 1]
      BY <1>0, <1>5, <2>3, <2>9, <3>1, <3>2
    <3> QED
      BY <3>2, <3>3
  <2>11. LeafFor(root, p) = blocks[leaves[q + 1]]
    BY <1>1, <2>1, <2>8, <2>10
  <2> QED
    BY <1>5, <1>6, <2>1, <2>11, InLeaf
<1> QED
  BY <1>7, <1>8, <1>9, <1>10

\* A value of any length over blocks of any size and fanout reads back, states
\* the right totals, and is refused only for its length: writeData(), the
\* streamed leaves and assembleDataTree() (ndb.cpp:151-208).
THEOREM ValuesReadBack == Spec => []ValueReadable
<1>1. ASSUME IInv PROVE ValueReadable
  <2>1. pc = "thrown" => \/ len > MaxTotal \/ len > XFanout * XFanout * BlockData
                         \/ Cardinality(children) > SiFanout
    BY <1>1 DEF IInv, ResultInv
  <2>2. ASSUME pc = "done", IsValue PROVE blocks[root].total = len
    BY <1>1, <2>2 DEF IInv, ResultInv, IsValue, IsLeaf, IsX, IsXX
  <2>3. ASSUME pc = "done", IsValue, NEW p \in 0 .. (len - 1)
        PROVE  /\ LeafFor(root, p).from <= p
               /\ p < LeafFor(root, p).from + LeafFor(root, p).total
    BY <1>1, <2>3, PositionFound
  <2>4. ASSUME NEW i \in DOMAIN blocks, blocks[i].kind \in {"x", "xx"}
        PROVE  Len(blocks[i].refs) <= XFanout /\ blocks[i].total = Total(blocks[i].refs)
    <3>1. AddsUp(blocks, blocks[i], i)
      BY <1>1, <2>4 DEF IInv, TotalsInv
    <3>2. Len(blocks[i].refs) \in Nat /\ Len(blocks[i].refs) <= XFanout
      BY <3>1 DEF AddsUp
    <3>3. PICK sums : /\ PartSums(blocks, blocks[i].refs, sums)
                      /\ sums[Len(blocks[i].refs)] = blocks[i].total
      BY <3>1 DEF AddsUp
    <3>4. Total(blocks[i].refs) = sums[Len(blocks[i].refs)]
      BY <3>2, <3>3, TotalIs
    <3> QED
      BY <3>2, <3>3, <3>4
  <2> QED
    BY <2>1, <2>2, <2>3, <2>4 DEF ValueReadable
<1> QED
  BY <1>1, IInvAlways, PTL

\* The keys of the SIBLOCK lead to the SLBLOCK that has a subnode, for every
\* set of identifiers and every fanout (ndb.cpp:213-245).
THEOREM SubnodesReadBack == Spec => []SubnodesFound
<1>1. ASSUME IInv PROVE SubnodesFound
  <2> SUFFICES ASSUME pc = "done", root # NoBid, blocks[root].kind \in {"sl", "si"},
                      NEW j \in DOMAIN blocks, blocks[j].kind = "sl", NEW nid \in blocks[j].refs
               PROVE  nid \in SubnodeLeaf(nid).refs /\ Cardinality(SubnodeLeaf(nid).refs) <= SlFanout
    BY DEF SubnodesFound
  <2>0. SubnodesCut /\ children \subseteq Children
    BY <1>1 DEF IInv, SubnodesInv, TypeInv
  <2>1. PICK c \in children : c.bid = j
    BY <2>0 DEF SubnodesCut
  <2>2. IsChild(blocks, c)
    BY <2>0 DEF SubnodesCut
  <2>3. nid \in blocks[c.bid].refs /\ Cardinality(blocks[c.bid].refs) <= SlFanout /\ c.key <= nid
        /\ nid \in Nat
    BY <2>1, <2>2 DEF IsChild
  <2>4. CASE blocks[root].kind = "sl"
    <3>1. PICK d \in children : children = {d} /\ d.bid = root
      BY <1>1, <2>4 DEF IInv, SubnodesInv
    <3>2. SubnodeLeaf(nid) = blocks[root] /\ c = d
      BY <2>4, <3>1 DEF SubnodeLeaf
    <3> QED
      BY <2>3, <3>1, <3>2
  <2>5. CASE blocks[root].kind = "si"
    <3> DEFINE below == {d \in children : d.key <= nid}
               chosen == CHOOSE d \in below : \A e \in below : e.key <= d.key
    <3>1. SubnodeLeaf(nid) = blocks[chosen.bid]
      BY <2>5 DEF SubnodeLeaf
    <3>2. c \in below
      BY <2>3
    <3>3. ASSUME NEW d \in below PROVE d = c \/ (d.key < c.key /\ ~(c.key <= d.key))
      <4>1. d \in children /\ d.key <= nid /\ d.key \in Nat /\ c.key \in Nat
        BY <2>0 DEF Children
      <4>2. IsChild(blocks, d)
        BY <2>0, <4>1 DEF SubnodesCut
      <4>3. d.key \in blocks[d.bid].refs
        BY <4>2 DEF IsChild
      <4>4. d = c \/ (\A n \in blocks[d.bid].refs : n < c.key) \/ (\A n \in blocks[c.bid].refs : n < d.key)
        BY <2>0, <4>1 DEF SubnodesCut
      <4>5. ~(nid < d.key)
        BY <2>3, <4>1
      <4>6. d = c \/ d.key < c.key
        BY <2>3, <4>3, <4>4, <4>5
      <4> QED
        BY <4>1, <4>6
    <3>4. \A e \in below : e.key <= c.key
      <4>1. c.key \in Nat /\ \A e \in below : e.key \in Nat
        BY <2>0 DEF Children
      <4> HIDE DEF below
      <4> QED
        BY <3>3, <4>1
    <3> HIDE DEF below
    <3>5. chosen \in below /\ \A e \in below : e.key <= chosen.key
      BY <3>2, <3>4
    <3>6. chosen = c
      <4> HIDE DEF chosen
      <4> QED
        BY <3>2, <3>3, <3>5
    <3> QED
      BY <2>3, <3>1, <3>6
  <2> QED
    BY <2>4, <2>5
<1> QED
  BY <1>1, IInvAlways, PTL
=============================================================================
