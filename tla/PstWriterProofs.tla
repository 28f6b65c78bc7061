-------------------------- MODULE PstWriterProofs --------------------------
(***************************************************************************)
(* Theorems about PstWriter, for any number of folders and messages, any   *)
(* room in a contents table and any pattern of failures: no identifier is  *)
(* registered twice, the folders form a tree whose listings agree with the *)
(* parents, and a store that could be closed is consistent.                *)
(***************************************************************************)
EXTENDS PstWriter, NatLemmas, TLAPS

----------------------------------------------------------------------------
(* The inductive invariant, in parts.                                      *)

FolderRecords ==
  [nid : Nat, parent : Nat, children : Seq(Nat), rows : Seq(Nat), open : BOOLEAN,
   count : Nat, unread : Nat]

\* The index and the identifier of the folder at a place of the list: the root
\* has its own, the others count up.
IndexAt(i) == IF i = 1 THEN 9 ELSE FirstUserNidIndex + i - 2
NidAt(i) == 32 * IndexAt(i) + 2

\* Folders that makeFolder() built: a folder comes after its parent, and the
\* children of a folder are the folders that name it as their parent, once each.
Tree(fs) ==
  /\ fs \in Seq(FolderRecords) /\ Len(fs) >= 1 /\ fs[1].parent = NidAt(1)
  /\ \A i \in DOMAIN fs : fs[i].nid = NidAt(i)
  /\ \A i \in DOMAIN fs : i > 1 => \E p \in DOMAIN fs : p < i /\ fs[i].parent = NidAt(p)

Listed(fs) ==
  /\ \A i \in DOMAIN fs : Len(fs[i].children) < Len(fs)
  /\ \A i \in DOMAIN fs : \A k \in DOMAIN fs[i].children :
       \E j \in DOMAIN fs : j > 1 /\ fs[i].children[k] = NidAt(j) /\ fs[j].parent = NidAt(i)
  /\ \A i \in DOMAIN fs : \A k, l \in DOMAIN fs[i].children :
       fs[i].children[k] = fs[i].children[l] => k = l
  /\ \A i, j \in DOMAIN fs : j > 1 /\ fs[j].parent = NidAt(i) =>
       \E k \in DOMAIN fs[i].children : fs[i].children[k] = NidAt(j)

FoldersInv ==
  /\ Tree(folders) /\ Listed(folders)
  /\ Len(folders) >= 8 /\ nextFolder = FirstUserNidIndex + Len(folders) - 1

\* Where addMessage() and finish() are: they never overlap.
MessageAt(n, f, shape) == Node(n, NidAt(f), buildMessage(shape), shape)

StagesInv ==
  /\ nextMessage \in Nat /\ nextMessage >= FirstUserNidIndex
  /\ stage \in 0 .. Broken /\ finished \in BOOLEAN /\ (finished <=> stage > 0)
  /\ bad \in BOOLEAN /\ (stage = Closed => ~bad)
  /\ adding.step \in {"none", "build", "row", "cells", "end"}
  /\ adding.step # "none" =>
       /\ adding \in [step : {"build", "row", "cells", "end"}, folder : DOMAIN folders, nid : Nat,
                      shape : Shapes]
       /\ stage = 0 /\ nextMessage > FirstUserNidIndex
       /\ adding.nid = 32 * (nextMessage - 1) + 4
  /\ adding.step \in {"cells", "end"} => folders[adding.folder].open

\* Every node is a message, one of the nodes of a folder that was written, or
\* one of the fixed ones that were.
IsMessage(node, below) ==
  \E i \in Nat, f \in DOMAIN folders, shape \in Shapes :
    i >= FirstUserNidIndex /\ i < below /\ node = MessageAt(32 * i + 4, f, shape)

NodesOf(j) == folderNodes(folders[j])
IsOfFolder(node) ==
  \E j \in DOMAIN folders, n \in 1 .. 4 : j < stage /\ node = NodesOf(j)[n]

IsFixed(node) ==
  \E g \in 1 .. 3 : \E n \in DOMAIN FixedNodes[g] :
    g < stage - Len(folders) /\ node = FixedNodes[g][n]

\* The message indexes below it may have a node.
Spent == IF adding.step = "build" THEN nextMessage - 1 ELSE nextMessage

Kind(k) == IsMessage(nbt[k], Spent) \/ IsOfFolder(nbt[k]) \/ IsFixed(nbt[k])

Distinct(nodes) == \A i, j \in DOMAIN nodes : nodes[i].nid = nodes[j].nid => i = j

NodesInv ==
  /\ nbt \in Seq(ToSet(nbt)) /\ Distinct(nbt)
  /\ \A k \in DOMAIN nbt : Kind(k)
  /\ adding.step \in {"row", "cells", "end"} =>
       \E k \in DOMAIN nbt : nbt[k] = MessageAt(adding.nid, adding.folder, adding.shape)

\* As long as no stage failed, the folders it passed are written whole.
WrittenInv ==
  stage \in 1 .. Closed =>
    /\ \A j \in DOMAIN folders : j < stage =>
         /\ ~folders[j].open
         /\ \A n \in 1 .. 4 : \E k \in DOMAIN nbt : nbt[k] = NodesOf(j)[n]
    /\ stage > Len(folders) + 2 =>
         \E k \in DOMAIN nbt : nbt[k] = Node(MessageStore, 0, NoSubs, Advertised)

\* The messages under a folder but for the one whose row is still to be written.
Awaited(i) ==
  IF adding.step \in {"row", "cells", "end"} /\ adding.folder = i THEN {adding.nid} ELSE {}
InboxOf(nodes, nid) ==
  {k \in DOMAIN nodes : nodes[k].parent = nid /\ nodes[k].nid % 32 = NormalMessage}
Filed(i) == {k \in InboxOf(nbt, NidAt(i)) : nbt[k].nid \notin Awaited(i)}

\* A folder whose row was refused, or of a database that cannot write, is never
\* closed; the rows and counters of every other one agree with its messages.
Sound(i) == ~bad /\ (folders[i].open => adding.step \in {"cells", "end"} /\ adding.folder = i)

Matches(f, nodes, filed) ==
  /\ ToSet(f.rows) = {nodes[k].nid : k \in filed}
  /\ f.count = Cardinality(filed)
  /\ f.unread = Cardinality({k \in filed : nodes[k].holds.unread})

RowsInv ==
  /\ \A i \in DOMAIN folders :
       folders[i].count = Len(folders[i].rows) /\ folders[i].unread <= folders[i].count
  /\ \A i \in DOMAIN folders : Sound(i) => Matches(folders[i], nbt, Filed(i))

IInv == FoldersInv /\ StagesInv /\ NodesInv /\ WrittenInv /\ RowsInv

----------------------------------------------------------------------------
(* Identifiers.                                                            *)

\* What the proofs use of the constants.
LEMMA Bounds == FirstUserNidIndex \in Nat /\ FirstUserNidIndex > 64
  BY WriterAssumption

\* The identifiers of folders: a place of the list has one, and no other place
\* has it.
LEMMA Nids ==
  /\ \A i \in Nat \ {0} : IndexAt(i) \in Nat /\ (IndexAt(i) = 9 \/ IndexAt(i) > 64)
  /\ \A i, j \in Nat \ {0} : IndexAt(i) = IndexAt(j) => i = j
  /\ \A i \in Nat \ {0} : NidAt(i) \in Nat /\ NidAt(i) = 32 * IndexAt(i) + 2
  /\ \A i, j \in Nat \ {0} : NidAt(i) = NidAt(j) => i = j
  /\ NidAt(1) = RootFolder
  /\ \A k \in Nat \ {0} : NidAt(k + 1) = Special(k)
<1>1. \A i \in Nat \ {0} : IndexAt(i) \in Nat /\ (IndexAt(i) = 9 \/ IndexAt(i) > 64)
  BY Bounds DEF IndexAt
<1>2. \A i, j \in Nat \ {0} : IndexAt(i) = IndexAt(j) => i = j
  BY Bounds DEF IndexAt
<1>3. \A i \in Nat \ {0} : NidAt(i) \in Nat /\ NidAt(i) = 32 * IndexAt(i) + 2
  BY <1>1 DEF NidAt
<1>4. ASSUME NEW i \in Nat \ {0}, NEW j \in Nat \ {0}, NidAt(i) = NidAt(j) PROVE i = j
  <2>1. IndexAt(i) \in Nat /\ IndexAt(j) \in Nat /\ 32 * IndexAt(i) + 2 = 32 * IndexAt(j) + 2
    BY <1>1, <1>3, <1>4
  <2>2. IndexAt(i) = IndexAt(j)
    BY <2>1
  <2> QED
    BY <1>2, <2>2
<1>5. NidAt(1) = RootFolder
  BY DEF NidAt, IndexAt, RootFolder
<1>6. ASSUME NEW k \in Nat \ {0} PROVE NidAt(k + 1) = Special(k)
  BY Bounds DEF NidAt, IndexAt, Special, makeNid, NormalFolder
<1> QED
  BY <1>1, <1>2, <1>3, <1>4, <1>5, <1>6

\* An identifier is an index and a type, which is smaller than 32.
LEMMA Split ==
  ASSUME NEW i \in Nat, NEW t \in 0 .. 31
  PROVE  (32 * i + t) % 32 = t /\ (32 * i + t) \div 32 = i
<1> DEFINE n == 32 * i + t
<1>1. n \in Nat
  OBVIOUS
<1>2. n = 32 * (n \div 32) + (n % 32) /\ n % 32 \in 0 .. 31 /\ n \div 32 \in Nat
  BY <1>1, DivMod
<1> DEFINE q == n \div 32
           r == n % 32
<1>3. q \in Nat /\ r \in 0 .. 31 /\ 32 * i + t = 32 * q + r
  BY <1>2
<1> HIDE DEF q, r
<1>4. q = i /\ r = t
  BY <1>3
<1> QED
  BY <1>4 DEF q, r

----------------------------------------------------------------------------
(* The folder tree.                                                        *)

\* A sequence with an element appended.
LEMMA Appended ==
  ASSUME NEW S, NEW s \in Seq(S), NEW e \in S
  PROVE  /\ Append(s, e) \in Seq(S) /\ Len(Append(s, e)) = Len(s) + 1 /\ Len(s) \in Nat
         /\ DOMAIN Append(s, e) = 1 .. (Len(s) + 1) /\ DOMAIN s = 1 .. Len(s)
         /\ \A i \in DOMAIN s : Append(s, e)[i] = s[i]
         /\ Append(s, e)[Len(s) + 1] = e
  OBVIOUS

\* The folder a call of makeFolder() adds, and what it does to the others.
LEMMA Made ==
  ASSUME NEW fs, Tree(fs), NEW p \in DOMAIN fs, NEW gs,
         gs = makeFolder(fs, NidAt(Len(fs) + 1), NidAt(p))
  PROVE  /\ gs \in Seq(FolderRecords) /\ Len(gs) = Len(fs) + 1 /\ Len(fs) \in Nat
         /\ DOMAIN gs = 1 .. (Len(fs) + 1) /\ DOMAIN fs = 1 .. Len(fs)
         /\ \A i \in DOMAIN fs : i # p => gs[i] = fs[i]
         /\ gs[p] = [fs[p] EXCEPT !.children = Append(fs[p].children, NidAt(Len(fs) + 1))]
         /\ gs[Len(fs) + 1] = Folder(NidAt(Len(fs) + 1), NidAt(p))
<1> DEFINE n == Len(fs) + 1
           told(i) == IF fs[i].nid = NidAt(p)
                      THEN [fs[i] EXCEPT !.children = Append(@, NidAt(n))] ELSE fs[i]
           hs == [i \in DOMAIN fs |-> told(i)]
           new == Folder(NidAt(n), NidAt(p))
<1>1. fs \in Seq(FolderRecords) /\ Len(fs) \in Nat /\ DOMAIN fs = 1 .. Len(fs)
  BY DEF Tree
<1>2. n \in Nat \ {0} /\ p \in Nat \ {0} /\ NidAt(n) \in Nat /\ NidAt(p) \in Nat
  <2>1. n \in Nat \ {0} /\ p \in Nat \ {0}
    BY <1>1
  <2> QED
    BY <2>1, Nids, Zenon
<1>3. ASSUME NEW i \in DOMAIN fs PROVE fs[i] \in FolderRecords /\ i \in Nat \ {0}
  BY <1>1
<1>4. ASSUME NEW i \in DOMAIN fs PROVE fs[i].nid = NidAt(p) <=> i = p
  <2>1. fs[i].nid = NidAt(i) /\ i \in Nat \ {0}
    BY <1>3 DEF Tree
  <2> QED
    BY <1>2, <2>1, Nids, Zenon
<1>5. ASSUME NEW i \in DOMAIN fs PROVE told(i) \in FolderRecords
  <2>1. fs[i] \in FolderRecords
    BY <1>3
  <2>2. fs[i].children \in Seq(Nat)
    BY <2>1 DEF FolderRecords
  <2>3. Append(fs[i].children, NidAt(n)) \in Seq(Nat)
    BY <1>2, <2>2
  <2> QED
    BY <2>1, <2>3 DEF FolderRecords
<1>6. hs \in Seq(FolderRecords) /\ Len(hs) = Len(fs) /\ DOMAIN hs = DOMAIN fs
  <2> HIDE DEF told
  <2>1. hs \in [1 .. Len(fs) -> FolderRecords]
    BY <1>1, <1>5
  <2> QED
    BY <1>1, <2>1
<1>7. new \in FolderRecords
  <2>1. <<>> \in Seq(Nat) /\ 0 \in Nat /\ FALSE \in BOOLEAN
    OBVIOUS
  <2> QED
    BY <1>2, <2>1, Zenon DEF Folder, FolderRecords
<1>8. gs = Append(hs, new)
  BY DEF makeFolder
<1>9. \A i \in DOMAIN fs : hs[i] = told(i)
  OBVIOUS
<1> HIDE DEF hs, new
<1>10. /\ gs \in Seq(FolderRecords) /\ Len(gs) = Len(hs) + 1 /\ DOMAIN gs = 1 .. (Len(hs) + 1)
       /\ \A i \in DOMAIN hs : gs[i] = hs[i]
       /\ gs[Len(hs) + 1] = new
  BY <1>6, <1>7, <1>8, Appended
<1>11. \A i \in DOMAIN fs : i # p => gs[i] = fs[i]
  BY <1>4, <1>6, <1>9, <1>10
<1>12. gs[p] = [fs[p] EXCEPT !.children = Append(fs[p].children, NidAt(n))]
  BY <1>4, <1>6, <1>9, <1>10
<1> QED
  BY <1>1, <1>6, <1>10, <1>11, <1>12 DEF new

\* A folder without messages.
Unused(f) == f.rows = <<>> /\ f.open = FALSE /\ f.count = 0 /\ f.unread = 0

\* The messages of two folders are the same.
SameMessages(f, g) ==
  f.rows = g.rows /\ f.open = g.open /\ f.count = g.count /\ f.unread = g.unread

\* The fields of the folders after a call of makeFolder().
LEMMA MadeFields ==
  ASSUME NEW fs, Tree(fs), NEW p \in DOMAIN fs, NEW gs,
         gs = makeFolder(fs, NidAt(Len(fs) + 1), NidAt(p))
  PROVE  /\ \A i \in DOMAIN fs : gs[i].nid = fs[i].nid /\ gs[i].parent = fs[i].parent
         /\ gs[Len(fs) + 1].nid = NidAt(Len(fs) + 1) /\ gs[Len(fs) + 1].parent = NidAt(p)
         /\ \A i \in DOMAIN fs : i # p => gs[i].children = fs[i].children
         /\ gs[p].children = Append(fs[p].children, NidAt(Len(fs) + 1))
         /\ gs[Len(fs) + 1].children = <<>>
         /\ \A i \in DOMAIN fs : SameMessages(gs[i], fs[i])
         /\ Unused(gs[Len(fs) + 1])
<1>1. fs \in Seq(FolderRecords) /\ fs[p] \in FolderRecords
  BY DEF Tree
<1>2. /\ \A i \in DOMAIN fs : i # p => gs[i] = fs[i]
      /\ gs[p] = [fs[p] EXCEPT !.children = Append(fs[p].children, NidAt(Len(fs) + 1))]
      /\ gs[Len(fs) + 1] = Folder(NidAt(Len(fs) + 1), NidAt(p))
  BY Made
<1>3. /\ gs[p].nid = fs[p].nid /\ gs[p].parent = fs[p].parent
      /\ gs[p].children = Append(fs[p].children, NidAt(Len(fs) + 1))
      /\ SameMessages(gs[p], fs[p])
  BY <1>1, <1>2 DEF FolderRecords, SameMessages
<1>4. /\ gs[Len(fs) + 1].nid = NidAt(Len(fs) + 1) /\ gs[Len(fs) + 1].parent = NidAt(p)
      /\ gs[Len(fs) + 1].children = <<>> /\ Unused(gs[Len(fs) + 1])
  BY <1>2 DEF Folder, Unused
<1>5. \A i \in DOMAIN fs : SameMessages(gs[i], fs[i])
  BY <1>2, <1>3 DEF SameMessages
<1> QED
  BY <1>2, <1>3, <1>4, <1>5

\* makeFolder() keeps the folders a tree.
LEMMA MadeTree ==
  ASSUME NEW fs, Tree(fs), NEW p \in DOMAIN fs, NEW gs,
         gs = makeFolder(fs, NidAt(Len(fs) + 1), NidAt(p))
  PROVE  Tree(gs)
<1>1. /\ gs \in Seq(FolderRecords) /\ Len(gs) = Len(fs) + 1 /\ Len(fs) \in Nat
      /\ DOMAIN gs = 1 .. (Len(fs) + 1) /\ DOMAIN fs = 1 .. Len(fs) /\ Len(fs) >= 1
  BY Made DEF Tree
<1>2. /\ \A i \in DOMAIN fs : gs[i].nid = fs[i].nid /\ gs[i].parent = fs[i].parent
      /\ gs[Len(fs) + 1].nid = NidAt(Len(fs) + 1) /\ gs[Len(fs) + 1].parent = NidAt(p)
  BY MadeFields
<1>3. ASSUME NEW i \in DOMAIN gs PROVE i \in DOMAIN fs \/ i = Len(fs) + 1
  BY <1>1
<1>4. \A i \in DOMAIN gs : gs[i].nid = NidAt(i)
  BY <1>2, <1>3 DEF Tree
<1>5. gs[1].parent = NidAt(1)
  BY <1>1, <1>2 DEF Tree
<1>6. ASSUME NEW i \in DOMAIN gs, i > 1
      PROVE  \E q \in DOMAIN gs : q < i /\ gs[i].parent = NidAt(q)
  <2>1. CASE i \in DOMAIN fs
    <3>1. PICK q \in DOMAIN fs : q < i /\ fs[i].parent = NidAt(q)
      BY <1>6, <2>1 DEF Tree
    <3>2. q \in DOMAIN gs
      BY <1>1
    <3> QED
      BY <1>2, <2>1, <3>1, <3>2
  <2>2. CASE i = Len(fs) + 1
    <3>1. p \in DOMAIN gs /\ p < i
      BY <1>1, <2>2
    <3> QED
      BY <1>2, <2>2, <3>1
  <2> QED
    BY <1>3, <2>1, <2>2
<1>7. Len(gs) >= 1
  BY <1>1
<1> QED
  BY <1>1, <1>4, <1>5, <1>6, <1>7 DEF Tree

\* A parent before its child is not the child.
LEMMA ParentBefore ==
  ASSUME NEW fs, Tree(fs), NEW i \in DOMAIN fs, NEW q \in Nat \ {0}, fs[i].parent = NidAt(q)
  PROVE  q \in DOMAIN fs
<1>1. DOMAIN fs \subseteq Nat \ {0} /\ 1 \in DOMAIN fs /\ (i = 1 \/ i > 1)
  BY DEF Tree
<1>2. PICK r \in DOMAIN fs : fs[i].parent = NidAt(r)
  BY <1>1 DEF Tree
<1> QED
  BY <1>1, <1>2, Nids

\* makeFolder() keeps the listings those of the parents.
LEMMA MadeListed ==
  ASSUME NEW fs, Tree(fs), Listed(fs), NEW p \in DOMAIN fs, NEW gs,
         gs = makeFolder(fs, NidAt(Len(fs) + 1), NidAt(p))
  PROVE  Listed(gs)
<1> DEFINE n == Len(fs) + 1
<1>1. /\ gs \in Seq(FolderRecords) /\ Len(gs) = n /\ Len(fs) \in Nat
      /\ DOMAIN gs = 1 .. n /\ DOMAIN fs = 1 .. Len(fs)
      /\ fs \in Seq(FolderRecords) /\ Len(fs) >= 1
  BY Made DEF Tree
<1>2. /\ \A i \in DOMAIN fs : gs[i].nid = fs[i].nid /\ gs[i].parent = fs[i].parent
      /\ gs[n].parent = NidAt(p)
      /\ \A i \in DOMAIN fs : i # p => gs[i].children = fs[i].children
      /\ gs[p].children = Append(fs[p].children, NidAt(n)) /\ gs[n].children = <<>>
  BY MadeFields
<1>3. ASSUME NEW i \in DOMAIN gs PROVE i \in DOMAIN fs \/ i = n
  BY <1>1
<1>4. /\ DOMAIN fs \subseteq DOMAIN gs /\ n \in DOMAIN gs /\ n \notin DOMAIN fs /\ n \in Nat \ {0}
      /\ DOMAIN fs \subseteq Nat \ {0} /\ n > 1
  BY <1>1
<1>5. \A i \in DOMAIN fs : fs[i].children \in Seq(Nat)
  <2>1. \A i \in DOMAIN fs : fs[i] \in FolderRecords
    BY <1>1
  <2> QED
    BY <2>1 DEF FolderRecords
<1>6. NidAt(n) \in Nat
  BY <1>4, Nids, Zenon
<1> DEFINE m == Len(fs[p].children)
<1>7. /\ m \in Nat /\ DOMAIN fs[p].children = 1 .. m
      /\ Len(gs[p].children) = m + 1 /\ DOMAIN gs[p].children = 1 .. (m + 1)
      /\ \A k \in 1 .. m : gs[p].children[k] = fs[p].children[k]
      /\ gs[p].children[m + 1] = NidAt(n)
  BY <1>2, <1>5, <1>6, Appended
<1>8. Len(gs[n].children) = 0 /\ DOMAIN gs[n].children = {}
  BY <1>2
<1> HIDE DEF n, m
<1>9. ASSUME NEW i \in DOMAIN gs PROVE Len(gs[i].children) < Len(gs)
  <2>1. \A j \in DOMAIN fs : Len(fs[j].children) < Len(fs) /\ Len(fs[j].children) \in Nat
    BY <1>5 DEF Listed
  <2>2. CASE i = n
    BY <1>1, <1>4, <1>8, <2>2
  <2>3. CASE i = p
    BY <1>1, <1>7, <2>1, <2>3 DEF m, n
  <2>4. CASE i \in DOMAIN fs /\ i # p
    BY <1>1, <1>2, <2>1, <2>4 DEF n
  <2> QED
    BY <1>3, <2>2, <2>3, <2>4
<1>10. ASSUME NEW k \in 1 .. m PROVE fs[p].children[k] # NidAt(n)
  <2>1. PICK j \in DOMAIN fs : fs[p].children[k] = NidAt(j)
    BY <1>7 DEF Listed
  <2> QED
    BY <1>4, <2>1, Nids
<1>11. ASSUME NEW i \in DOMAIN gs, NEW k \in DOMAIN gs[i].children
       PROVE  \E j \in DOMAIN gs : /\ j > 1 /\ gs[i].children[k] = NidAt(j)
                                   /\ gs[j].parent = NidAt(i)
  <2>1. CASE i \in DOMAIN fs /\ k \in DOMAIN fs[i].children /\ gs[i].children[k] = fs[i].children[k]
    <3>1. PICK j \in DOMAIN fs : j > 1 /\ fs[i].children[k] = NidAt(j) /\ fs[j].parent = NidAt(i)
      BY <2>1 DEF Listed
    <3> QED
      BY <1>2, <1>4, <2>1, <3>1
  <2>2. CASE i = p /\ k = m + 1
    BY <1>2, <1>4, <1>7, <2>2
  <2>3. CASE i = p /\ k \in 1 .. m
    BY <1>7, <2>1, <2>3
  <2>4. CASE i \in DOMAIN fs /\ i # p
    BY <1>2, <2>1, <2>4
  <2>5. i = p => (k = m + 1 \/ k \in 1 .. m)
    BY <1>7
  <2>6. i # n
    BY <1>8
  <2> QED
    BY <1>3, <2>2, <2>3, <2>4, <2>5, <2>6
<1>12. ASSUME NEW i \in DOMAIN gs, NEW k \in DOMAIN gs[i].children, NEW l \in DOMAIN gs[i].children,
              gs[i].children[k] = gs[i].children[l]
       PROVE  k = l
  <2>1. CASE i \in DOMAIN fs /\ i # p
    BY <1>2, <1>12, <2>1 DEF Listed
  <2>2. CASE i = p
    <3>1. (k = m + 1 \/ k \in 1 .. m) /\ (l = m + 1 \/ l \in 1 .. m)
      BY <1>7, <2>2
    <3>2. CASE k \in 1 .. m /\ l \in 1 .. m
      BY <1>7, <1>12, <2>2, <3>2 DEF Listed
    <3>3. CASE k = m + 1
      BY <1>7, <1>10, <1>12, <2>2, <3>1, <3>3
    <3>4. CASE l = m + 1
      BY <1>7, <1>10, <1>12, <2>2, <3>1, <3>4
    <3> QED
      BY <3>1, <3>2, <3>3, <3>4
  <2>3. i # n
    BY <1>8
  <2> QED
    BY <1>3, <2>1, <2>2, <2>3
<1>13. ASSUME NEW i \in DOMAIN gs, NEW j \in DOMAIN gs, j > 1, gs[j].parent = NidAt(i)
       PROVE  \E k \in DOMAIN gs[i].children : gs[i].children[k] = NidAt(j)
  <2>1. CASE j = n
    <3>1. i = p
      BY <1>2, <1>3, <1>4, <1>13, <2>1, Nids
    <3>2. m + 1 \in DOMAIN gs[p].children
      BY <1>7
    <3> QED
      BY <1>7, <2>1, <3>1, <3>2
  <2>2. CASE j \in DOMAIN fs
    <3>1. i \in Nat \ {0} /\ fs[j].parent = NidAt(i)
      BY <1>2, <1>3, <1>4, <1>13, <2>2
    <3>2. i \in DOMAIN fs
      BY <2>2, <3>1, ParentBefore
    <3>3. PICK k \in DOMAIN fs[i].children : fs[i].children[k] = NidAt(j)
      BY <1>13, <2>2, <3>1, <3>2 DEF Listed
    <3>4. CASE i = p
      <4>1. k \in 1 .. m /\ k \in DOMAIN gs[i].children
        BY <1>7, <3>3, <3>4
      <4> QED
        BY <1>7, <3>3, <3>4, <4>1
    <3>5. CASE i # p
      BY <1>2, <3>2, <3>3, <3>5
    <3> QED
      BY <3>4, <3>5
  <2> QED
    BY <1>3, <2>1, <2>2
<1> QED
  BY <1>9, <1>11, <1>12, <1>13 DEF Listed

Growing(fs, n) ==
  Tree(fs) /\ Listed(fs) /\ Len(fs) = n /\ \A i \in DOMAIN fs : Unused(fs[i])

\* A call of makeFolder() in a tree that holds no messages yet.
LEMMA Grow ==
  ASSUME NEW fs, NEW n \in Nat, Growing(fs, n), NEW p \in 1 .. n
  PROVE  Growing(makeFolder(fs, Special(n), NidAt(p)), n + 1)
<1> DEFINE gs == makeFolder(fs, Special(n), NidAt(p))
<1>1. /\ Tree(fs) /\ Listed(fs) /\ Len(fs) = n /\ p \in DOMAIN fs /\ n \in Nat \ {0}
      /\ \A i \in DOMAIN fs : Unused(fs[i])
  BY DEF Growing, Tree
<1>2. gs = makeFolder(fs, NidAt(Len(fs) + 1), NidAt(p))
  <2>1. NidAt(n + 1) = Special(n)
    BY <1>1, Nids
  <2> QED
    BY <1>1, <2>1
<1> HIDE DEF gs
<1>3. Tree(gs) /\ Listed(gs)
  BY <1>1, <1>2, MadeTree, MadeListed
<1>4. Len(gs) = n + 1 /\ DOMAIN gs = 1 .. (n + 1) /\ DOMAIN fs = 1 .. n
  BY <1>1, <1>2, Made
<1>5. (\A i \in DOMAIN fs : SameMessages(gs[i], fs[i])) /\ Unused(gs[n + 1])
  BY <1>1, <1>2, MadeFields
<1>6. ASSUME NEW i \in DOMAIN gs PROVE Unused(gs[i])
  <2>1. i \in DOMAIN fs \/ i = n + 1
    BY <1>4
  <2> QED
    BY <1>1, <1>5, <2>1 DEF Unused, SameMessages
<1> QED
  BY <1>3, <1>4, <1>6 DEF Growing, gs

\* init() builds a tree of eight folders.
LEMMA Initial == Growing(InitialFolders, 8)
<1> DEFINE root    == <<Folder(RootFolder, RootFolder)>>
           subtree == makeFolder(root, IpmSubtree, RootFolder)
           deleted == makeFolder(subtree, Special(2), IpmSubtree)
           sent    == makeFolder(deleted, Special(3), IpmSubtree)
           outbox  == makeFolder(sent, Special(4), IpmSubtree)
           search  == makeFolder(outbox, Special(5), RootFolder)
           views   == makeFolder(search, Special(6), RootFolder)
           common  == makeFolder(views, Special(7), RootFolder)
<1>0. RootFolder = NidAt(1) /\ IpmSubtree = Special(1) /\ IpmSubtree = NidAt(2)
  <2>1. NidAt(1 + 1) = Special(1)
    BY Nids
  <2> QED
    BY <2>1, Nids DEF IpmSubtree
<1>1. Growing(root, 1)
  <2>1. NidAt(1) \in Nat
    BY Nids
  <2>2. <<>> \in Seq(Nat) /\ 0 \in Nat /\ FALSE \in BOOLEAN
    OBVIOUS
  <2>3. Folder(RootFolder, RootFolder) \in FolderRecords
    BY <1>0, <2>1, <2>2, Zenon DEF Folder, FolderRecords
  <2> DEFINE f == Folder(RootFolder, RootFolder)
  <2>4. f.nid = NidAt(1) /\ f.parent = NidAt(1) /\ f.children = <<>> /\ Unused(f)
    BY <1>0 DEF Folder, Unused
  <2> HIDE DEF f
  <2>5. root \in Seq(FolderRecords) /\ Len(root) = 1 /\ root[1] = f /\ DOMAIN root = {1}
    BY <2>3 DEF f
  <2> HIDE DEF root
  <2>6. Tree(root)
    BY <2>4, <2>5 DEF Tree
  <2>7. Len(root[1].children) = 0 /\ DOMAIN root[1].children = {}
    BY <2>4, <2>5
  <2>8. Listed(root)
    BY <2>5, <2>7 DEF Listed
  <2> QED
    BY <2>4, <2>5, <2>6, <2>8 DEF Growing
<1> HIDE DEF root
<1>2. Growing(subtree, 2)
  <2>1. Growing(makeFolder(root, Special(1), NidAt(1)), 1 + 1)
    BY <1>1, Grow
  <2> QED
    BY <1>0, <2>1
<1> HIDE DEF subtree
<1>3. Growing(deleted, 3)
  <2>1. Growing(makeFolder(subtree, Special(2), NidAt(2)), 2 + 1)
    BY <1>2, Grow
  <2> QED
    BY <1>0, <2>1
<1> HIDE DEF deleted
<1>4. Growing(sent, 4)
  <2>1. Growing(makeFolder(deleted, Special(3), NidAt(2)), 3 + 1)
    BY <1>3, Grow
  <2> QED
    BY <1>0, <2>1
<1> HIDE DEF sent
<1>5. Growing(outbox, 5)
  <2>1. Growing(makeFolder(sent, Special(4), NidAt(2)), 4 + 1)
    BY <1>4, Grow
  <2> QED
    BY <1>0, <2>1
<1> HIDE DEF outbox
<1>6. Growing(search, 6)
  <2>1. Growing(makeFolder(outbox, Special(5), NidAt(1)), 5 + 1)
    BY <1>5, Grow
  <2> QED
    BY <1>0, <2>1
<1> HIDE DEF search
<1>7. Growing(views, 7)
  <2>1. Growing(makeFolder(search, Special(6), NidAt(1)), 6 + 1)
    BY <1>6, Grow
  <2> QED
    BY <1>0, <2>1
<1> HIDE DEF views
<1>8. Growing(common, 8)
  <2>1. Growing(makeFolder(views, Special(7), NidAt(1)), 7 + 1)
    BY <1>7, Grow
  <2> QED
    BY <1>0, <2>1
<1> HIDE DEF common
<1>9. InitialFolders = common
  BY DEF InitialFolders, root, subtree, deleted, sent, outbox, search, views, common
<1> QED
  BY <1>8, <1>9

\* A change of the messages of a folder leaves the tree as it is.
LEMMA SameTree ==
  ASSUME NEW fs, NEW gs, Tree(fs), Listed(fs), gs \in Seq(FolderRecords), Len(gs) = Len(fs),
         \A i \in DOMAIN fs : /\ gs[i].nid = fs[i].nid /\ gs[i].parent = fs[i].parent
                              /\ gs[i].children = fs[i].children
  PROVE  Tree(gs) /\ Listed(gs)
<1>1. DOMAIN gs = DOMAIN fs /\ 1 \in DOMAIN fs /\ Len(gs) >= 1
  BY DEF Tree
<1>2. Tree(gs)
  BY <1>1 DEF Tree
<1>3. \A i \in DOMAIN gs : Len(gs[i].children) < Len(gs)
  BY <1>1 DEF Listed
<1>4. ASSUME NEW i \in DOMAIN gs, NEW k \in DOMAIN gs[i].children
      PROVE  \E j \in DOMAIN gs : /\ j > 1 /\ gs[i].children[k] = NidAt(j)
                                  /\ gs[j].parent = NidAt(i)
  <2>1. i \in DOMAIN fs /\ k \in DOMAIN fs[i].children
    BY <1>1
  <2>2. PICK j \in DOMAIN fs : j > 1 /\ fs[i].children[k] = NidAt(j) /\ fs[j].parent = NidAt(i)
    BY <2>1 DEF Listed
  <2> QED
    BY <1>1, <2>1, <2>2
<1>5. \A i \in DOMAIN gs : \A k, l \in DOMAIN gs[i].children :
        gs[i].children[k] = gs[i].children[l] => k = l
  BY <1>1, Zenon DEF Listed
<1>6. ASSUME NEW i \in DOMAIN gs, NEW j \in DOMAIN gs, j > 1, gs[j].parent = NidAt(i)
      PROVE  \E k \in DOMAIN gs[i].children : gs[i].children[k] = NidAt(j)
  <2>1. fs[j].parent = NidAt(i)
    BY <1>1, <1>6
  <2>2. \E k \in DOMAIN fs[i].children : fs[i].children[k] = NidAt(j)
    <3>1. i \in DOMAIN fs /\ j \in DOMAIN fs
      BY <1>1
    <3> QED
      BY <1>6, <2>1, <3>1 DEF Listed
  <2> QED
    BY <1>1, <2>2
<1>7. Listed(gs)
  BY <1>3, <1>4, <1>5, <1>6 DEF Listed
<1> QED
  BY <1>2, <1>7

----------------------------------------------------------------------------
(* What the steps do to the folders.                                       *)

Opened(f) == [f EXCEPT !.open = TRUE]
Dropped(f) == [f EXCEPT !.open = FALSE]
Counted(f, nid, unread) ==
  [f EXCEPT !.open = FALSE, !.rows = Append(f.rows, nid), !.count = f.count + 1,
            !.unread = IF unread THEN f.unread + 1 ELSE f.unread]

\* The folders a message's row passes through are folders.
LEMMA RowTypes ==
  ASSUME NEW f \in FolderRecords, NEW nid \in Nat, NEW unread \in BOOLEAN
  PROVE  /\ Opened(f) \in FolderRecords /\ Dropped(f) \in FolderRecords
         /\ Counted(f, nid, unread) \in FolderRecords
<1>1. /\ f.count + 1 \in Nat /\ (IF unread THEN f.unread + 1 ELSE f.unread) \in Nat
      /\ Append(f.rows, nid) \in Seq(Nat)
  <2>1. f.count \in Nat /\ f.unread \in Nat /\ f.rows \in Seq(Nat)
    BY DEF FolderRecords
  <2> QED
    BY <2>1
<1>2. TRUE \in BOOLEAN /\ FALSE \in BOOLEAN
  OBVIOUS
<1>3. Opened(f) \in FolderRecords /\ Dropped(f) \in FolderRecords
  BY <1>2 DEF Opened, Dropped, FolderRecords
<1>4. Counted(f, nid, unread) \in FolderRecords
  <2> DEFINE u == IF unread THEN f.unread + 1 ELSE f.unread
             rs == Append(f.rows, nid)
             c == f.count + 1
  <2>1. u \in Nat /\ rs \in Seq(Nat) /\ c \in Nat
    BY <1>1
  <2>2. Counted(f, nid, unread) = [f EXCEPT !.open = FALSE, !.rows = rs, !.count = c, !.unread = u]
    BY DEF Counted
  <2> HIDE DEF u, rs, c
  <2> QED
    BY <1>2, <2>1, <2>2 DEF FolderRecords
<1> QED
  BY <1>3, <1>4

\* The folder of the message that is being added.
LEMMA Target ==
  ASSUME IInv, adding.step # "none"
  PROVE  /\ adding.folder \in DOMAIN folders /\ folders[adding.folder] \in FolderRecords
         /\ adding.nid \in Nat /\ adding.shape \in Shapes /\ adding.shape.unread \in BOOLEAN
         /\ stage = 0 /\ adding \in [step : {"build", "row", "cells", "end"},
                                     folder : DOMAIN folders, nid : Nat, shape : Shapes]
<1>1. adding \in [step : {"build", "row", "cells", "end"}, folder : DOMAIN folders, nid : Nat,
                  shape : Shapes] /\ stage = 0
  BY DEF IInv, StagesInv
<1>2. adding.folder \in DOMAIN folders /\ adding.nid \in Nat /\ adding.shape \in Shapes
  BY <1>1
<1>3. folders \in Seq(FolderRecords)
  BY DEF IInv, FoldersInv, Tree
<1>4. folders[adding.folder] \in FolderRecords
  BY <1>2, <1>3
<1>5. adding.shape.unread \in BOOLEAN
  BY <1>2, WriterAssumption
<1> QED
  BY <1>1, <1>2, <1>4, <1>5

\* Beginning a row, or being refused one.
LEMMA BegunRow ==
  ASSUME RowBegun
  PROVE  \/ folders[adding.folder].open /\ folders' = folders /\ adding' = Idle
         \/ /\ ~folders[adding.folder].open /\ adding' = [adding EXCEPT !.step = "cells"]
            /\ folders' = [folders EXCEPT ![adding.folder] = Opened(folders[adding.folder])]
  BY DEF RowBegun, GiveUp, Step, Opened

\* Ending a row, or failing to.
LEMMA EndedRow ==
  ASSUME RowEnded, IInv
  PROVE  /\ adding' = Idle
         /\ \/ /\ bad' = bad
               /\ folders' = [folders EXCEPT ![adding.folder] =
                                Counted(folders[adding.folder], adding.nid, adding.shape.unread)]
            \/ /\ bad' = TRUE
               /\ folders' = [folders EXCEPT ![adding.folder] = Dropped(folders[adding.folder])]
<1>1. adding.step # "none"
  BY DEF RowEnded
<1>2. adding.folder \in DOMAIN folders /\ folders[adding.folder] \in FolderRecords
  BY <1>1, Target
<1>3. CASE /\ folders' = [folders EXCEPT
                ![adding.folder].open = FALSE,
                ![adding.folder].rows = Append(@, adding.nid),
                ![adding.folder].count = @ + 1,
                ![adding.folder].unread = IF adding.shape.unread THEN @ + 1 ELSE @]
           /\ UNCHANGED bad
  <2>1. folders' = [folders EXCEPT ![adding.folder] =
                     Counted(folders[adding.folder], adding.nid, adding.shape.unread)]
    BY <1>2, <1>3 DEF Counted, FolderRecords
  <2> QED
    BY <1>3, <2>1 DEF RowEnded, GiveUp
<1>4. CASE folders' = [folders EXCEPT ![adding.folder].open = FALSE] /\ bad' = TRUE
  BY <1>4 DEF RowEnded, GiveUp, Dropped
<1> QED
  BY <1>3, <1>4 DEF RowEnded

\* createFolder() makes the next folder, below one that is there.
LEMMA Created ==
  ASSUME IInv, NEW parent \in {IpmSubtree} \cup CallerFolders, createFolder(parent)
  PROVE  \E p \in DOMAIN folders : folders' = makeFolder(folders, NidAt(Len(folders) + 1), NidAt(p))
<1>1. /\ Tree(folders) /\ Len(folders) >= 8 /\ nextFolder = FirstUserNidIndex + Len(folders) - 1
      /\ Len(folders) \in Nat /\ DOMAIN folders = 1 .. Len(folders)
  BY DEF IInv, FoldersInv, Tree
<1>2. folders' = makeFolder(folders, makeNid(NormalFolder, nextFolder), parent)
  BY DEF createFolder
<1>3. makeNid(NormalFolder, nextFolder) = NidAt(Len(folders) + 1)
  BY <1>1, Bounds DEF makeNid, NormalFolder, NidAt, IndexAt
<1>4. \E p \in DOMAIN folders : parent = NidAt(p)
  <2>1. CASE parent = IpmSubtree
    <3>1. NidAt(1 + 1) = IpmSubtree
      BY Nids DEF IpmSubtree
    <3>2. 2 \in DOMAIN folders
      BY <1>1
    <3> QED
      BY <2>1, <3>1, <3>2
  <2>2. CASE parent \in CallerFolders
    BY <1>1, <2>2 DEF CallerFolders, FolderNids, Tree
  <2> QED
    BY <2>1, <2>2
<1> QED
  BY <1>2, <1>3, <1>4

\* The folders stay a tree.
LEMMA FoldersStep == IInv /\ Next => FoldersInv'
<1> SUFFICES ASSUME IInv, Next PROVE FoldersInv'
  OBVIOUS
<1>1. /\ Tree(folders) /\ Listed(folders) /\ Len(folders) >= 8 /\ Len(folders) \in Nat
      /\ nextFolder = FirstUserNidIndex + Len(folders) - 1
  BY DEF IInv, FoldersInv, Tree
<1>2. ASSUME NEW parent \in {IpmSubtree} \cup CallerFolders, createFolder(parent)
      PROVE  FoldersInv'
  <2>1. PICK p \in DOMAIN folders : folders' = makeFolder(folders, NidAt(Len(folders) + 1), NidAt(p))
    BY <1>2, Created
  <2>2. Tree(folders') /\ Listed(folders') /\ Len(folders') = Len(folders) + 1
    BY <1>1, <2>1, MadeTree, MadeListed, Made
  <2>3. nextFolder' = nextFolder + 1
    BY <1>2 DEF createFolder
  <2>4. Len(folders') >= 8 /\ nextFolder' = FirstUserNidIndex + Len(folders') - 1
    BY <1>1, <2>2, <2>3, Bounds
  <2> QED
    BY <2>2, <2>4 DEF FoldersInv
<1>3. ASSUME UNCHANGED <<folders, nextFolder>> PROVE FoldersInv'
  BY <1>1, <1>3 DEF FoldersInv
<1>4. ASSUME NEW r \in FolderRecords, adding.step # "none", UNCHANGED nextFolder,
             folders' = [folders EXCEPT ![adding.folder] = r],
             r.nid = folders[adding.folder].nid, r.parent = folders[adding.folder].parent,
             r.children = folders[adding.folder].children
      PROVE  FoldersInv'
  <2>1. adding.folder \in DOMAIN folders
    BY <1>4, Target
  <2>2. folders' \in Seq(FolderRecords) /\ Len(folders') = Len(folders)
    BY <1>1, <1>4, <2>1 DEF Tree
  <2>3. \A i \in DOMAIN folders :
          /\ folders'[i].nid = folders[i].nid /\ folders'[i].parent = folders[i].parent
          /\ folders'[i].children = folders[i].children
    BY <1>4, <2>1
  <2>4. Tree(folders') /\ Listed(folders')
    BY <1>1, <2>2, <2>3, SameTree
  <2> QED
    BY <1>1, <1>4, <2>2, <2>4 DEF FoldersInv
<1>5. ASSUME RowBegun PROVE FoldersInv'
  <2> DEFINE f == folders[adding.folder]
  <2>1. adding.step # "none" /\ UNCHANGED nextFolder
    BY <1>5 DEF RowBegun
  <2>2. f \in FolderRecords /\ Opened(f) \in FolderRecords
    BY <2>1, Target, RowTypes
  <2>3. Opened(f).nid = f.nid /\ Opened(f).parent = f.parent /\ Opened(f).children = f.children
    BY <2>2 DEF Opened, FolderRecords
  <2>4. folders' = folders \/ folders' = [folders EXCEPT ![adding.folder] = Opened(f)]
    BY <1>5, BegunRow
  <2> QED
    BY <1>3, <1>4, <2>1, <2>2, <2>3, <2>4
<1>6. ASSUME RowEnded PROVE FoldersInv'
  <2> DEFINE f == folders[adding.folder]
             c == Counted(f, adding.nid, adding.shape.unread)
  <2>1. adding.step # "none" /\ UNCHANGED nextFolder
    BY <1>6 DEF RowEnded
  <2>2. f \in FolderRecords /\ Dropped(f) \in FolderRecords /\ c \in FolderRecords
    BY <2>1, Target, RowTypes
  <2>3. Dropped(f).nid = f.nid /\ Dropped(f).parent = f.parent /\ Dropped(f).children = f.children
    BY <2>2 DEF Dropped, FolderRecords
  <2>4. c.nid = f.nid /\ c.parent = f.parent /\ c.children = f.children
    BY <2>2 DEF Counted, FolderRecords
  <2>5. \/ folders' = [folders EXCEPT ![adding.folder] = c]
        \/ folders' = [folders EXCEPT ![adding.folder] = Dropped(f)]
    BY <1>6, EndedRow
  <2> HIDE DEF c
  <2> QED
    BY <1>4, <2>1, <2>2, <2>3, <2>4, <2>5
<1>7. ASSUME NEW f, NEW shape, addMessage(f, shape) PROVE FoldersInv'
  BY <1>3, <1>7 DEF addMessage
<1>8. ASSUME BuildRefused \/ NodeWritten \/ CellsSet \/ finish \/ writeFolder \/ writeFixedNodes
             \/ finishNdb
      PROVE  FoldersInv'
  BY <1>3, <1>8 DEF BuildRefused, NodeWritten, CellsSet, finish, writeFolder, writeFixedNodes,
                    finishNdb
<1> QED
  BY <1>2, <1>5, <1>6, <1>7, <1>8 DEF Next

\* The lists of folders before and after a step.
LEMMA FolderCounts ==
  ASSUME IInv, Next
  PROVE  /\ Len(folders) \in Nat /\ Len(folders') \in Nat
         /\ DOMAIN folders = 1 .. Len(folders) /\ DOMAIN folders' = 1 .. Len(folders')
         /\ Len(folders) >= 8 /\ Len(folders') >= 8
  BY FoldersStep DEF IInv, FoldersInv, Tree

\* Filing a row leaves the number of folders as it is, and one folder changes.
LEMMA RowKeeps ==
  ASSUME IInv, RowBegun \/ RowEnded
  PROVE  /\ DOMAIN folders' = DOMAIN folders /\ Len(folders') = Len(folders)
         /\ \A i \in DOMAIN folders : i # adding.folder => folders'[i] = folders[i]
<1>1. \/ folders' = folders
      \/ \E r : folders' = [folders EXCEPT ![adding.folder] = r]
  <2>1. CASE RowBegun
    BY <2>1, BegunRow
  <2>2. CASE RowEnded
    BY <2>2, EndedRow
  <2> QED
    BY <2>1, <2>2
<1>2. folders \in Seq(FolderRecords)
  BY DEF IInv, FoldersInv, Tree
<1> QED
  BY <1>1, <1>2

\* addMessage() and finish() keep to their stages.
LEMMA StagesStep == IInv /\ Next => StagesInv'
<1> SUFFICES ASSUME IInv, Next PROVE StagesInv'
  OBVIOUS
<1>0. /\ nextMessage \in Nat /\ nextMessage >= FirstUserNidIndex
      /\ stage \in 0 .. Broken /\ finished \in BOOLEAN /\ (finished <=> stage > 0)
      /\ bad \in BOOLEAN /\ (stage = Closed => ~bad)
      /\ adding.step \in {"none", "build", "row", "cells", "end"}
  BY DEF IInv, StagesInv
<1>1. /\ Len(folders) \in Nat /\ Len(folders') \in Nat
      /\ Closed = Len(folders) + 5 /\ Broken = Len(folders) + 6
      /\ Closed' = Len(folders') + 5 /\ Broken' = Len(folders') + 6
  BY FolderCounts DEF Closed, Broken
<1>2. Idle.step = "none"
  BY DEF Idle
<1>3. ASSUME NEW parent, createFolder(parent) PROVE StagesInv'
  <2>1. stage = 0 /\ adding.step = "none"
        /\ UNCHANGED <<nextMessage, adding, stage, finished, bad>>
    BY <1>3 DEF createFolder
  <2> QED
    BY <1>0, <1>1, <2>1 DEF StagesInv
<1>4. ASSUME NEW f \in DOMAIN folders, NEW shape \in Shapes, addMessage(f, shape) PROVE StagesInv'
  <2>1. /\ stage = 0 /\ UNCHANGED <<folders, stage, finished, bad>>
        /\ nextMessage' = nextMessage + 1
        /\ adding' = [step |-> "build", folder |-> f, nid |-> makeNid(NormalMessage, nextMessage),
                      shape |-> shape]
    BY <1>4 DEF addMessage
  <2>2. /\ makeNid(NormalMessage, nextMessage) = 32 * nextMessage + 4
        /\ makeNid(NormalMessage, nextMessage) \in Nat
    BY <1>0 DEF makeNid, NormalMessage
  <2>3. /\ adding' \in [step : {"build", "row", "cells", "end"}, folder : DOMAIN folders, nid : Nat,
                        shape : Shapes]
        /\ adding'.step = "build" /\ adding'.nid = 32 * nextMessage + 4
    BY <2>1, <2>2
  <2>4. nextMessage' \in Nat /\ nextMessage' > FirstUserNidIndex /\ nextMessage' - 1 = nextMessage
    BY <1>0, <2>1, Bounds
  <2> QED
    BY <1>0, <1>1, <2>1, <2>3, <2>4, Bounds DEF StagesInv
<1>5. ASSUME adding.step # "none", adding' = Idle,
             UNCHANGED <<nextMessage, stage, finished>>, bad' \in BOOLEAN
      PROVE  StagesInv'
  <2>1. stage = 0
    BY <1>5, Target
  <2> QED
    BY <1>0, <1>1, <1>2, <1>5, <2>1 DEF StagesInv
<1>6. ASSUME adding.step # "none", NEW s \in {"row", "cells", "end"},
             adding' = [adding EXCEPT !.step = s], DOMAIN folders' = DOMAIN folders,
             UNCHANGED <<nextMessage, stage, finished, bad>>,
             s # "row" => folders'[adding.folder].open
      PROVE  StagesInv'
  <2>1. /\ stage = 0 /\ adding \in [step : {"build", "row", "cells", "end"},
                                    folder : DOMAIN folders, nid : Nat, shape : Shapes]
    BY <1>6, Target
  <2>2. /\ adding' \in [step : {"build", "row", "cells", "end"}, folder : DOMAIN folders, nid : Nat,
                        shape : Shapes]
        /\ adding'.step = s /\ adding'.nid = adding.nid /\ adding'.folder = adding.folder
    BY <1>6, <2>1
  <2>3. nextMessage > FirstUserNidIndex /\ adding.nid = 32 * (nextMessage - 1) + 4
    BY <1>6 DEF IInv, StagesInv
  <2> QED
    BY <1>0, <1>1, <1>6, <2>1, <2>2, <2>3 DEF StagesInv
<1>7. ASSUME BuildRefused PROVE StagesInv'
  BY <1>0, <1>5, <1>7 DEF BuildRefused, GiveUp
<1>8. ASSUME NodeWritten PROVE StagesInv'
  BY <1>6, <1>8 DEF NodeWritten, Step
<1>9. ASSUME RowBegun PROVE StagesInv'
  <2>1. adding.step # "none" /\ UNCHANGED <<nextMessage, stage, finished, bad>>
    BY <1>9 DEF RowBegun
  <2>2. CASE adding' = Idle
    BY <1>0, <1>5, <2>1, <2>2
  <2>3. CASE /\ adding' = [adding EXCEPT !.step = "cells"]
             /\ folders' = [folders EXCEPT ![adding.folder] = Opened(folders[adding.folder])]
    <3>1. adding.folder \in DOMAIN folders /\ folders[adding.folder] \in FolderRecords
      BY <2>1, Target
    <3>2. folders'[adding.folder].open
      BY <2>3, <3>1 DEF Opened, FolderRecords
    <3>3. DOMAIN folders' = DOMAIN folders
      BY <2>3
    <3> QED
      BY <1>6, <2>1, <2>3, <3>2, <3>3
  <2> QED
    BY <1>9, <2>2, <2>3, BegunRow
<1>10. ASSUME CellsSet PROVE StagesInv'
  <2>1. /\ adding.step = "cells" /\ UNCHANGED <<folders, nextMessage, stage, finished>>
        /\ folders[adding.folder].open
    BY <1>10 DEF CellsSet, IInv, StagesInv
  <2>2. CASE Step("end") /\ UNCHANGED bad
    BY <1>6, <2>1, <2>2 DEF Step
  <2>3. CASE GiveUp /\ bad' \in BOOLEAN
    BY <1>5, <2>1, <2>3 DEF GiveUp
  <2> QED
    BY <1>0, <1>10, <2>2, <2>3 DEF CellsSet
<1>11. ASSUME RowEnded PROVE StagesInv'
  <2>1. adding.step # "none" /\ UNCHANGED <<nextMessage, stage, finished>>
    BY <1>11 DEF RowEnded
  <2>2. adding' = Idle /\ bad' \in BOOLEAN
    BY <1>0, <1>11, EndedRow
  <2> QED
    BY <1>5, <2>1, <2>2
<1>12. ASSUME adding.step = "none", UNCHANGED <<folders, nextMessage, adding>>,
              stage' \in 1 .. Broken, finished' = TRUE, bad' \in BOOLEAN, stage' = Closed => ~bad'
       PROVE  StagesInv'
  BY <1>0, <1>1, <1>12 DEF StagesInv
<1>13. ASSUME finish PROVE StagesInv'
  BY <1>0, <1>1, <1>12, <1>13, FolderCounts DEF finish
<1>14. stage > 0 => adding.step = "none" /\ finished = TRUE
  <2>1. stage > 0 => adding.step = "none"
    BY Target
  <2> QED
    BY <1>0, <2>1
<1>15. ASSUME writeFolder PROVE StagesInv'
  <2>1. stage \in 1 .. Len(folders) /\ UNCHANGED <<folders, nextMessage, adding, finished>>
    BY <1>15, FolderCounts DEF writeFolder
  <2>2. bad' \in BOOLEAN
    BY <1>0, <1>15, Zenon DEF writeFolder
  <2>3. stage' = stage + 1 \/ stage' = Broken
    BY <1>15, Zenon DEF writeFolder
  <2>4. stage > 0 /\ stage' \in 1 .. Broken /\ stage' # Closed
    BY <1>1, <2>1, <2>3
  <2>5. finished' = TRUE
    BY <1>14, <2>1, <2>4
  <2> QED
    BY <1>12, <1>14, <2>1, <2>2, <2>4, <2>5
<1>16. ASSUME writeFixedNodes PROVE StagesInv'
  <2>1. stage - Len(folders) \in 1 .. 3 /\ UNCHANGED <<folders, nextMessage, adding, finished>>
    BY <1>16 DEF writeFixedNodes
  <2>2. bad' \in BOOLEAN
    BY <1>0, <1>16, Zenon DEF writeFixedNodes
  <2>3. stage' = stage + 1 \/ stage' = Broken
    BY <1>16, Zenon DEF writeFixedNodes
  <2>4. stage > 0 /\ stage' \in 1 .. Broken /\ stage' # Closed
    BY <1>0, <1>1, <2>1, <2>3
  <2>5. finished' = TRUE
    BY <1>14, <2>1, <2>4
  <2> QED
    BY <1>12, <1>14, <2>1, <2>2, <2>4, <2>5
<1>17. ASSUME finishNdb PROVE StagesInv'
  <2>1. stage = Closed - 1 /\ UNCHANGED <<folders, nextMessage, adding, finished>>
    BY <1>17 DEF finishNdb
  <2>2. bad' \in BOOLEAN
    BY <1>0, <1>17, Zenon DEF finishNdb
  <2>3. (stage' = Closed /\ ~bad') \/ stage' = Broken
    BY <1>17, Zenon DEF finishNdb
  <2>4. stage > 0 /\ stage' \in 1 .. Broken /\ (stage' = Broken => stage' # Closed)
    BY <1>1, <2>1, <2>3
  <2>5. finished' = TRUE
    BY <1>14, <2>1, <2>4
  <2> QED
    BY <1>12, <1>14, <2>1, <2>2, <2>3, <2>4, <2>5
<1> QED
  BY <1>3, <1>4, <1>7, <1>8, <1>9, <1>10, <1>11, <1>13, <1>15, <1>16, <1>17 DEF Next

----------------------------------------------------------------------------
(* The nodes.                                                              *)

\* A sequence is a sequence of its own elements.
LEMMA OwnSet ==
  ASSUME NEW S, NEW u \in Seq(S)
  PROVE  u \in Seq(ToSet(u))
<1>1. u \in [1 .. Len(u) -> S] /\ Len(u) \in Nat
  OBVIOUS
<1>2. \A k \in 1 .. Len(u) : u[k] \in ToSet(u)
  BY <1>1 DEF ToSet
<1>3. u \in [1 .. Len(u) -> ToSet(u)]
  BY <1>1, <1>2
<1> QED
  BY <1>1, <1>3

\* The list u is s, then t.
Join(s, t, u) ==
  /\ u \in Seq(ToSet(u)) /\ Len(s) \in Nat /\ DOMAIN s = 1 .. Len(s)
  /\ \A k \in DOMAIN s : k \in DOMAIN u /\ u[k] = s[k]
  /\ \A l \in DOMAIN t : Len(s) + l \in DOMAIN u /\ u[Len(s) + l] = t[l]
  /\ \A k \in DOMAIN u : \/ k \in DOMAIN s
                         \/ \E l \in DOMAIN t : k = Len(s) + l

\* Two lists of nodes, one after the other.
LEMMA Joined ==
  ASSUME NEW s, NEW t, s \in Seq(ToSet(s)), t \in Seq(ToSet(t)), NEW u, u = s \o t
  PROVE  Join(s, t, u)
<1> DEFINE S == ToSet(s) \cup ToSet(t)
<1>1. ToSet(s) \subseteq S /\ ToSet(t) \subseteq S
  OBVIOUS
<1> HIDE DEF S
<1>2. s \in Seq(S) /\ t \in Seq(S)
  BY <1>1
<1>3. /\ u \in Seq(S) /\ Len(u) = Len(s) + Len(t) /\ Len(s) \in Nat /\ Len(t) \in Nat
      /\ DOMAIN u = 1 .. (Len(s) + Len(t)) /\ DOMAIN s = 1 .. Len(s) /\ DOMAIN t = 1 .. Len(t)
      /\ \A k \in 1 .. Len(s) : u[k] = s[k]
      /\ \A k \in (Len(s) + 1) .. (Len(s) + Len(t)) : u[k] = t[k - Len(s)]
  BY <1>2
<1>4. \A k \in DOMAIN s : k \in DOMAIN u /\ u[k] = s[k]
  BY <1>3
<1>5. ASSUME NEW l \in DOMAIN t PROVE Len(s) + l \in DOMAIN u /\ u[Len(s) + l] = t[l]
  <2>1. Len(s) + l \in (Len(s) + 1) .. (Len(s) + Len(t)) /\ (Len(s) + l) - Len(s) = l
    BY <1>3
  <2>2. Len(s) + l \in DOMAIN u
    BY <1>3
  <2> QED
    BY <1>3, <2>1, <2>2
<1>6. ASSUME NEW k \in DOMAIN u, k \notin DOMAIN s
      PROVE  \E l \in DOMAIN t : k = Len(s) + l
  <2>1. k - Len(s) \in DOMAIN t /\ k = Len(s) + (k - Len(s))
    BY <1>3, <1>6
  <2> QED
    BY <2>1
<1>7. u \in Seq(ToSet(u))
  BY <1>3, OwnSet
<1> QED
  BY <1>3, <1>4, <1>5, <1>6, <1>7 DEF Join

\* Their identifiers stay apart.
LEMMA JoinedDistinct ==
  ASSUME NEW s, NEW t, NEW u, Join(s, t, u), Distinct(s), Distinct(t),
         \A k \in DOMAIN s, l \in DOMAIN t : s[k].nid # t[l].nid
  PROVE  Distinct(u)
<1>1. /\ \A k \in DOMAIN s : k \in DOMAIN u /\ u[k] = s[k]
      /\ \A l \in DOMAIN t : Len(s) + l \in DOMAIN u /\ u[Len(s) + l] = t[l]
      /\ \A k \in DOMAIN u : \/ k \in DOMAIN s
                             \/ \E l \in DOMAIN t : k = Len(s) + l
  BY DEF Join
<1>2. ASSUME NEW i \in DOMAIN u, NEW j \in DOMAIN u, u[i].nid = u[j].nid PROVE i = j
  <2>1. CASE i \in DOMAIN s /\ j \in DOMAIN s
    BY <1>1, <1>2, <2>1 DEF Distinct
  <2>2. CASE i \in DOMAIN s /\ j \notin DOMAIN s
    <3>1. PICK l \in DOMAIN t : j = Len(s) + l
      BY <1>1, <2>2
    <3> QED
      BY <1>1, <1>2, <2>2, <3>1
  <2>3. CASE i \notin DOMAIN s /\ j \in DOMAIN s
    <3>1. PICK l \in DOMAIN t : i = Len(s) + l
      BY <1>1, <2>3
    <3> QED
      BY <1>1, <1>2, <2>3, <3>1
  <2>4. CASE i \notin DOMAIN s /\ j \notin DOMAIN s
    <3>1. PICK l \in DOMAIN t : i = Len(s) + l
      BY <1>1, <2>4
    <3>2. PICK m \in DOMAIN t : j = Len(s) + m
      BY <1>1, <2>4
    <3>3. t[l].nid = t[m].nid
      BY <1>1, <1>2, <3>1, <3>2
    <3> QED
      BY <3>1, <3>2, <3>3 DEF Distinct
  <2> QED
    BY <2>1, <2>2, <2>3, <2>4
<1> QED
  BY <1>2 DEF Distinct

\* The type of each of a folder's nodes.
TypeOf(n) == IF n = 1 THEN 2 ELSE 11 + n

\* A folder's nodes have its index and a type of their own.
LEMMA FolderNids4 ==
  ASSUME Tree(folders), NEW j \in DOMAIN folders
  PROVE  /\ NodesOf(j) \in Seq(ToSet(NodesOf(j))) /\ DOMAIN NodesOf(j) = 1 .. 4
         /\ \A n \in 1 .. 4 : NodesOf(j)[n].nid = 32 * IndexAt(j) + TypeOf(n)
         /\ IndexAt(j) \in Nat /\ (IndexAt(j) = 9 \/ IndexAt(j) > 64)
<1>1. j \in Nat \ {0} /\ folders[j].nid = NidAt(j)
  BY DEF Tree
<1>2. IndexAt(j) \in Nat /\ (IndexAt(j) = 9 \/ IndexAt(j) > 64) /\ NidAt(j) = 32 * IndexAt(j) + 2
  BY <1>1, Nids
<1>3. nidIndex(folders[j].nid) = IndexAt(j)
  BY <1>1, <1>2, Split DEF nidIndex
<1> DEFINE a == Node(folders[j].nid, folders[j].parent, NoSubs, Summary(folders[j]))
           b == Node(makeNid(HierarchyTable, IndexAt(j)), folders[j].nid, NoSubs,
                     ChildSummaries(folders[j]))
           c == Node(makeNid(ContentsTable, IndexAt(j)), folders[j].nid, NoSubs, folders[j].rows)
           d == Node(makeNid(AssocContentsTable, IndexAt(j)), folders[j].nid, NoSubs, {})
<1>4. NodesOf(j) = <<a, b, c, d>>
  BY <1>3 DEF NodesOf, folderNodes
<1>5. /\ a.nid = 32 * IndexAt(j) + 2 /\ b.nid = 32 * IndexAt(j) + 13
      /\ c.nid = 32 * IndexAt(j) + 14 /\ d.nid = 32 * IndexAt(j) + 15
  BY <1>1, <1>2 DEF Node, makeNid, HierarchyTable, ContentsTable, AssocContentsTable
<1> HIDE DEF a, b, c, d
<1>6. DOMAIN NodesOf(j) = 1 .. 4
  BY <1>4
<1>7. NodesOf(j) \in Seq(ToSet(NodesOf(j)))
  BY <1>4 DEF ToSet
<1>8. \A n \in 1 .. 4 : NodesOf(j)[n].nid = 32 * IndexAt(j) + TypeOf(n)
  BY <1>2, <1>4, <1>5 DEF TypeOf
<1> QED
  BY <1>2, <1>6, <1>7, <1>8

\* The nodes writeReservedNodes() registers: the templates, then the others.
LEMMA ReservedSeq ==
  /\ Reserved \in Seq(ToSet(Reserved)) /\ DOMAIN Reserved = 1 .. 19
  /\ \A k \in 1 .. 11 : Reserved[k] = Templates[k]
  /\ \A k \in 12 .. 19 :
       Reserved[k] = <<513, 609, 3073, 3585, 481, 3649, 3777, 3873>>[k - 11]
<1> DEFINE t == <<513, 609, 3073, 3585, 481, 3649, 3777, 3873>>
<1>1. Templates \in Seq(Nat) /\ Len(Templates) = 11
  BY DEF Templates, makeNid, HierarchyTable, ContentsTable, AssocContentsTable
<1>2. t \in Seq(Nat) /\ Len(t) = 8
  OBVIOUS
<1>3. Reserved = Templates \o t
  BY DEF Reserved
<1> HIDE DEF t
<1>4. Templates \in Seq(ToSet(Templates)) /\ t \in Seq(ToSet(t))
  BY <1>1, <1>2, OwnSet
<1>5. Join(Templates, t, Reserved)
  BY <1>3, <1>4, Joined
<1>6. DOMAIN Templates = 1 .. 11 /\ DOMAIN t = 1 .. 8 /\ Len(Templates) = 11
  BY <1>1, <1>2
<1>7. \A k \in 1 .. 11 : k \in DOMAIN Reserved /\ Reserved[k] = Templates[k]
  BY <1>5, <1>6 DEF Join
<1>8. \A l \in 1 .. 8 : 11 + l \in DOMAIN Reserved /\ Reserved[11 + l] = t[l]
  BY <1>5, <1>6 DEF Join
<1>9. ASSUME NEW k \in 12 .. 19 PROVE k \in DOMAIN Reserved /\ Reserved[k] = t[k - 11]
  <2>1. k - 11 \in 1 .. 8 /\ 11 + (k - 11) = k
    OBVIOUS
  <2>2. 11 + (k - 11) \in DOMAIN Reserved /\ Reserved[11 + (k - 11)] = t[k - 11]
    BY <1>8, <2>1
  <2> QED
    BY <2>1, <2>2
<1>10. ASSUME NEW k \in DOMAIN Reserved PROVE k \in 1 .. 19
  <2>1. k \in 1 .. 11 \/ \E l \in 1 .. 8 : k = 11 + l
    BY <1>5, <1>6 DEF Join
  <2> QED
    BY <2>1
<1>11. DOMAIN Reserved = 1 .. 19
  <2>1. \A k \in 1 .. 19 : k \in 1 .. 11 \/ k \in 12 .. 19
    OBVIOUS
  <2> QED
    BY <1>7, <1>9, <1>10, <2>1
<1> QED
  BY <1>5, <1>7, <1>9, <1>11 DEF Join, t

\* Their identifiers.
LEMMA ReservedList ==
  /\ Reserved[1] = 1549 /\ Reserved[2] = 1550 /\ Reserved[3] = 1551 /\ Reserved[4] = 1552
  /\ Reserved[5] = 1579 /\ Reserved[6] = 1612 /\ Reserved[7] = 1649 /\ Reserved[8] = 1682
  /\ Reserved[9] = 1718 /\ Reserved[10] = 1751 /\ Reserved[11] = 1784 /\ Reserved[12] = 513
  /\ Reserved[13] = 609 /\ Reserved[14] = 3073 /\ Reserved[15] = 3585 /\ Reserved[16] = 481
  /\ Reserved[17] = 3649 /\ Reserved[18] = 3777 /\ Reserved[19] = 3873
<1>1. Templates = <<1549, 1550, 1551, 1552, 1579, 1612, 1649, 1682, 1718, 1751, 1784>>
  BY DEF Templates, makeNid, HierarchyTable, ContentsTable, AssocContentsTable
<1>2. /\ Reserved[1] = 1549 /\ Reserved[2] = 1550 /\ Reserved[3] = 1551 /\ Reserved[4] = 1552
      /\ Reserved[5] = 1579 /\ Reserved[6] = 1612 /\ Reserved[7] = 1649 /\ Reserved[8] = 1682
      /\ Reserved[9] = 1718 /\ Reserved[10] = 1751 /\ Reserved[11] = 1784
  BY <1>1, ReservedSeq
<1> DEFINE t == <<513, 609, 3073, 3585, 481, 3649, 3777, 3873>>
<1>3. \A k \in 12 .. 19 : Reserved[k] = t[k - 11]
  BY ReservedSeq
<1> HIDE DEF t
<1>4. /\ Reserved[12] = t[1] /\ Reserved[13] = t[2] /\ Reserved[14] = t[3] /\ Reserved[15] = t[4]
      /\ Reserved[16] = t[5] /\ Reserved[17] = t[6] /\ Reserved[18] = t[7] /\ Reserved[19] = t[8]
  BY <1>3
<1> QED
  BY <1>2, <1>4 DEF t

\* The place of an identifier in that list.
PlaceIn(nid) ==
  CASE nid = 1549 -> 1 [] nid = 1550 -> 2 [] nid = 1551 -> 3 [] nid = 1552 -> 4 [] nid = 1579 -> 5
    [] nid = 1612 -> 6 [] nid = 1649 -> 7 [] nid = 1682 -> 8 [] nid = 1718 -> 9 [] nid = 1751 -> 10
    [] nid = 1784 -> 11 [] nid = 513 -> 12 [] nid = 609 -> 13 [] nid = 3073 -> 14
    [] nid = 3585 -> 15 [] nid = 481 -> 16 [] nid = 3649 -> 17 [] nid = 3777 -> 18
    [] nid = 3873 -> 19 [] OTHER -> 0

\* No message and no folder has an identifier like that.
Apart(nid) ==
  /\ nid \in Nat /\ nid % 32 # 4
  /\ \A i \in Nat, n \in 1 .. 4 : i = 9 \/ i > 64 => nid # 32 * i + TypeOf(n)

\* The fixed nodes have identifiers of their own.
LEMMA FixedList ==
  /\ \A g \in 1 .. 3 : FixedNodes[g] \in Seq(ToSet(FixedNodes[g])) /\ Distinct(FixedNodes[g])
  /\ \A g \in 1 .. 3 : \A n \in DOMAIN FixedNodes[g] : Apart(FixedNodes[g][n].nid)
  /\ \A g, h \in 1 .. 3 : \A n \in DOMAIN FixedNodes[g], m \in DOMAIN FixedNodes[h] :
       g # h => FixedNodes[g][n].nid # FixedNodes[h][m].nid
  /\ FixedNodes[2] = <<Node(MessageStore, 0, NoSubs, Advertised)>>
<1> DEFINE r == [i \in DOMAIN Reserved |-> Node(Reserved[i], 0, NoSubs, "furniture")]
           s == <<Node(MessageStore, 0, NoSubs, Advertised)>>
           t == <<Node(NameToIdMap, 0, NoSubs, "names")>>
<1>1. FixedNodes = <<r, s, t>>
  BY DEF FixedNodes
<1>2. /\ DOMAIN r = 1 .. 19 /\ r \in Seq({Node(Reserved[i], 0, NoSubs, "furniture") : i \in 1 .. 19})
  BY ReservedSeq
<1>3. \A n \in 1 .. 19 : r[n].nid = Reserved[n]
  BY ReservedSeq DEF Node
<1>4. s \in Seq({s[1]}) /\ DOMAIN s = {1} /\ s[1].nid = 33
  BY DEF Node, MessageStore
<1>5. t \in Seq({t[1]}) /\ DOMAIN t = {1} /\ t[1].nid = 97
  BY DEF Node, NameToIdMap
<1>6. r \in Seq(ToSet(r)) /\ s \in Seq(ToSet(s)) /\ t \in Seq(ToSet(t))
  <2> HIDE DEF r, s, t
  <2> QED
    BY <1>2, <1>4, <1>5, OwnSet
<1> HIDE DEF r, s, t
<1>7. FixedNodes[1] = r /\ FixedNodes[2] = s /\ FixedNodes[3] = t
  BY <1>1
<1>8. \A n, m \in 1 .. 19 : Reserved[n] = Reserved[m] => n = m
  <2>1. ASSUME NEW n \in 1 .. 19, NEW m \in 1 .. 19, Reserved[n] = Reserved[m] PROVE n = m
    <3>1. \A k \in 1 .. 19 : PlaceIn(Reserved[k]) = k
      <4>1. ASSUME NEW k \in 1 .. 19 PROVE PlaceIn(Reserved[k]) = k
        <5>1. \/ k = 1 \/ k = 2 \/ k = 3 \/ k = 4 \/ k = 5 \/ k = 6 \/ k = 7 \/ k = 8 \/ k = 9
              \/ k = 10 \/ k = 11 \/ k = 12 \/ k = 13 \/ k = 14 \/ k = 15 \/ k = 16 \/ k = 17
              \/ k = 18 \/ k = 19
          OBVIOUS
        <5> QED
          BY <5>1, ReservedList DEF PlaceIn
      <4> QED
        BY <4>1
    <3> QED
      BY <2>1, <3>1
  <2> QED
    BY <2>1
<1>9. Distinct(r) /\ Distinct(s) /\ Distinct(t)
  BY <1>2, <1>3, <1>4, <1>5, <1>8 DEF Distinct
<1>10. ASSUME NEW x \in {1549, 1550, 1551, 1552, 1579, 1612, 1649, 1682, 1718, 1751, 1784, 513, 609,
                         3073, 3585, 481, 3649, 3777, 3873, 33, 97}
       PROVE  Apart(x)
  <2>1. x \in Nat /\ x % 32 # 4
    OBVIOUS
  <2>2. ASSUME NEW i \in Nat, NEW ty \in {2, 13, 14, 15}, i = 9 \/ i > 64 PROVE x # 32 * i + ty
    BY <2>2
  <2>3. \A n \in 1 .. 4 : TypeOf(n) \in {2, 13, 14, 15}
    BY DEF TypeOf
  <2> QED
    BY <2>1, <2>2, <2>3 DEF Apart
<1>11. \A n \in 1 .. 19 : /\ Apart(Reserved[n]) /\ Reserved[n] # 33 /\ Reserved[n] # 97
  <2>1. ASSUME NEW n \in 1 .. 19
        PROVE  /\ Reserved[n] \in {1549, 1550, 1551, 1552, 1579, 1612, 1649, 1682, 1718, 1751, 1784,
                                   513, 609, 3073, 3585, 481, 3649, 3777, 3873, 33, 97}
               /\ Reserved[n] # 33 /\ Reserved[n] # 97
    <3>1. \/ n = 1 \/ n = 2 \/ n = 3 \/ n = 4 \/ n = 5 \/ n = 6 \/ n = 7 \/ n = 8 \/ n = 9
          \/ n = 10 \/ n = 11 \/ n = 12 \/ n = 13 \/ n = 14 \/ n = 15 \/ n = 16 \/ n = 17
          \/ n = 18 \/ n = 19
      OBVIOUS
    <3> QED
      BY <3>1, ReservedList
  <2> QED
    BY <1>10, <2>1
<1>12. Apart(33) /\ Apart(97)
  BY <1>10
<1>13. \A g \in 1 .. 3 : FixedNodes[g] \in Seq(ToSet(FixedNodes[g])) /\ Distinct(FixedNodes[g])
  BY <1>6, <1>7, <1>9
<1>14. \A g \in 1 .. 3 : \A n \in DOMAIN FixedNodes[g] : Apart(FixedNodes[g][n].nid)
  <2>1. \A n \in DOMAIN r : Apart(r[n].nid)
    BY <1>2, <1>3, <1>11
  <2>2. (\A n \in DOMAIN s : Apart(s[n].nid)) /\ (\A n \in DOMAIN t : Apart(t[n].nid))
    BY <1>4, <1>5, <1>12
  <2> QED
    BY <1>7, <2>1, <2>2
<1>15. ASSUME NEW g \in 1 .. 3, NEW h \in 1 .. 3,
              NEW n \in DOMAIN FixedNodes[g], NEW m \in DOMAIN FixedNodes[h], g # h
       PROVE  FixedNodes[g][n].nid # FixedNodes[h][m].nid
  <2>1. (g = 1 \/ g = 2 \/ g = 3) /\ (h = 1 \/ h = 2 \/ h = 3)
    OBVIOUS
  <2>2. /\ \A k \in DOMAIN r : r[k].nid # 33 /\ r[k].nid # 97
        /\ \A k \in DOMAIN s : s[k].nid = 33
        /\ \A k \in DOMAIN t : t[k].nid = 97
    <3>1. ASSUME NEW k \in DOMAIN r PROVE r[k].nid # 33 /\ r[k].nid # 97
      <4>1. k \in 1 .. 19
        BY <1>2
      <4>2. r[k].nid = Reserved[k] /\ Reserved[k] # 33 /\ Reserved[k] # 97
        BY <1>3, <1>11, <4>1
      <4> QED
        BY <4>2
    <3> QED
      BY <1>4, <1>5, <3>1
  <2> QED
    BY <1>7, <1>15, <2>1, <2>2
<1> QED
  BY <1>7, <1>13, <1>14, <1>15 DEF s

\* A node stays what it is.
LEMMA KindKept ==
  ASSUME IInv, NEW k \in DOMAIN nbt, nbt'[k] = nbt[k], Kind(k),
         DOMAIN folders \subseteq DOMAIN folders', Spent \in Int, Spent' \in Int, Spent <= Spent',
         stage = 0 \/ (UNCHANGED folders /\ stage \in Int /\ stage' \in Int /\ stage <= stage')
  PROVE  Kind(k)'
<1>0. DOMAIN folders = 1 .. Len(folders) /\ Len(folders) \in Nat
  BY DEF IInv, FoldersInv, Tree
<1>1. CASE IsMessage(nbt[k], Spent)
  <2>1. PICK i \in Nat, f \in DOMAIN folders, shape \in Shapes :
          i >= FirstUserNidIndex /\ i < Spent /\ nbt[k] = MessageAt(32 * i + 4, f, shape)
    BY <1>1 DEF IsMessage
  <2>2. f \in DOMAIN folders' /\ i < Spent'
    BY <2>1
  <2>3. IsMessage(nbt[k], Spent)'
    BY <2>1, <2>2 DEF IsMessage
  <2> QED
    BY <2>3 DEF Kind
<1>2. CASE IsOfFolder(nbt[k])
  <2>1. PICK j \in DOMAIN folders, n \in 1 .. 4 : j < stage /\ nbt[k] = NodesOf(j)[n]
    BY <1>2 DEF IsOfFolder
  <2>2. UNCHANGED folders /\ j < stage'
    BY <1>0, <2>1
  <2>3. NodesOf(j)' = NodesOf(j)
    BY <2>2 DEF NodesOf, folderNodes, ChildSummaries
  <2>4. IsOfFolder(nbt[k])'
    BY <2>1, <2>2, <2>3 DEF IsOfFolder
  <2> QED
    BY <2>4 DEF Kind
<1>3. CASE IsFixed(nbt[k])
  <2>1. PICK g \in 1 .. 3 : \E n \in DOMAIN FixedNodes[g] :
          g < stage - Len(folders) /\ nbt[k] = FixedNodes[g][n]
    BY <1>3 DEF IsFixed
  <2>2. g < stage' - Len(folders')
    BY <1>0, <2>1
  <2>3. IsFixed(nbt[k])'
    BY <2>1, <2>2 DEF IsFixed
  <2> QED
    BY <2>3 DEF Kind
<1> QED
  BY <1>1, <1>2, <1>3 DEF Kind

\* Before finish() every node is a message's.
LEMMA OnlyMessages ==
  ASSUME IInv, stage = 0, NEW k \in DOMAIN nbt
  PROVE  IsMessage(nbt[k], Spent)
<1>1. DOMAIN folders = 1 .. Len(folders) /\ Len(folders) \in Nat /\ Kind(k)
  BY DEF IInv, FoldersInv, Tree, NodesInv
<1>2. ~ IsOfFolder(nbt[k])
  BY <1>1 DEF IsOfFolder
<1>3. ~ IsFixed(nbt[k])
  BY <1>1 DEF IsFixed
<1> QED
  BY <1>1, <1>2, <1>3 DEF Kind

\* The nodes are as they were.
LEMMA SameNodes ==
  ASSUME IInv, UNCHANGED nbt, DOMAIN folders \subseteq DOMAIN folders',
         Spent \in Int, Spent' \in Int, Spent <= Spent',
         stage = 0 \/ (UNCHANGED folders /\ stage \in Int /\ stage' \in Int /\ stage <= stage'),
         adding'.step \in {"row", "cells", "end"} =>
           /\ adding.step \in {"row", "cells", "end"} /\ adding'.nid = adding.nid
           /\ adding'.folder = adding.folder /\ adding'.shape = adding.shape
  PROVE  NodesInv'
<1>1. nbt \in Seq(ToSet(nbt)) /\ Distinct(nbt) /\ \A k \in DOMAIN nbt : Kind(k)
  BY DEF IInv, NodesInv
<1>2. nbt' \in Seq(ToSet(nbt')) /\ Distinct(nbt')
  BY <1>1
<1>3. ASSUME NEW k \in DOMAIN nbt' PROVE Kind(k)'
  BY <1>1, KindKept
<1>4. adding'.step \in {"row", "cells", "end"} =>
        \E k \in DOMAIN nbt' : nbt'[k] = MessageAt(adding'.nid, adding'.folder, adding'.shape)
  BY DEF IInv, NodesInv
<1> QED
  BY <1>2, <1>3, <1>4 DEF NodesInv

\* Nodes are registered after the others.
LEMMA MoreNodes ==
  ASSUME IInv, NEW t, t \in Seq(ToSet(t)), nbt' = nbt \o t, Distinct(t), UNCHANGED folders,
         \A k \in DOMAIN nbt, l \in DOMAIN t : nbt[k].nid # t[l].nid,
         Spent \in Int, Spent' \in Int, Spent <= Spent',
         stage \in Int, stage' \in Int, stage <= stage',
         NEW base, base = Len(nbt), \A l \in DOMAIN t : Kind(base + l)'
  PROVE  /\ nbt' \in Seq(ToSet(nbt')) /\ Distinct(nbt') /\ \A k \in DOMAIN nbt' : Kind(k)'
         /\ Join(nbt, t, nbt')
<1>1. nbt \in Seq(ToSet(nbt)) /\ Distinct(nbt) /\ \A k \in DOMAIN nbt : Kind(k)
  BY DEF IInv, NodesInv
<1>2. Join(nbt, t, nbt')
  BY <1>1, Joined
<1>3. Distinct(nbt')
  BY <1>1, <1>2, JoinedDistinct
<1>4. nbt' \in Seq(ToSet(nbt'))
  BY <1>2 DEF Join
<1>5. ASSUME NEW k \in DOMAIN nbt' PROVE Kind(k)'
  <2>1. CASE k \in DOMAIN nbt
    <3>1. nbt'[k] = nbt[k] /\ Kind(k)
      BY <1>1, <1>2, <2>1 DEF Join
    <3> QED
      BY <2>1, <3>1, KindKept
  <2>2. CASE \E l \in DOMAIN t : k = Len(nbt) + l
    BY <2>2
  <2> QED
    BY <1>2, <2>1, <2>2 DEF Join
<1> QED
  BY <1>2, <1>3, <1>4, <1>5

\* The identifier of a node says what it is.
LEMMA KindNid ==
  ASSUME IInv, NEW k \in DOMAIN nbt
  PROVE  \/ \E i \in Nat : i >= FirstUserNidIndex /\ i < Spent /\ nbt[k].nid = 32 * i + 4
         \/ \E j \in DOMAIN folders, n \in 1 .. 4 :
              j < stage /\ nbt[k].nid = 32 * IndexAt(j) + TypeOf(n) /\ IndexAt(j) \in Nat
              /\ (IndexAt(j) = 9 \/ IndexAt(j) > 64)
         \/ \E g \in 1 .. 3 : \E n \in DOMAIN FixedNodes[g] :
              g < stage - Len(folders) /\ nbt[k].nid = FixedNodes[g][n].nid
<1>1. Kind(k) /\ Tree(folders)
  BY DEF IInv, NodesInv, FoldersInv
<1>2. CASE IsMessage(nbt[k], Spent)
  BY <1>2 DEF IsMessage, MessageAt, Node
<1>3. CASE IsOfFolder(nbt[k])
  <2>1. PICK j \in DOMAIN folders, n \in 1 .. 4 : j < stage /\ nbt[k] = NodesOf(j)[n]
    BY <1>3 DEF IsOfFolder
  <2>2. /\ NodesOf(j)[n].nid = 32 * IndexAt(j) + TypeOf(n)
        /\ IndexAt(j) \in Nat /\ (IndexAt(j) = 9 \/ IndexAt(j) > 64)
    BY <1>1, FolderNids4
  <2> QED
    BY <2>1, <2>2
<1>4. CASE IsFixed(nbt[k])
  BY <1>4 DEF IsFixed
<1> QED
  BY <1>1, <1>2, <1>3, <1>4 DEF Kind

\* Indexes and types of two equal identifiers.
LEMMA SameNid ==
  ASSUME NEW i \in Nat, NEW j \in Nat, NEW t \in 0 .. 31, NEW u \in 0 .. 31,
         32 * i + t = 32 * j + u
  PROVE  i = j /\ t = u
  OBVIOUS

\* The types of a folder's nodes.
LEMMA Types ==
  /\ \A n \in 1 .. 4 : TypeOf(n) \in 0 .. 31 /\ TypeOf(n) # 4
  /\ \A n, m \in 1 .. 4 : TypeOf(n) = TypeOf(m) => n = m
  BY DEF TypeOf

\* The node of the message that is being added is a new one.
LEMMA MessageNew ==
  ASSUME IInv, adding.step = "build", NEW k \in DOMAIN nbt
  PROVE  nbt[k].nid # adding.nid
<1>1. stage = 0 /\ adding.nid = 32 * (nextMessage - 1) + 4 /\ nextMessage \in Nat /\ Spent = nextMessage - 1
  BY DEF IInv, StagesInv, Spent
<1>2. IsMessage(nbt[k], Spent)
  BY <1>1, OnlyMessages
<1>3. PICK i \in Nat : i < nextMessage - 1 /\ nbt[k].nid = 32 * i + 4
  BY <1>1, <1>2 DEF IsMessage, MessageAt, Node
<1> QED
  BY <1>1, <1>3

\* So are the nodes of the folder that is written next.
LEMMA FolderNew ==
  ASSUME IInv, stage \in DOMAIN folders, NEW k \in DOMAIN nbt, NEW n \in 1 .. 4
  PROVE  nbt[k].nid # NodesOf(stage)[n].nid
<1>1. /\ Tree(folders) /\ DOMAIN folders = 1 .. Len(folders) /\ Len(folders) \in Nat
      /\ stage \in Nat \ {0} /\ stage - Len(folders) <= 0
  BY DEF IInv, FoldersInv, Tree
<1>2. /\ NodesOf(stage)[n].nid = 32 * IndexAt(stage) + TypeOf(n) /\ IndexAt(stage) \in Nat
  BY <1>1, FolderNids4
<1>3. ASSUME NEW i \in Nat, nbt[k].nid = 32 * i + 4 PROVE nbt[k].nid # NodesOf(stage)[n].nid
  <2>1. TypeOf(n) \in 0 .. 31 /\ TypeOf(n) # 4
    BY Types
  <2> QED
    BY <1>2, <1>3, <2>1
<1>4. ASSUME NEW j \in DOMAIN folders, NEW m \in 1 .. 4, j < stage, IndexAt(j) \in Nat,
             nbt[k].nid = 32 * IndexAt(j) + TypeOf(m)
      PROVE  nbt[k].nid # NodesOf(stage)[n].nid
  <2>1. TypeOf(n) \in 0 .. 31 /\ TypeOf(m) \in 0 .. 31
    BY Types
  <2>2. j \in Nat \ {0} /\ j # stage
    BY <1>1, <1>4
  <2>3. IndexAt(j) # IndexAt(stage)
    BY <1>1, <2>2, Nids
  <2> QED
    BY <1>2, <1>4, <2>1, <2>3, SameNid
<1>5. \A g \in 1 .. 3 : ~(g < stage - Len(folders))
  BY <1>1
<1> QED
  BY <1>3, <1>4, <1>5, KindNid

\* And the fixed ones.
LEMMA FixedNew ==
  ASSUME IInv, NEW g \in 1 .. 3, g = stage - Len(folders), NEW k \in DOMAIN nbt,
         NEW n \in DOMAIN FixedNodes[g]
  PROVE  nbt[k].nid # FixedNodes[g][n].nid
<1> DEFINE x == FixedNodes[g][n].nid
<1>1. Apart(x)
  BY FixedList
<1>2. ASSUME NEW i \in Nat, nbt[k].nid = 32 * i + 4 PROVE nbt[k].nid # x
  <2>1. (32 * i + 4) % 32 = 4
    BY Split
  <2> QED
    BY <1>1, <1>2, <2>1 DEF Apart
<1>3. ASSUME NEW i \in Nat, i = 9 \/ i > 64, NEW m \in 1 .. 4, nbt[k].nid = 32 * i + TypeOf(m)
      PROVE  nbt[k].nid # x
  BY <1>1, <1>3 DEF Apart
<1>4. ASSUME NEW h \in 1 .. 3, h < g, NEW m \in DOMAIN FixedNodes[h],
             nbt[k].nid = FixedNodes[h][m].nid
      PROVE  nbt[k].nid # x
  BY <1>4, FixedList
<1> HIDE DEF x
<1>5. nbt[k].nid # x
  BY <1>2, <1>3, <1>4, KindNid
<1> QED
  BY <1>5 DEF x

\* The message indexes that may have a node grow.
LEMMA SpentGrows ==
  ASSUME IInv, Next
  PROVE  Spent \in Int /\ Spent' \in Int /\ Spent <= Spent'
<1>1. nextMessage \in Nat
  BY DEF IInv, StagesInv
<1>2. ASSUME NEW parent, createFolder(parent) PROVE UNCHANGED <<nextMessage, adding>>
  BY <1>2 DEF createFolder
<1>3. ASSUME NEW f, NEW shape, addMessage(f, shape)
      PROVE  nextMessage' = nextMessage + 1 /\ adding.step = "none" /\ adding'.step = "build"
  BY <1>3 DEF addMessage
<1>4. ASSUME BuildRefused \/ NodeWritten \/ RowBegun \/ CellsSet \/ RowEnded
      PROVE  UNCHANGED nextMessage /\ adding'.step # "build"
  <2>1. CASE BuildRefused
    BY <2>1 DEF BuildRefused, GiveUp, Idle
  <2>2. CASE NodeWritten
    <3>1. adding.step = "build" /\ adding' = [adding EXCEPT !.step = "row"] /\ UNCHANGED nextMessage
      BY <2>2 DEF NodeWritten, Step
    <3>2. adding \in [step : {"build", "row", "cells", "end"}, folder : DOMAIN folders, nid : Nat,
                      shape : Shapes]
      BY <3>1, Target
    <3>3. adding'.step = "row"
      BY <3>1, <3>2
    <3> QED
      BY <3>1, <3>3
  <2>3. CASE RowBegun
    <3>1. adding.step = "row" /\ UNCHANGED nextMessage
      BY <2>3 DEF RowBegun
    <3>2. adding \in [step : {"build", "row", "cells", "end"}, folder : DOMAIN folders, nid : Nat,
                      shape : Shapes]
      BY <3>1, Target
    <3>3. adding' = Idle \/ adding' = [adding EXCEPT !.step = "cells"]
      BY <2>3, BegunRow
    <3>4. adding'.step = "none" \/ adding'.step = "cells"
      BY <3>2, <3>3 DEF Idle
    <3> QED
      BY <3>1, <3>4
  <2>4. CASE CellsSet
    <3>1. adding.step = "cells" /\ UNCHANGED nextMessage
      BY <2>4 DEF CellsSet
    <3>2. adding \in [step : {"build", "row", "cells", "end"}, folder : DOMAIN folders, nid : Nat,
                      shape : Shapes]
      BY <3>1, Target
    <3>3. adding' = Idle \/ adding' = [adding EXCEPT !.step = "end"]
      BY <2>4 DEF CellsSet, GiveUp, Step
    <3>4. adding'.step = "none" \/ adding'.step = "end"
      BY <3>2, <3>3 DEF Idle
    <3> QED
      BY <3>1, <3>4
  <2>5. CASE RowEnded
    BY <2>5 DEF RowEnded, GiveUp, Idle
  <2> QED
    BY <1>4, <2>1, <2>2, <2>3, <2>4, <2>5
<1>5. ASSUME finish \/ writeFolder \/ writeFixedNodes \/ finishNdb
      PROVE  UNCHANGED <<nextMessage, adding>>
  BY <1>5 DEF finish, writeFolder, writeFixedNodes, finishNdb
<1>6. \/ UNCHANGED <<nextMessage, adding>>
      \/ nextMessage' = nextMessage + 1 /\ adding.step = "none" /\ adding'.step = "build"
      \/ UNCHANGED nextMessage /\ adding'.step # "build"
  BY <1>2, <1>3, <1>4, <1>5 DEF Next
<1> QED
  BY <1>1, <1>6 DEF Spent

\* The identifiers stay apart, and every node stays what it is.
LEMMA NodesStep == IInv /\ Next => NodesInv'
<1> SUFFICES ASSUME IInv, Next PROVE NodesInv'
  OBVIOUS
<1>0. /\ Spent \in Int /\ Spent' \in Int /\ Spent <= Spent'
      /\ Len(folders) \in Nat /\ stage \in Nat /\ Tree(folders)
      /\ DOMAIN folders = 1 .. Len(folders) /\ Len(nbt) \in Nat
  BY SpentGrows, FolderCounts DEF IInv, StagesInv, NodesInv, Broken, Closed, FoldersInv
<1>1. ASSUME NEW parent \in {IpmSubtree} \cup CallerFolders, createFolder(parent) PROVE NodesInv'
  <2>1. stage = 0 /\ adding.step = "none" /\ UNCHANGED <<nbt, adding, stage>>
    BY <1>1 DEF createFolder
  <2>2. PICK p \in DOMAIN folders : folders' = makeFolder(folders, NidAt(Len(folders) + 1), NidAt(p))
    BY <1>1, Created
  <2>3. DOMAIN folders' = 1 .. (Len(folders) + 1)
    BY <1>0, <2>2, Made
  <2>4. DOMAIN folders \subseteq DOMAIN folders'
    BY <1>0, <2>3
  <2> QED
    BY <1>0, <2>1, <2>4, SameNodes
<1>2. ASSUME NEW f, NEW shape, addMessage(f, shape) PROVE NodesInv'
  <2>1. stage = 0 /\ UNCHANGED <<nbt, folders>> /\ adding'.step = "build"
    BY <1>2 DEF addMessage
  <2> QED
    BY <1>0, <2>1, SameNodes
<1>3. ASSUME BuildRefused PROVE NodesInv'
  <2>1. UNCHANGED <<nbt, folders>> /\ adding.step # "none" /\ adding'.step = "none"
    BY <1>3 DEF BuildRefused, GiveUp, Idle
  <2>2. stage = 0
    BY <2>1, Target
  <2> QED
    BY <1>0, <2>1, <2>2, SameNodes
<1>4. ASSUME NodeWritten PROVE NodesInv'
  <2> DEFINE m == MessageAt(adding.nid, adding.folder, adding.shape)
             t == <<m>>
  <2>1. /\ adding.step = "build" /\ UNCHANGED <<folders, stage, nextMessage>>
        /\ adding' = [adding EXCEPT !.step = "row"]
        /\ nbt' = nbt \o <<Node(adding.nid, folders[adding.folder].nid,
                                buildMessage(adding.shape), adding.shape)>>
    BY <1>4 DEF NodeWritten, addNodes, Step
  <2>2. /\ adding.folder \in DOMAIN folders /\ adding.shape \in Shapes /\ stage = 0
        /\ adding \in [step : {"build", "row", "cells", "end"}, folder : DOMAIN folders, nid : Nat,
                       shape : Shapes]
    BY <2>1, Target
  <2>3. folders[adding.folder].nid = NidAt(adding.folder)
    BY <1>0, <2>2 DEF Tree
  <2>4. nbt' = nbt \o t
    BY <2>1, <2>3 DEF MessageAt
  <2>5. /\ adding'.step = "row" /\ adding'.nid = adding.nid /\ adding'.folder = adding.folder
        /\ adding'.shape = adding.shape
    BY <2>1, <2>2
  <2>6. m.nid = adding.nid
    BY DEF MessageAt, Node
  <2> HIDE DEF m
  <2>7. t \in Seq({m}) /\ DOMAIN t = {1} /\ t[1] = m
    OBVIOUS
  <2> HIDE DEF t
  <2>8. t \in Seq(ToSet(t)) /\ Distinct(t)
    BY <2>7, OwnSet DEF Distinct
  <2>9. \A k \in DOMAIN nbt, l \in DOMAIN t : nbt[k].nid # t[l].nid
    BY <2>1, <2>6, <2>7, MessageNew
  <2>10. PICK base : base = Len(nbt)
    OBVIOUS
  <2>11. Join(nbt, t, nbt')
    BY <2>4, <2>8, Joined DEF IInv, NodesInv
  <2>12. base + 1 \in DOMAIN nbt' /\ nbt'[base + 1] = m
    BY <2>7, <2>10, <2>11 DEF Join
  <2>13. Kind(base + 1)'
    <3>1. /\ nextMessage \in Nat /\ nextMessage > FirstUserNidIndex
          /\ adding.nid = 32 * (nextMessage - 1) + 4
      BY <2>1 DEF IInv, StagesInv
    <3>2. Spent' = nextMessage
      BY <2>1, <2>5 DEF Spent
    <3>3. nextMessage - 1 \in Nat /\ nextMessage - 1 >= FirstUserNidIndex /\ nextMessage - 1 < Spent'
      BY <3>1, <3>2, Bounds
    <3>4. nbt'[base + 1] = MessageAt(32 * (nextMessage - 1) + 4, adding.folder, adding.shape)
      BY <2>12, <3>1 DEF m
    <3>5. adding.folder \in DOMAIN folders'
      BY <2>1, <2>2
    <3>6. IsMessage(nbt[base + 1], Spent)'
      BY <2>2, <3>3, <3>4, <3>5 DEF IsMessage
    <3> QED
      BY <3>6 DEF Kind
  <2>14. \A l \in DOMAIN t : Kind(base + l)'
    BY <2>7, <2>13
  <2>15. nbt' \in Seq(ToSet(nbt')) /\ Distinct(nbt') /\ \A k \in DOMAIN nbt' : Kind(k)'
    <3>1. stage \in Int /\ stage' \in Int /\ stage <= stage' /\ UNCHANGED folders
      BY <1>0, <2>1
    <3> QED
      BY <1>0, <3>1, <2>4, <2>8, <2>9, <2>10, <2>14, MoreNodes
  <2>16. nbt'[base + 1] = MessageAt(adding'.nid, adding'.folder, adding'.shape)
    BY <2>5, <2>12 DEF m
  <2> QED
    BY <2>12, <2>15, <2>16 DEF NodesInv
<1>5. ASSUME RowBegun PROVE NodesInv'
  <2>1. adding.step = "row" /\ UNCHANGED nbt
    BY <1>5 DEF RowBegun
  <2>2. /\ stage = 0 /\ adding \in [step : {"build", "row", "cells", "end"}, folder : DOMAIN folders,
                                    nid : Nat, shape : Shapes]
    BY <2>1, Target
  <2>3. adding' = Idle \/ adding' = [adding EXCEPT !.step = "cells"]
    BY <1>5, BegunRow
  <2>4. adding'.step \in {"row", "cells", "end"} =>
          /\ adding'.nid = adding.nid /\ adding'.folder = adding.folder
          /\ adding'.shape = adding.shape
    BY <2>2, <2>3 DEF Idle
  <2>5. DOMAIN folders' = DOMAIN folders
    BY <1>5, RowKeeps
  <2> QED
    BY <1>0, <2>1, <2>2, <2>4, <2>5, SameNodes
<1>6. ASSUME CellsSet PROVE NodesInv'
  <2>1. adding.step = "cells" /\ UNCHANGED <<nbt, folders>>
    BY <1>6 DEF CellsSet
  <2>2. /\ stage = 0 /\ adding \in [step : {"build", "row", "cells", "end"}, folder : DOMAIN folders,
                                    nid : Nat, shape : Shapes]
    BY <2>1, Target
  <2>3. adding' = Idle \/ adding' = [adding EXCEPT !.step = "end"]
    BY <1>6 DEF CellsSet, GiveUp, Step
  <2>4. adding'.step \in {"row", "cells", "end"} =>
          /\ adding'.nid = adding.nid /\ adding'.folder = adding.folder
          /\ adding'.shape = adding.shape
    BY <2>2, <2>3 DEF Idle
  <2> QED
    BY <1>0, <2>1, <2>2, <2>4, SameNodes
<1>7. ASSUME RowEnded PROVE NodesInv'
  <2>1. adding.step = "end" /\ UNCHANGED nbt /\ adding'.step = "none"
    BY <1>7 DEF RowEnded, GiveUp, Idle
  <2>2. stage = 0
    BY <2>1, Target
  <2>3. DOMAIN folders' = DOMAIN folders
    BY <1>7, RowKeeps
  <2> QED
    BY <1>0, <2>1, <2>2, <2>3, SameNodes
<1>8. ASSUME UNCHANGED <<nbt, folders, adding>>, adding.step = "none",
             stage' \in Int, stage <= stage'
      PROVE  NodesInv'
  BY <1>0, <1>8, SameNodes
<1>9. ASSUME NEW t, t \in Seq(ToSet(t)), nbt' = nbt \o t, Distinct(t), UNCHANGED <<folders, adding>>,
             \A k \in DOMAIN nbt, l \in DOMAIN t : nbt[k].nid # t[l].nid,
             stage > 0, stage' = stage + 1,
             NEW base, base = Len(nbt), \A l \in DOMAIN t : Kind(base + l)'
      PROVE  NodesInv'
  <2>1. stage \in Int /\ stage' \in Int /\ stage <= stage'
    BY <1>0, <1>9
  <2>2. nbt' \in Seq(ToSet(nbt')) /\ Distinct(nbt') /\ \A k \in DOMAIN nbt' : Kind(k)'
    BY <1>0, <1>9, <2>1, MoreNodes
  <2>3. adding'.step = "none"
    BY <1>9, Target
  <2> QED
    BY <2>2, <2>3 DEF NodesInv
<1>10. stage > 0 => adding.step = "none"
  BY Target
<1>11. ASSUME finish PROVE NodesInv'
  <2>1. /\ adding.step = "none" /\ UNCHANGED <<nbt, folders, adding>> /\ stage' = 1
        /\ stage = 0
    BY <1>0, <1>11 DEF finish, IInv, StagesInv
  <2> QED
    BY <1>8, <2>1
<1>12. Broken = Len(folders) + 6 /\ Closed = Len(folders) + 5 /\ stage <= Broken
  BY <1>0 DEF Broken, Closed, IInv, StagesInv
<1>13. ASSUME writeFolder PROVE NodesInv'
  <2>1. stage \in DOMAIN folders /\ UNCHANGED <<folders, adding>> /\ stage > 0
    BY <1>0, <1>13 DEF writeFolder
  <2>2. CASE stage' = Broken /\ UNCHANGED nbt
    BY <1>0, <1>8, <1>10, <1>12, <2>1, <2>2
  <2>3. CASE addNodes(folderNodes(folders[stage])) /\ stage' = stage + 1
    <3> DEFINE t == NodesOf(stage)
    <3>1. nbt' = nbt \o t
      BY <2>3 DEF addNodes, NodesOf
    <3>2. /\ t \in Seq(ToSet(t)) /\ DOMAIN t = 1 .. 4
          /\ \A n \in 1 .. 4 : t[n].nid = 32 * IndexAt(stage) + TypeOf(n)
          /\ IndexAt(stage) \in Nat
      BY <1>0, <2>1, FolderNids4
    <3>3. \A k \in DOMAIN nbt, l \in DOMAIN t : nbt[k].nid # t[l].nid
      BY <2>1, <3>2, FolderNew
    <3>4. PICK st \in Nat : st = stage
      BY <1>0
    <3>5. PICK base : base = Len(nbt)
      OBVIOUS
    <3>6. NodesOf(st)' = t
      BY <2>1, <3>4 DEF NodesOf, folderNodes, ChildSummaries
    <3> HIDE DEF t
    <3>7. Distinct(t)
      <4>1. ASSUME NEW l \in 1 .. 4, NEW m \in 1 .. 4, t[l].nid = t[m].nid PROVE l = m
        <5>1. TypeOf(l) \in 0 .. 31 /\ TypeOf(m) \in 0 .. 31
          BY Types
        <5>2. TypeOf(l) = TypeOf(m)
          <6>1. 32 * IndexAt(stage) + TypeOf(l) = 32 * IndexAt(stage) + TypeOf(m)
            BY <3>2, <4>1
          <6> QED
            BY <3>2, <5>1, <6>1, SameNid
        <5> QED
          BY <5>2, Types
      <4> QED
        BY <3>2, <4>1 DEF Distinct
    <3>8. Join(nbt, t, nbt')
      BY <3>1, <3>2, Joined DEF IInv, NodesInv
    <3>9. ASSUME NEW l \in DOMAIN t PROVE Kind(base + l)'
      <4>1. nbt'[base + l] = t[l]
        BY <3>5, <3>8 DEF Join
      <4>2. st \in DOMAIN folders' /\ l \in 1 .. 4 /\ st < stage'
        BY <2>1, <2>3, <3>2, <3>4
      <4>3. nbt'[base + l] = NodesOf(st)'[l]
        BY <3>6, <4>1
      <4>4. IsOfFolder(nbt[base + l])'
        BY <4>2, <4>3 DEF IsOfFolder
      <4> QED
        BY <4>4 DEF Kind
    <3> QED
      BY <1>9, <2>1, <2>3, <3>1, <3>2, <3>3, <3>5, <3>7, <3>9
  <2> QED
    BY <1>13, <2>2, <2>3 DEF writeFolder
<1>14. ASSUME writeFixedNodes PROVE NodesInv'
  <2>1. stage - Len(folders) \in 1 .. 3 /\ UNCHANGED <<folders, adding>>
    BY <1>14 DEF writeFixedNodes
  <2>2. CASE stage' = Broken /\ UNCHANGED nbt
    <3>1. stage > 0
      BY <1>0, <2>1
    <3> QED
      BY <1>0, <1>8, <1>10, <1>12, <2>1, <2>2, <3>1
  <2>3. CASE addNodes(FixedNodes[stage - Len(folders)]) /\ stage' = stage + 1
    <3>1. PICK g \in 1 .. 3 : g = stage - Len(folders)
      BY <2>1
    <3> DEFINE t == FixedNodes[g]
    <3>2. nbt' = nbt \o t
      BY <2>3, <3>1 DEF addNodes
    <3>3. t \in Seq(ToSet(t)) /\ Distinct(t)
      BY FixedList
    <3>4. \A k \in DOMAIN nbt, l \in DOMAIN t : nbt[k].nid # t[l].nid
      BY <3>1, FixedNew
    <3>5. PICK base : base = Len(nbt)
      OBVIOUS
    <3>6. Join(nbt, t, nbt')
      BY <3>2, <3>3, Joined DEF IInv, NodesInv
    <3>7. ASSUME NEW l \in DOMAIN t PROVE Kind(base + l)'
      <4>1. nbt'[base + l] = FixedNodes[g][l]
        BY <3>5, <3>6 DEF Join
      <4>2. g < stage' - Len(folders')
        BY <1>0, <2>1, <2>3, <3>1
      <4>3. IsFixed(nbt[base + l])'
        BY <4>1, <4>2 DEF IsFixed
      <4> QED
        BY <4>3 DEF Kind
    <3>8. stage > 0
      BY <1>0, <3>1
    <3> HIDE DEF t
    <3> QED
      BY <1>9, <2>1, <2>3, <3>2, <3>3, <3>4, <3>5, <3>7, <3>8
  <2> QED
    BY <1>14, <2>2, <2>3 DEF writeFixedNodes
<1>15. ASSUME finishNdb PROVE NodesInv'
  <2>1. stage = Closed - 1 /\ UNCHANGED <<folders, nbt, adding>> /\ stage' \in {Closed, Broken}
    BY <1>15 DEF finishNdb
  <2>2. stage > 0 /\ stage' \in Int /\ stage <= stage'
    BY <1>0, <1>12, <2>1
  <2> QED
    BY <1>8, <1>10, <2>1, <2>2
<1> QED
  BY <1>1, <1>2, <1>3, <1>4, <1>5, <1>6, <1>7, <1>11, <1>13, <1>14, <1>15 DEF Next

\* Until finish() is called its stage is 0.
LEMMA StageZero ==
  ASSUME IInv, Next
  PROVE  \/ stage = 0 /\ stage' = 0
         \/ finish \/ writeFolder \/ writeFixedNodes \/ finishNdb
<1>1. ASSUME NEW parent, createFolder(parent) PROVE stage = 0 /\ stage' = 0
  BY <1>1 DEF createFolder
<1>2. ASSUME NEW f, NEW shape, addMessage(f, shape) PROVE stage = 0 /\ stage' = 0
  BY <1>2 DEF addMessage
<1>3. ASSUME BuildRefused \/ NodeWritten \/ RowBegun \/ CellsSet \/ RowEnded
      PROVE  stage = 0 /\ stage' = 0
  <2>1. adding.step # "none" /\ UNCHANGED stage
    BY <1>3 DEF BuildRefused, NodeWritten, RowBegun, CellsSet, RowEnded
  <2> QED
    BY <2>1, Target
<1> QED
  BY <1>1, <1>2, <1>3 DEF Next

\* What finish() wrote stays written, folder by folder.
LEMMA WrittenStep == IInv /\ Next => WrittenInv'
<1> SUFFICES ASSUME IInv, Next, stage' \in 1 .. Closed'
             PROVE  /\ \A j \in DOMAIN folders' : j < stage' =>
                         /\ ~folders'[j].open
                         /\ \A n \in 1 .. 4 : \E k \in DOMAIN nbt' : nbt'[k] = NodesOf(j)'[n]
                    /\ stage' > Len(folders') + 2 =>
                         \E k \in DOMAIN nbt' : nbt'[k] = Node(MessageStore, 0, NoSubs, Advertised)
  BY DEF WrittenInv
<1>0. /\ Len(folders) \in Nat /\ stage \in Nat /\ Tree(folders) /\ DOMAIN folders = 1 .. Len(folders)
      /\ nbt \in Seq(ToSet(nbt)) /\ Closed = Len(folders) + 5 /\ Broken = Len(folders) + 6
  BY FolderCounts DEF IInv, StagesInv, NodesInv, Broken, Closed, FoldersInv
<1>1. stage' > 0 /\ stage' <= Closed'
  BY FolderCounts DEF Closed
<1>2. CASE finish
  <2>1. stage' = 1 /\ UNCHANGED folders
    BY <1>2 DEF finish
  <2> QED
    BY <1>0, <2>1
<1>3. ASSUME UNCHANGED folders, NEW j \in DOMAIN folders PROVE NodesOf(j)' = NodesOf(j)
  BY <1>3 DEF NodesOf, folderNodes, ChildSummaries
<1>4. ASSUME UNCHANGED folders, stage \in 1 .. Closed, NEW j \in DOMAIN folders, j < stage,
             \A k \in DOMAIN nbt : k \in DOMAIN nbt' /\ nbt'[k] = nbt[k]
      PROVE  /\ ~folders'[j].open
             /\ \A n \in 1 .. 4 : \E k \in DOMAIN nbt' : nbt'[k] = NodesOf(j)'[n]
  <2>1. ~folders[j].open /\ \A n \in 1 .. 4 : \E k \in DOMAIN nbt : nbt[k] = NodesOf(j)[n]
    BY <1>4 DEF IInv, WrittenInv
  <2>2. NodesOf(j)' = NodesOf(j)
    BY <1>3, <1>4
  <2> QED
    BY <1>4, <2>1, <2>2
<1>5. ASSUME stage \in 1 .. Closed, stage > Len(folders) + 2,
             \A k \in DOMAIN nbt : k \in DOMAIN nbt' /\ nbt'[k] = nbt[k]
      PROVE  \E k \in DOMAIN nbt' : nbt'[k] = Node(MessageStore, 0, NoSubs, Advertised)
  BY <1>5 DEF IInv, WrittenInv
<1>6. CASE writeFolder
  <2>1. stage \in DOMAIN folders /\ UNCHANGED folders /\ stage \in 1 .. Closed /\ Closed' = Closed
    BY <1>0, <1>6 DEF writeFolder, Closed
  <2>2. /\ ~folders[stage].open /\ nbt' = nbt \o NodesOf(stage) /\ stage' = stage + 1
    <3>1. stage' # Broken
      BY <1>0, <1>1, <2>1
    <3> QED
      BY <1>6, <3>1, Zenon DEF writeFolder, addNodes, NodesOf
  <2>3. NodesOf(stage) \in Seq(ToSet(NodesOf(stage))) /\ DOMAIN NodesOf(stage) = 1 .. 4
    BY <1>0, <2>1, FolderNids4
  <2>4. Join(nbt, NodesOf(stage), nbt')
    BY <1>0, <2>2, <2>3, Joined
  <2>5. \A k \in DOMAIN nbt : k \in DOMAIN nbt' /\ nbt'[k] = nbt[k]
    BY <2>4 DEF Join
  <2>6. ASSUME NEW j \in DOMAIN folders', j = stage
        PROVE  /\ ~folders'[j].open
               /\ \A n \in 1 .. 4 : \E k \in DOMAIN nbt' : nbt'[k] = NodesOf(j)'[n]
    <3>1. NodesOf(j)' = NodesOf(j) /\ NodesOf(j) = NodesOf(stage)
      BY <1>3, <2>1, <2>6
    <3>2. \A n \in 1 .. 4 : \E k \in DOMAIN nbt' : nbt'[k] = NodesOf(stage)[n]
      BY <2>3, <2>4 DEF Join
    <3> QED
      BY <2>1, <2>2, <2>6, <3>1, <3>2
  <2>7. ASSUME NEW j \in DOMAIN folders', j < stage' PROVE j < stage \/ j = stage
    BY <1>0, <2>1, <2>2, <2>7
  <2>8. ~(stage' > Len(folders') + 2)
    BY <1>0, <2>1, <2>2
  <2> QED
    BY <1>4, <2>1, <2>5, <2>6, <2>7, <2>8
<1>7. ASSUME UNCHANGED folders, stage \in (Len(folders) + 1) .. Closed,
             \A k \in DOMAIN nbt : k \in DOMAIN nbt' /\ nbt'[k] = nbt[k]
      PROVE  \A j \in DOMAIN folders' :
               /\ ~folders'[j].open
               /\ \A n \in 1 .. 4 : \E k \in DOMAIN nbt' : nbt'[k] = NodesOf(j)'[n]
  <2>1. stage \in 1 .. Closed /\ \A j \in DOMAIN folders' : j \in DOMAIN folders /\ j < stage
    BY <1>0, <1>7
  <2> QED
    BY <1>4, <1>7, <2>1
<1>8. CASE writeFixedNodes
  <2>1. PICK g \in 1 .. 3 : g = stage - Len(folders)
    BY <1>8 DEF writeFixedNodes
  <2>2. UNCHANGED folders /\ stage \in (Len(folders) + 1) .. Closed /\ Closed' = Closed
    BY <1>0, <1>8, <2>1 DEF writeFixedNodes, Closed
  <2>3. nbt' = nbt \o FixedNodes[g] /\ stage' = stage + 1
    BY <1>0, <1>1, <1>8, <2>1, <2>2 DEF writeFixedNodes, addNodes
  <2>4. Join(nbt, FixedNodes[g], nbt')
    BY <1>0, <2>3, Joined, FixedList
  <2>5. \A k \in DOMAIN nbt : k \in DOMAIN nbt' /\ nbt'[k] = nbt[k]
    BY <2>4 DEF Join
  <2>6. ASSUME stage' > Len(folders') + 2
        PROVE  \E k \in DOMAIN nbt' : nbt'[k] = Node(MessageStore, 0, NoSubs, Advertised)
    <3>1. g = 2 \/ stage > Len(folders) + 2
      BY <1>0, <2>1, <2>2, <2>3, <2>6
    <3>2. CASE g = 2
      <4>1. FixedNodes[g] = <<Node(MessageStore, 0, NoSubs, Advertised)>>
        BY <3>2, FixedList
      <4> DEFINE m == Node(MessageStore, 0, NoSubs, Advertised)
      <4> HIDE DEF m
      <4>2. 1 \in DOMAIN FixedNodes[g] /\ FixedNodes[g][1] = m
        BY <4>1 DEF m
      <4>3. \E k \in DOMAIN nbt' : nbt'[k] = m
        BY <2>4, <4>2 DEF Join
      <4> QED
        BY <4>3 DEF m
    <3>3. CASE stage > Len(folders) + 2
      <4>1. stage \in 1 .. Closed
        BY <1>0, <2>2
      <4> QED
        BY <1>5, <2>5, <3>3, <4>1
    <3> QED
      BY <3>1, <3>2, <3>3
  <2> QED
    BY <1>7, <2>2, <2>5, <2>6
<1>9. CASE finishNdb
  <2>1. /\ stage = Closed - 1 /\ UNCHANGED <<folders, nbt>>
    BY <1>9 DEF finishNdb
  <2>2. stage \in (Len(folders) + 1) .. Closed /\ stage > Len(folders) + 2 /\ stage \in 1 .. Closed
    BY <1>0, <2>1
  <2> QED
    BY <1>5, <1>7, <2>1, <2>2
<1> QED
  BY <1>1, <1>2, <1>6, <1>8, <1>9, StageZero

----------------------------------------------------------------------------
(* Rows and counters.                                                      *)

\* A folder whose messages did not change still matches.
LEMMA StillMatches ==
  ASSUME NEW f, NEW g, SameMessages(g, f), NEW nodes, NEW more, NEW filed,
         \A k \in filed : more[k] = nodes[k], Matches(f, nodes, filed)
  PROVE  Matches(g, more, filed)
<1>1. {more[k].nid : k \in filed} = {nodes[k].nid : k \in filed}
  OBVIOUS
<1>2. {k \in filed : more[k].holds.unread} = {k \in filed : nodes[k].holds.unread}
  OBVIOUS
<1> QED
  BY <1>1, <1>2 DEF Matches, SameMessages

\* Nothing was done to the messages of folder i.
LEMMA Undisturbed ==
  ASSUME IInv, NEW i \in DOMAIN folders, i \in DOMAIN folders',
         SameMessages(folders'[i], folders[i]), Sound(i)' => Sound(i), Filed(i)' = Filed(i),
         \A k \in DOMAIN nbt : nbt'[k] = nbt[k]
  PROVE  /\ Sound(i)' => Matches(folders'[i], nbt', Filed(i)')
         /\ folders'[i].count = Len(folders'[i].rows) /\ folders'[i].unread <= folders'[i].count
<1>1. /\ Sound(i) => Matches(folders[i], nbt, Filed(i))
      /\ folders[i].count = Len(folders[i].rows) /\ folders[i].unread <= folders[i].count
  BY DEF IInv, RowsInv
<1>2. \A k \in Filed(i) : nbt'[k] = nbt[k]
  BY DEF Filed, InboxOf
<1>3. ASSUME Sound(i)' PROVE Matches(folders'[i], nbt', Filed(i)')
  <2>1. Matches(folders[i], nbt, Filed(i))
    BY <1>1, <1>3
  <2>2. Matches(folders'[i], nbt', Filed(i))
    BY <1>2, <2>1, StillMatches
  <2> QED
    BY <2>2
<1> QED
  BY <1>1, <1>3 DEF SameMessages

\* The messages under a folder, when none is added and none is awaited.
LEMMA SameFiled ==
  ASSUME UNCHANGED nbt, NEW i, Awaited(i)' = Awaited(i)
  PROVE  Filed(i)' = Filed(i)
  BY DEF Filed, InboxOf

\* A folder is as it was.
LEMMA SameFolder == \A f : SameMessages(f, f)
  BY DEF SameMessages

\* The new folder has no messages.
LEMMA NewFolderEmpty ==
  ASSUME IInv, stage = 0, NEW i \in Nat \ {0}, i \notin DOMAIN folders
  PROVE  InboxOf(nbt, NidAt(i)) = {}
<1>1. ASSUME NEW k \in DOMAIN nbt PROVE nbt[k].parent # NidAt(i)
  <2>1. IsMessage(nbt[k], Spent)
    BY OnlyMessages
  <2>2. PICK f \in DOMAIN folders : nbt[k].parent = NidAt(f)
    BY <2>1 DEF IsMessage, MessageAt, Node
  <2>3. f \in Nat \ {0}
    BY DEF IInv, FoldersInv, Tree
  <2> QED
    BY <2>2, <2>3, Nids
<1> QED
  BY <1>1 DEF InboxOf

\* Nodes that are no messages leave the messages of every folder as they are.
LEMMA SameInbox ==
  ASSUME NEW s, NEW t, NEW u, Join(s, t, u), NEW nid,
         \A l \in DOMAIN t : t[l].nid % 32 # 4 \/ t[l].parent # nid
  PROVE  InboxOf(u, nid) = InboxOf(s, nid)
<1>1. /\ \A k \in DOMAIN s : k \in DOMAIN u /\ u[k] = s[k]
      /\ \A l \in DOMAIN t : u[Len(s) + l] = t[l]
      /\ \A k \in DOMAIN u : k \in DOMAIN s \/ \E l \in DOMAIN t : k = Len(s) + l
  BY DEF Join
<1>2. ASSUME NEW k \in DOMAIN u, u[k].parent = nid, u[k].nid % 32 = NormalMessage
      PROVE  k \in DOMAIN s /\ s[k] = u[k]
  BY <1>1, <1>2 DEF NormalMessage
<1>3. InboxOf(u, nid) \subseteq InboxOf(s, nid)
  BY <1>2 DEF InboxOf
<1>4. InboxOf(s, nid) \subseteq InboxOf(u, nid)
  BY <1>1 DEF InboxOf
<1> QED
  BY <1>3, <1>4

\* The row of a message whose node is there.
LEMMA RowCounted ==
  ASSUME NEW f \in FolderRecords, NEW nodes, NEW filed, IsFiniteSet(filed), NEW k0, k0 \notin filed,
         nodes[k0].holds.unread \in BOOLEAN, Matches(f, nodes, filed), nodes[k0].nid \in Nat
  PROVE  Matches(Counted(f, nodes[k0].nid, nodes[k0].holds.unread), nodes, filed \cup {k0})
<1> DEFINE nid == nodes[k0].nid
           unread == nodes[k0].holds.unread
           g == Counted(f, nid, unread)
           news == {k \in filed : nodes[k].holds.unread}
           more == {k \in filed \cup {k0} : nodes[k].holds.unread}
<1>1. /\ g.rows = Append(f.rows, nid) /\ g.count = f.count + 1
      /\ g.unread = IF unread THEN f.unread + 1 ELSE f.unread
  BY DEF Counted, FolderRecords
<1>2. /\ ToSet(f.rows) = {nodes[k].nid : k \in filed} /\ f.count = Cardinality(filed)
      /\ f.unread = Cardinality(news)
  BY DEF Matches
<1>3. ToSet(Append(f.rows, nid)) = ToSet(f.rows) \cup {nid}
  <2>1. f.rows \in Seq(Nat)
    BY DEF FolderRecords
  <2> DEFINE rs == Append(f.rows, nid)
  <2>2. /\ DOMAIN rs = 1 .. (Len(f.rows) + 1) /\ DOMAIN f.rows = 1 .. Len(f.rows)
        /\ Len(f.rows) \in Nat /\ \A i \in DOMAIN f.rows : rs[i] = f.rows[i]
        /\ rs[Len(f.rows) + 1] = nid
    BY <2>1, Appended
  <2> HIDE DEF rs
  <2>3. DOMAIN rs = DOMAIN f.rows \cup {Len(f.rows) + 1}
    BY <2>2
  <2>4. ToSet(rs) = ToSet(f.rows) \cup {nid}
    BY <2>2, <2>3 DEF ToSet
  <2> QED
    BY <2>4 DEF rs
<1>4. Cardinality(filed \cup {k0}) = Cardinality(filed) + 1
  BY FS_AddElement
<1>5. IsFiniteSet(news) /\ k0 \notin news
  <2>1. news \subseteq filed
    OBVIOUS
  <2> QED
    BY <2>1, FS_Subset
<1>6. Cardinality(more) = IF unread THEN Cardinality(news) + 1 ELSE Cardinality(news)
  <2>1. CASE unread
    <3>1. more = news \cup {k0}
      BY <2>1
    <3> QED
      BY <1>5, <2>1, <3>1, FS_AddElement
  <2>2. CASE ~unread
    <3>1. more = news
      BY <2>2
    <3> QED
      BY <2>2, <3>1
  <2> QED
    BY <2>1, <2>2
<1>7. ToSet(g.rows) = {nodes[k].nid : k \in filed \cup {k0}}
  BY <1>1, <1>2, <1>3
<1>8. g.count = Cardinality(filed \cup {k0})
  BY <1>1, <1>2, <1>4
<1>9. g.unread = Cardinality(more)
  BY <1>1, <1>2, <1>6
<1> HIDE DEF g
<1>10. Matches(g, nodes, filed \cup {k0})
  BY <1>7, <1>8, <1>9 DEF Matches
<1> QED
  BY <1>10 DEF g

\* The conjuncts of RowsInv for folder i, after a step.
RowsOf(i) ==
  /\ Sound(i) => Matches(folders[i], nbt, Filed(i))
  /\ folders[i].count = Len(folders[i].rows) /\ folders[i].unread <= folders[i].count

\* No row is being added or awaited before and after: nothing changes.
LEMMA QuietRows ==
  ASSUME IInv, NEW i \in DOMAIN folders, UNCHANGED <<folders, nbt>>,
         Awaited(i)' = Awaited(i), Sound(i)' => Sound(i)
  PROVE  RowsOf(i)'
<1>1. Filed(i)' = Filed(i)
  BY SameFiled
<1>2. SameMessages(folders'[i], folders[i]) /\ i \in DOMAIN folders'
  BY SameFolder
<1> QED
  BY <1>1, <1>2, Undisturbed DEF RowsOf

\* A message's node is written: its row is awaited.
LEMMA NodeRows ==
  ASSUME IInv, NodeWritten, NEW i \in DOMAIN folders
  PROVE  RowsOf(i)'
<1>1. /\ adding.step = "build" /\ UNCHANGED <<folders, bad>> /\ adding' = [adding EXCEPT !.step = "row"]
      /\ nbt' = nbt \o <<Node(adding.nid, folders[adding.folder].nid, buildMessage(adding.shape),
                              adding.shape)>>
  BY DEF NodeWritten, addNodes, Step
<1>2. /\ adding.folder \in DOMAIN folders
      /\ adding \in [step : {"build", "row", "cells", "end"}, folder : DOMAIN folders, nid : Nat,
                     shape : Shapes]
  BY <1>1, Target
<1>3. /\ Tree(folders) /\ nbt \in Seq(ToSet(nbt)) /\ DOMAIN folders \subseteq Nat \ {0}
  BY DEF IInv, FoldersInv, NodesInv, Tree
<1>4. folders[adding.folder].nid = NidAt(adding.folder)
  BY <1>2, <1>3 DEF Tree
<1>5. adding'.step = "row" /\ adding'.nid = adding.nid /\ adding'.folder = adding.folder
  BY <1>1, <1>2
<1> DEFINE m == MessageAt(adding.nid, adding.folder, adding.shape)
           t == <<m>>
<1>6. nbt' = nbt \o t
  BY <1>1, <1>4 DEF MessageAt
<1>7. m.nid = adding.nid /\ m.parent = NidAt(adding.folder)
  BY DEF MessageAt, Node
<1> HIDE DEF m
<1>8. t \in Seq({m}) /\ DOMAIN t = {1} /\ t[1] = m
  OBVIOUS
<1> HIDE DEF t
<1>9. Join(nbt, t, nbt')
  BY <1>3, <1>6, <1>8, OwnSet, Joined
<1>10. /\ \A k \in DOMAIN nbt : k \in DOMAIN nbt' /\ nbt'[k] = nbt[k]
       /\ \A k \in DOMAIN nbt' : k \in DOMAIN nbt \/ nbt'[k] = m
  BY <1>8, <1>9 DEF Join
<1>11. Awaited(i) = {}
  BY <1>1 DEF Awaited
<1>12. Filed(i)' = Filed(i)
  <2>1. Filed(i) = InboxOf(nbt, NidAt(i))
    BY <1>11 DEF Filed
  <2>2. CASE i # adding.folder
    <3>1. NidAt(adding.folder) # NidAt(i)
      BY <1>2, <1>3, <2>2, Nids
    <3>2. InboxOf(nbt', NidAt(i)) = InboxOf(nbt, NidAt(i))
      BY <1>7, <1>8, <1>9, <3>1, SameInbox
    <3>3. Awaited(i)' = {}
      BY <1>5, <2>2 DEF Awaited
    <3> QED
      BY <2>1, <3>2, <3>3 DEF Filed
  <2>3. CASE i = adding.folder
    <3>1. Awaited(i)' = {adding.nid}
      BY <1>5, <2>3 DEF Awaited
    <3>2. \A k \in DOMAIN nbt : nbt[k].nid # adding.nid
      BY <1>1, MessageNew
    <3>3. Filed(i)' = {k \in InboxOf(nbt', NidAt(i)) : nbt'[k].nid \notin {adding.nid}}
      BY <3>1 DEF Filed
    <3>4. {k \in InboxOf(nbt', NidAt(i)) : nbt'[k].nid \notin {adding.nid}}
            = InboxOf(nbt, NidAt(i))
      BY <1>7, <1>10, <3>2 DEF InboxOf
    <3> QED
      BY <2>1, <3>3, <3>4
  <2> QED
    BY <2>2, <2>3
<1>13. Sound(i)' => Sound(i)
  BY <1>1, <1>5 DEF Sound
<1>14. SameMessages(folders'[i], folders[i]) /\ i \in DOMAIN folders'
  BY <1>1, SameFolder
<1> QED
  BY <1>10, <1>12, <1>13, <1>14, Undisturbed DEF RowsOf

\* Nodes that are no messages are written.
LEMMA OtherRows ==
  ASSUME IInv, NEW i \in DOMAIN folders, UNCHANGED <<folders, adding>>, bad' \in {bad, TRUE},
         NEW t, t \in Seq(ToSet(t)), nbt' = nbt \o t, \A l \in DOMAIN t : t[l].nid % 32 # 4
  PROVE  RowsOf(i)'
<1>1. nbt \in Seq(ToSet(nbt))
  BY DEF IInv, NodesInv
<1>2. Join(nbt, t, nbt')
  BY <1>1, Joined
<1>3. \A k \in DOMAIN nbt : k \in DOMAIN nbt' /\ nbt'[k] = nbt[k]
  BY <1>2 DEF Join
<1>4. InboxOf(nbt', NidAt(i)) = InboxOf(nbt, NidAt(i))
  BY <1>2, SameInbox
<1>5. Awaited(i)' = Awaited(i)
  BY DEF Awaited
<1>6. InboxOf(nbt, NidAt(i)) \subseteq DOMAIN nbt
  BY DEF InboxOf
<1>7. Filed(i)' = Filed(i)
  BY <1>3, <1>4, <1>5, <1>6 DEF Filed
<1>8. Sound(i)' => Sound(i)
  BY DEF Sound
<1>9. SameMessages(folders'[i], folders[i]) /\ i \in DOMAIN folders'
  BY SameFolder
<1> QED
  BY <1>3, <1>7, <1>8, <1>9, Undisturbed DEF RowsOf

\* The row of a message begins, or is refused because an earlier one never
\* ended.
LEMMA BegunRows ==
  ASSUME IInv, RowBegun, NEW i \in DOMAIN folders
  PROVE  RowsOf(i)'
<1>1. adding.step = "row" /\ UNCHANGED <<nbt, bad>>
  BY DEF RowBegun
<1>2. /\ adding.folder \in DOMAIN folders /\ folders[adding.folder] \in FolderRecords
      /\ adding \in [step : {"build", "row", "cells", "end"}, folder : DOMAIN folders, nid : Nat,
                     shape : Shapes]
  BY <1>1, Target
<1>3. CASE folders[adding.folder].open /\ folders' = folders /\ adding' = Idle
  <2>1. adding'.step = "none"
    BY <1>3 DEF Idle
  <2>2. CASE i = adding.folder
    <3>1. ~Sound(i)'
      BY <1>3, <2>1, <2>2 DEF Sound
    <3>2. folders[i].count = Len(folders[i].rows) /\ folders[i].unread <= folders[i].count
      BY DEF IInv, RowsInv
    <3> QED
      BY <1>3, <3>1, <3>2 DEF RowsOf
  <2>3. CASE i # adding.folder
    <3>1. Awaited(i)' = Awaited(i)
      BY <2>1, <2>3 DEF Awaited
    <3>2. Sound(i)' => Sound(i)
      BY <1>1, <1>3, <2>1 DEF Sound
    <3> QED
      BY <1>1, <1>3, <3>1, <3>2, QuietRows
  <2> QED
    BY <2>2, <2>3
<1>4. CASE /\ ~folders[adding.folder].open /\ adding' = [adding EXCEPT !.step = "cells"]
           /\ folders' = [folders EXCEPT ![adding.folder] = Opened(folders[adding.folder])]
  <2>1. adding'.step = "cells" /\ adding'.nid = adding.nid /\ adding'.folder = adding.folder
    BY <1>2, <1>4
  <2>2. Awaited(i)' = Awaited(i)
    BY <1>1, <2>1 DEF Awaited
  <2>3. Filed(i)' = Filed(i)
    BY <1>1, <2>2, SameFiled
  <2>5. i \in DOMAIN folders' /\ (i # adding.folder => folders'[i] = folders[i])
    BY <1>4
  <2>6. CASE i # adding.folder
    <3>1. Sound(i)' => Sound(i)
      BY <1>1, <2>1, <2>5, <2>6 DEF Sound
    <3>2. SameMessages(folders'[i], folders[i])
      BY <2>5, <2>6, SameFolder
    <3> QED
      BY <1>1, <2>3, <2>5, <3>1, <3>2, Undisturbed DEF RowsOf
  <2>7. CASE i = adding.folder
    <3>1. folders'[i] = Opened(folders[i])
      BY <1>2, <1>4, <2>7
    <3>2. /\ folders'[i].rows = folders[i].rows /\ folders'[i].count = folders[i].count
          /\ folders'[i].unread = folders[i].unread
      BY <1>2, <2>7, <3>1 DEF Opened, FolderRecords
    <3>3. /\ Sound(i) => Matches(folders[i], nbt, Filed(i))
          /\ folders[i].count = Len(folders[i].rows) /\ folders[i].unread <= folders[i].count
      BY DEF IInv, RowsInv
    <3>4. Sound(i)' => Sound(i)
      BY <1>1, <1>4, <2>7 DEF Sound
    <3>5. Sound(i)' => Matches(folders'[i], nbt', Filed(i)')
      BY <1>1, <2>3, <3>2, <3>3, <3>4 DEF Matches
    <3> QED
      BY <3>2, <3>3, <3>5 DEF RowsOf
  <2> QED
    BY <2>6, <2>7
<1> QED
  BY <1>3, <1>4, BegunRow

\* The cells of a row are set, or not: the row then stays open.
LEMMA CellsRows ==
  ASSUME IInv, CellsSet, NEW i \in DOMAIN folders
  PROVE  RowsOf(i)'
<1>1. adding.step = "cells" /\ UNCHANGED <<folders, nbt>> /\ folders[adding.folder].open
  BY DEF CellsSet, IInv, StagesInv
<1>2. adding \in [step : {"build", "row", "cells", "end"}, folder : DOMAIN folders, nid : Nat,
                  shape : Shapes]
  BY <1>1, Target
<1>3. CASE Step("end") /\ UNCHANGED bad
  <2>1. adding'.step = "end" /\ adding'.nid = adding.nid /\ adding'.folder = adding.folder
    BY <1>2, <1>3 DEF Step
  <2>2. Awaited(i)' = Awaited(i)
    BY <1>1, <2>1 DEF Awaited
  <2>3. Sound(i)' => Sound(i)
    BY <1>1, <1>3, <2>1 DEF Sound
  <2> QED
    BY <1>1, <2>2, <2>3, QuietRows
<1>4. CASE GiveUp /\ (UNCHANGED bad \/ bad' = TRUE)
  <2>1. adding'.step = "none"
    BY <1>4 DEF GiveUp, Idle
  <2>2. CASE i = adding.folder
    <3>1. ~Sound(i)'
      BY <1>1, <2>1, <2>2 DEF Sound
    <3>2. folders[i].count = Len(folders[i].rows) /\ folders[i].unread <= folders[i].count
      BY DEF IInv, RowsInv
    <3> QED
      BY <1>1, <3>1, <3>2 DEF RowsOf
  <2>3. CASE i # adding.folder
    <3>1. Awaited(i)' = Awaited(i)
      BY <2>1, <2>3 DEF Awaited
    <3>2. Sound(i)' => Sound(i)
      BY <1>1, <1>4, <2>1 DEF Sound
    <3> QED
      BY <1>1, <3>1, <3>2, QuietRows
  <2> QED
    BY <2>2, <2>3
<1> QED
  BY <1>3, <1>4 DEF CellsSet

\* The row ends, and the counters move; or it does not, and the database is
\* lost.
LEMMA EndedRows ==
  ASSUME IInv, RowEnded, NEW i \in DOMAIN folders
  PROVE  RowsOf(i)'
<1> DEFINE a == adding.folder
           f == folders[a]
<1>1. /\ adding.step = "end" /\ UNCHANGED nbt /\ adding' = Idle /\ adding'.step = "none"
  BY DEF RowEnded, GiveUp, Idle
<1>2. /\ a \in DOMAIN folders /\ f \in FolderRecords /\ adding.nid \in Nat
      /\ adding.shape.unread \in BOOLEAN
  BY <1>1, Target
<1>3. /\ folders[i].count = Len(folders[i].rows) /\ folders[i].unread <= folders[i].count
      /\ f.count = Len(f.rows) /\ f.unread <= f.count
      /\ Sound(a) => Matches(f, nbt, Filed(a))
  BY <1>2 DEF IInv, RowsInv
<1>4. /\ DOMAIN folders' = DOMAIN folders
      /\ \A j \in DOMAIN folders : j # a => folders'[j] = folders[j]
  BY RowKeeps
<1>5. CASE i # a
  <2>1. Awaited(i)' = Awaited(i)
    BY <1>1, <1>5 DEF Awaited
  <2>2. folders'[i] = folders[i] /\ i \in DOMAIN folders'
    BY <1>4, <1>5
  <2>3. bad' = bad \/ bad' = TRUE
    BY EndedRow
  <2>4. Sound(i)' => Sound(i)
    BY <1>1, <2>2, <2>3 DEF Sound
  <2>5. Filed(i)' = Filed(i)
    BY <1>1, <2>1, SameFiled
  <2>6. SameMessages(folders'[i], folders[i])
    BY <2>2, SameFolder
  <2> QED
    BY <1>1, <2>2, <2>4, <2>5, <2>6, Undisturbed DEF RowsOf
<1>6. CASE i = a /\ bad' = TRUE
           /\ folders' = [folders EXCEPT ![a] = Dropped(f)]
  <2>1. ~Sound(i)'
    BY <1>6 DEF Sound
  <2>2. folders'[i] = Dropped(f)
    BY <1>2, <1>6
  <2>3. folders'[i].count = f.count /\ folders'[i].rows = f.rows /\ folders'[i].unread = f.unread
    BY <1>2, <2>2 DEF Dropped, FolderRecords
  <2> QED
    BY <1>3, <2>1, <2>3 DEF RowsOf
<1>7. CASE i = a /\ bad' = bad
           /\ folders' = [folders EXCEPT ![a] = Counted(f, adding.nid, adding.shape.unread)]
  <2> DEFINE g == Counted(f, adding.nid, adding.shape.unread)
  <2>1. folders'[i] = g
    BY <1>2, <1>7
  <2>2. /\ g.rows = Append(f.rows, adding.nid) /\ g.count = f.count + 1
        /\ g.unread = IF adding.shape.unread THEN f.unread + 1 ELSE f.unread
    BY <1>2 DEF Counted, FolderRecords
  <2>3. g.count = Len(g.rows) /\ g.unread <= g.count
    <3>1. f.rows \in Seq(Nat) /\ f.count \in Nat /\ f.unread \in Nat
      BY <1>2 DEF FolderRecords
    <3>2. Len(g.rows) = Len(f.rows) + 1
      BY <1>2, <2>2, <3>1
    <3> QED
      BY <1>3, <2>2, <3>1, <3>2
  <2> HIDE DEF g
  <2>4. ASSUME Sound(i)' PROVE Matches(g, nbt, Filed(i)')
    <3>1. Matches(f, nbt, Filed(a))
      <4>1. Sound(a)
        BY <1>1, <1>7, <2>4 DEF Sound
      <4> QED
        BY <1>3, <4>1
    <3>2. PICK k0 \in DOMAIN nbt : nbt[k0] = MessageAt(adding.nid, adding.folder, adding.shape)
      BY <1>1 DEF IInv, NodesInv
    <3>3. /\ nbt[k0].nid = adding.nid /\ nbt[k0].parent = NidAt(a) /\ nbt[k0].holds = adding.shape
      BY <3>2 DEF MessageAt, Node
    <3>4. Awaited(a) = {adding.nid} /\ Awaited(a)' = {}
      BY <1>1 DEF Awaited
    <3>5. \A k \in DOMAIN nbt : nbt[k].nid = adding.nid => k = k0
      BY <3>3 DEF IInv, NodesInv, Distinct
    <3>6. adding.nid % 32 = 4
      <4>1. nextMessage \in Nat /\ nextMessage > FirstUserNidIndex
            /\ adding.nid = 32 * (nextMessage - 1) + 4
        BY <1>1 DEF IInv, StagesInv
      <4>2. nextMessage - 1 \in Nat
        BY <4>1, Bounds
      <4> QED
        BY <4>1, <4>2, Split
    <3>7. k0 \in InboxOf(nbt, NidAt(a)) /\ InboxOf(nbt, NidAt(a)) \subseteq DOMAIN nbt
      BY <3>3, <3>6 DEF InboxOf, NormalMessage
    <3>8. k0 \notin Filed(a) /\ InboxOf(nbt, NidAt(a)) = Filed(a) \cup {k0}
      BY <3>3, <3>4, <3>5, <3>7 DEF Filed
    <3>9. Filed(i)' = Filed(a) \cup {k0}
      <4>1. Awaited(i)' = {}
        BY <1>1 DEF Awaited
      <4>2. Filed(i)' = InboxOf(nbt, NidAt(i))
        BY <1>1, <4>1 DEF Filed
      <4> QED
        BY <1>7, <3>8, <4>2
    <3>10. IsFiniteSet(Filed(a))
      <4>1. nbt \in Seq(ToSet(nbt))
        BY DEF IInv, NodesInv
      <4>2. DOMAIN nbt = 1 .. Len(nbt) /\ Len(nbt) \in Nat
        BY <4>1
      <4>3. Filed(a) \subseteq 1 .. Len(nbt)
        BY <3>7, <4>2 DEF Filed
      <4>4. IsFiniteSet(1 .. Len(nbt))
        BY <4>2, FS_Interval
      <4> QED
        BY <4>3, <4>4, FS_Subset
    <3>11. Matches(Counted(f, nbt[k0].nid, nbt[k0].holds.unread), nbt, Filed(a) \cup {k0})
      BY <1>2, <3>1, <3>3, <3>8, <3>10, RowCounted
    <3> QED
      BY <3>3, <3>9, <3>11 DEF g
  <2>5. Sound(i)' => Matches(folders'[i], nbt', Filed(i)')
    BY <1>1, <2>1, <2>4
  <2> QED
    BY <2>1, <2>3, <2>5 DEF RowsOf
<1> QED
  BY <1>5, <1>6, <1>7, EndedRow

\* A folder is created: it has no messages, and the others keep theirs.
LEMMA CreatedRows ==
  ASSUME IInv, NEW parent \in {IpmSubtree} \cup CallerFolders, createFolder(parent),
         NEW i \in DOMAIN folders'
  PROVE  RowsOf(i)'
<1>1. /\ stage = 0 /\ adding.step = "none" /\ UNCHANGED <<nbt, adding, bad>>
  BY DEF createFolder
<1>2. PICK p \in DOMAIN folders : folders' = makeFolder(folders, NidAt(Len(folders) + 1), NidAt(p))
  BY Created
<1>3. /\ Tree(folders) /\ DOMAIN folders = 1 .. Len(folders) /\ Len(folders) \in Nat
  BY DEF IInv, FoldersInv, Tree
<1>4. DOMAIN folders' = 1 .. (Len(folders) + 1)
  BY <1>2, <1>3, Made
<1>5. /\ \A j \in DOMAIN folders : SameMessages(folders'[j], folders[j])
      /\ Unused(folders'[Len(folders) + 1])
  BY <1>2, <1>3, MadeFields
<1>6. Awaited(i)' = Awaited(i) /\ Awaited(i) = {}
  BY <1>1 DEF Awaited
<1>7. Filed(i)' = Filed(i)
  BY <1>1, <1>6, SameFiled
<1>8. CASE i \in DOMAIN folders
  <2>1. SameMessages(folders'[i], folders[i])
    BY <1>5, <1>8
  <2>2. Sound(i)' => Sound(i)
    BY <1>1, <2>1 DEF Sound, SameMessages
  <2> QED
    BY <1>1, <1>7, <1>8, <2>1, <2>2, Undisturbed DEF RowsOf
<1>9. CASE i = Len(folders) + 1
  <2>1. i \in Nat \ {0} /\ i \notin DOMAIN folders
    BY <1>3, <1>9
  <2>2. InboxOf(nbt, NidAt(i)) = {}
    BY <1>1, <2>1, NewFolderEmpty
  <2>3. Filed(i)' = {}
    BY <1>7, <2>2 DEF Filed
  <2>4. /\ folders'[i].rows = <<>> /\ folders'[i].count = 0 /\ folders'[i].unread = 0
    BY <1>5, <1>9 DEF Unused
  <2>5. ToSet(<<>>) = {} /\ Len(<<>>) = 0
    BY DEF ToSet
  <2>6. Matches(folders'[i], nbt', {})
    BY <2>4, <2>5, FS_EmptySet DEF Matches
  <2> QED
    BY <2>3, <2>4, <2>5, <2>6 DEF RowsOf
<1> QED
  BY <1>3, <1>4, <1>8, <1>9

\* Rows and counters go on matching the messages.
LEMMA RowsStep == IInv /\ Next => RowsInv'
<1> SUFFICES ASSUME IInv, Next, NEW i \in DOMAIN folders' PROVE RowsOf(i)'
  BY DEF RowsInv, RowsOf
<1>0. Tree(folders) /\ Len(folders) \in Nat
  BY DEF IInv, FoldersInv, Tree
<1>1. ASSUME NEW parent \in {IpmSubtree} \cup CallerFolders, createFolder(parent) PROVE RowsOf(i)'
  BY <1>1, CreatedRows
<1>2. ASSUME NEW f, NEW shape, addMessage(f, shape) PROVE RowsOf(i)'
  <2>1. /\ adding.step = "none" /\ adding'.step = "build" /\ UNCHANGED <<folders, nbt, bad>>
    BY <1>2 DEF addMessage
  <2>2. Awaited(i)' = Awaited(i)
    BY <2>1 DEF Awaited
  <2>3. Sound(i)' => Sound(i)
    BY <2>1 DEF Sound
  <2> QED
    BY <2>1, <2>2, <2>3, QuietRows
<1>3. ASSUME BuildRefused PROVE RowsOf(i)'
  <2>1. /\ adding.step = "build" /\ adding'.step = "none" /\ UNCHANGED <<folders, nbt>>
        /\ bad' \in {bad, TRUE}
    BY <1>3 DEF BuildRefused, GiveUp, Idle
  <2>2. Awaited(i)' = Awaited(i)
    BY <2>1 DEF Awaited
  <2>3. Sound(i)' => Sound(i)
    BY <2>1 DEF Sound
  <2> QED
    BY <2>1, <2>2, <2>3, QuietRows
<1>4. ASSUME NodeWritten PROVE RowsOf(i)'
  <2>1. i \in DOMAIN folders
    BY <1>4 DEF NodeWritten
  <2> QED
    BY <1>4, <2>1, NodeRows
<1>5. ASSUME RowBegun PROVE RowsOf(i)'
  <2>1. i \in DOMAIN folders
    BY <1>5, RowKeeps
  <2> QED
    BY <1>5, <2>1, BegunRows
<1>6. ASSUME CellsSet PROVE RowsOf(i)'
  <2>1. i \in DOMAIN folders
    BY <1>6 DEF CellsSet
  <2> QED
    BY <1>6, <2>1, CellsRows
<1>7. ASSUME RowEnded PROVE RowsOf(i)'
  <2>1. i \in DOMAIN folders
    BY <1>7, RowKeeps
  <2> QED
    BY <1>7, <2>1, EndedRows
<1>8. ASSUME UNCHANGED <<folders, nbt, adding>>, bad' \in {bad, TRUE} PROVE RowsOf(i)'
  <2>1. Awaited(i)' = Awaited(i)
    BY <1>8 DEF Awaited
  <2>2. Sound(i)' => Sound(i)
    BY <1>8 DEF Sound
  <2> QED
    BY <1>8, <2>1, <2>2, QuietRows
<1>9. ASSUME finish \/ finishNdb PROVE RowsOf(i)'
  BY <1>8, <1>9 DEF finish, finishNdb
<1>10. ASSUME writeFolder PROVE RowsOf(i)'
  <2>1. stage \in DOMAIN folders /\ UNCHANGED <<folders, adding>> /\ bad' \in {bad, TRUE}
    BY <1>10 DEF writeFolder
  <2>2. UNCHANGED nbt \/ nbt' = nbt \o NodesOf(stage)
    BY <1>10 DEF writeFolder, addNodes, NodesOf
  <2>3. /\ NodesOf(stage) \in Seq(ToSet(NodesOf(stage))) /\ DOMAIN NodesOf(stage) = 1 .. 4
        /\ \A n \in 1 .. 4 : NodesOf(stage)[n].nid = 32 * IndexAt(stage) + TypeOf(n)
        /\ IndexAt(stage) \in Nat
    BY <1>0, <2>1, FolderNids4
  <2>4. ASSUME NEW l \in DOMAIN NodesOf(stage) PROVE NodesOf(stage)[l].nid % 32 # 4
    <3>1. TypeOf(l) \in 0 .. 31 /\ TypeOf(l) # 4
      BY <2>3, Types
    <3>2. (32 * IndexAt(stage) + TypeOf(l)) % 32 = TypeOf(l)
      BY <2>3, <3>1, Split
    <3> QED
      BY <2>3, <3>1, <3>2
  <2>5. CASE nbt' = nbt \o NodesOf(stage)
    BY <2>1, <2>3, <2>4, <2>5, OtherRows
  <2> QED
    BY <1>8, <2>1, <2>2, <2>5
<1>11. ASSUME writeFixedNodes PROVE RowsOf(i)'
  <2>1. PICK g \in 1 .. 3 : g = stage - Len(folders)
    BY <1>11 DEF writeFixedNodes
  <2>2. UNCHANGED <<folders, adding>> /\ bad' \in {bad, TRUE}
    BY <1>11 DEF writeFixedNodes
  <2>3. UNCHANGED nbt \/ nbt' = nbt \o FixedNodes[g]
    BY <1>11, <2>1 DEF writeFixedNodes, addNodes
  <2>4. /\ FixedNodes[g] \in Seq(ToSet(FixedNodes[g]))
        /\ \A n \in DOMAIN FixedNodes[g] : FixedNodes[g][n].nid % 32 # 4
    BY FixedList DEF Apart
  <2>5. CASE nbt' = nbt \o FixedNodes[g]
    BY <2>2, <2>4, <2>5, OtherRows
  <2> QED
    BY <1>8, <2>2, <2>3, <2>5
<1> QED
  BY <1>1, <1>2, <1>3, <1>4, <1>5, <1>6, <1>7, <1>9, <1>10, <1>11 DEF Next

----------------------------------------------------------------------------
(* The theorems.                                                           *)

\* A new store is in the invariant.
LEMMA InitIInv == Init => IInv
<1> SUFFICES ASSUME Init PROVE IInv
  OBVIOUS
<1>1. /\ folders = InitialFolders /\ nbt = <<>> /\ nextFolder = FirstUserNidIndex + 7
      /\ nextMessage = FirstUserNidIndex /\ adding = Idle /\ stage = 0 /\ finished = FALSE
      /\ bad = FALSE
  BY DEF Init
<1>2. Growing(folders, 8)
  BY <1>1, Initial
<1>3. FoldersInv
  BY <1>1, <1>2, Bounds DEF Growing, FoldersInv
<1>4. adding.step = "none"
  BY <1>1 DEF Idle
<1>5. StagesInv
  <2>1. nextMessage \in Nat /\ nextMessage >= FirstUserNidIndex
    BY <1>1, Bounds
  <2>2. stage \in 0 .. Broken /\ stage # Closed
    BY <1>1, <1>2 DEF Broken, Closed, Growing
  <2>3. finished \in BOOLEAN /\ bad \in BOOLEAN /\ ~bad
    BY <1>1
  <2>4. finished <=> stage > 0
    BY <1>1
  <2> QED
    BY <1>4, <2>1, <2>2, <2>3, <2>4 DEF StagesInv
<1>6. DOMAIN nbt = {} /\ nbt \in Seq(ToSet(nbt))
  BY <1>1
<1>7. NodesInv
  BY <1>4, <1>6 DEF NodesInv, Distinct
<1>8. WrittenInv
  BY <1>1, <1>2 DEF WrittenInv, Closed, Growing
<1>9. RowsInv
  <2>1. ASSUME NEW i \in DOMAIN folders
        PROVE  /\ folders[i].count = Len(folders[i].rows) /\ folders[i].unread <= folders[i].count
               /\ Matches(folders[i], nbt, Filed(i))
    <3>1. folders[i].rows = <<>> /\ folders[i].count = 0 /\ folders[i].unread = 0
      BY <1>2 DEF Growing, Unused
    <3>2. Filed(i) = {}
      BY <1>6 DEF Filed, InboxOf
    <3>3. ToSet(<<>>) = {} /\ Len(<<>>) = 0
      BY DEF ToSet
    <3> QED
      BY <3>1, <3>2, <3>3, FS_EmptySet DEF Matches
  <2> QED
    BY <2>1 DEF RowsInv
<1> QED
  BY <1>3, <1>5, <1>7, <1>8, <1>9 DEF IInv

\* Every step preserves the invariant.
LEMMA StepIInv == IInv /\ [Next]_vars => IInv'
<1> SUFFICES ASSUME IInv, [Next]_vars PROVE IInv'
  OBVIOUS
<1>1. CASE Next
  BY <1>1, FoldersStep, StagesStep, NodesStep, WrittenStep, RowsStep DEF IInv
<1>2. CASE UNCHANGED vars
  <2>1. FoldersInv'
    BY <1>2 DEF vars, IInv, FoldersInv
  <2>2. StagesInv'
    BY <1>2 DEF vars, IInv, StagesInv, Broken, Closed
  <2>3. /\ \A j : NodesOf(j)' = NodesOf(j)
        /\ \A i : Filed(i)' = Filed(i) /\ (Sound(i)' <=> Sound(i))
    BY <1>2 DEF vars, NodesOf, folderNodes, ChildSummaries, Filed, Awaited, Sound
  <2>4. \A k : Kind(k)' <=> Kind(k)
    BY <1>2, <2>3 DEF vars, Kind, IsMessage, IsOfFolder, IsFixed, Spent
  <2>5. NodesInv'
    BY <1>2, <2>4 DEF vars, IInv, NodesInv
  <2>6. WrittenInv'
    BY <1>2, <2>3 DEF vars, IInv, WrittenInv, Closed
  <2>7. RowsInv'
    BY <1>2, <2>3 DEF vars, IInv, RowsInv
  <2> QED
    BY <2>1, <2>2, <2>5, <2>6, <2>7 DEF IInv
<1> QED
  BY <1>1, <1>2

\* The invariant holds in every behaviour.
LEMMA IInvAlways == Spec => []IInv
  BY InitIInv, StepIInv, PTL DEF Spec

\* The writer's members keep their types, counters never fall behind what they
\* count, and finish() runs through its stages only once it was called.
THEOREM TypeCorrect == Spec => []TypeOK
<1>1. IInv => TypeOK
  <2> SUFFICES ASSUME IInv PROVE TypeOK
    OBVIOUS
  <2>1. folders \in Seq(FolderRecords) /\ nextFolder = FirstUserNidIndex + Len(folders) - 1
        /\ Len(folders) \in Nat /\ Len(folders) >= 8
    BY DEF IInv, FoldersInv, Tree
  <2>2. ASSUME NEW i \in DOMAIN folders
        PROVE  /\ folders[i].nid \in Nat /\ folders[i].parent \in Nat /\ folders[i].open \in BOOLEAN
               /\ folders[i].count \in Nat /\ folders[i].unread \in 0 .. folders[i].count
    <3>1. folders[i] \in FolderRecords /\ folders[i].unread <= folders[i].count
      BY <2>1 DEF IInv, RowsInv
    <3>2. /\ folders[i].nid \in Nat /\ folders[i].parent \in Nat /\ folders[i].open \in BOOLEAN
          /\ folders[i].count \in Nat /\ folders[i].unread \in Nat
      BY <3>1 DEF FolderRecords
    <3>3. folders[i].unread \in 0 .. folders[i].count
      BY <3>1, <3>2
    <3> QED
      BY <3>2, <3>3
  <2>3. nextFolder \in Nat
    BY <2>1, Bounds
  <2>4. /\ nextMessage \in Nat /\ stage \in 0 .. Broken /\ (finished <=> stage > 0)
        /\ bad \in BOOLEAN /\ adding.step \in {"none", "build", "row", "cells", "end"}
    BY DEF IInv, StagesInv
  <2> QED
    BY <2>2, <2>3, <2>4 DEF TypeOK
<1> QED
  BY <1>1, IInvAlways, PTL

\* No identifier is registered twice: not by addMessage(), whose index is spent
\* even when the message is refused, not by the tables that take a folder's
\* index, and not by the fixed nodes of finish().
THEOREM NoNidTwice == Spec => []NidsUnique
<1>1. IInv => NidsUnique
  BY DEF IInv, NodesInv, Distinct, NidsUnique
<1> QED
  BY <1>1, IInvAlways, PTL

\* A reader finds the node it looks for.
LEMMA NodeFound ==
  ASSUME IInv, NEW k \in DOMAIN nbt
  PROVE  NodeOf(nbt[k].nid) = nbt[k]
<1>1. \A j \in DOMAIN nbt : nbt[j].nid = nbt[k].nid => j = k
  BY DEF IInv, NodesInv, Distinct
<1>2. (CHOOSE j \in DOMAIN nbt : nbt[j].nid = nbt[k].nid) = k
  BY <1>1
<1> QED
  BY <1>2 DEF NodeOf

\* What the nodes of a folder hold.
LEMMA FolderHolds ==
  ASSUME NEW j \in DOMAIN folders
  PROVE  /\ NodesOf(j)[1].nid = folders[j].nid /\ NodesOf(j)[1].parent = folders[j].parent
         /\ NodesOf(j)[1].holds = Summary(folders[j])
         /\ NodesOf(j)[2].nid = makeNid(HierarchyTable, nidIndex(folders[j].nid))
         /\ NodesOf(j)[2].holds = ChildSummaries(folders[j])
         /\ NodesOf(j)[3].nid = makeNid(ContentsTable, nidIndex(folders[j].nid))
         /\ NodesOf(j)[3].holds = folders[j].rows
  BY DEF NodesOf, folderNodes, Node

\* A reader of a closed store finds the nodes of every folder.
LEMMA ClosedFolder ==
  ASSUME IInv, stage = Closed, NEW j \in DOMAIN folders
  PROVE  /\ ~folders[j].open
         /\ NodeOf(folders[j].nid).parent = folders[j].parent
         /\ NodeOf(folders[j].nid).holds = Summary(folders[j])
         /\ NodeOf(makeNid(HierarchyTable, nidIndex(folders[j].nid))).holds
              = ChildSummaries(folders[j])
         /\ NodeOf(makeNid(ContentsTable, nidIndex(folders[j].nid))).holds = folders[j].rows
         /\ folders[j].nid \in NidsIn(nbt)
<1>1. DOMAIN folders = 1 .. Len(folders) /\ Len(folders) \in Nat
  BY DEF IInv, FoldersInv, Tree
<1>2. stage \in 1 .. Closed /\ j < stage
  BY <1>1 DEF Closed
<1>3. ~folders[j].open /\ \A n \in 1 .. 4 : \E k \in DOMAIN nbt : nbt[k] = NodesOf(j)[n]
  BY <1>2 DEF IInv, WrittenInv
<1>4. ASSUME NEW n \in 1 .. 4 PROVE NodeOf(NodesOf(j)[n].nid) = NodesOf(j)[n]
  <2>1. PICK k \in DOMAIN nbt : nbt[k] = NodesOf(j)[n]
    BY <1>3
  <2> QED
    BY <2>1, NodeFound
<1>5. NodeOf(NodesOf(j)[1].nid) = NodesOf(j)[1]
  BY <1>4
<1>6. NodeOf(NodesOf(j)[2].nid) = NodesOf(j)[2]
  BY <1>4
<1>7. NodeOf(NodesOf(j)[3].nid) = NodesOf(j)[3]
  BY <1>4
<1>8. folders[j].nid \in NidsIn(nbt)
  <2>1. PICK k \in DOMAIN nbt : nbt[k] = NodesOf(j)[1]
    BY <1>3
  <2> QED
    BY <2>1, FolderHolds DEF NidsIn
<1> QED
  BY <1>3, <1>5, <1>6, <1>7, <1>8, FolderHolds

\* The rows and counters of a folder in a closed store.
LEMMA ClosedRows ==
  ASSUME IInv, stage = Closed, NEW i \in DOMAIN folders
  PROVE  /\ Matches(folders[i], nbt, MessagesUnder(folders[i]))
         /\ folders[i].count = Len(folders[i].rows)
<1>1. /\ Tree(folders) /\ Len(folders) \in Nat /\ ~bad
      /\ (Sound(i) => Matches(folders[i], nbt, Filed(i)))
      /\ folders[i].count = Len(folders[i].rows)
  BY DEF IInv, FoldersInv, Tree, StagesInv, RowsInv
<1>2. adding.step = "none"
  <2>1. stage # 0
    BY <1>1 DEF Closed
  <2> QED
    BY <2>1, Target
<1>3. Sound(i)
  BY <1>1, ClosedFolder DEF Sound
<1>4. Filed(i) = InboxOf(nbt, NidAt(i))
  BY <1>2 DEF Filed, Awaited
<1>5. MessagesUnder(folders[i]) = InboxOf(nbt, NidAt(i))
  BY <1>1 DEF MessagesUnder, InboxOf, Tree
<1> QED
  BY <1>1, <1>3, <1>4, <1>5

\* The subnodes of a message: its attachment table lists its attachments.
LEMMA MessageSubs ==
  ASSUME NEW shape \in Shapes
  PROVE  LET subs  == buildMessage(shape)
             table == CHOOSE s \in subs : s.nid = AttachmentTable
         IN  /\ RecipientTable \in {s.nid : s \in subs}
             /\ table.subs = {s.nid : s \in subs} \ {RecipientTable, AttachmentTable}
<1> DEFINE D == DOMAIN shape.atts
           att(i) == [nid |-> makeNid(AttachmentNode, i), subs |-> attachmentSubs(shape.atts[i])]
           objects == {att(i) : i \in D}
           nids == {makeNid(AttachmentNode, i) : i \in D}
           recipients == [nid |-> RecipientTable, subs |-> {}]
           list == [nid |-> AttachmentTable, subs |-> nids]
           subs == buildMessage(shape)
           table == CHOOSE s \in subs : s.nid = AttachmentTable
<1>1. D \subseteq Nat
  BY WriterAssumption
<1>2. ASSUME NEW i \in D
      PROVE  makeNid(AttachmentNode, i) # RecipientTable /\ makeNid(AttachmentNode, i) # AttachmentTable
  <2>1. i \in Nat
    BY <1>1
  <2> QED
    BY <2>1 DEF makeNid, AttachmentNode, RecipientTable, AttachmentTable
<1>3. RecipientTable # AttachmentTable
  BY DEF RecipientTable, AttachmentTable
<1>4. subs = {recipients} \cup objects \cup {list}
  BY DEF buildMessage
<1>5. recipients.nid = RecipientTable /\ list.nid = AttachmentTable /\ list.subs = nids
  OBVIOUS
<1>6. \A i \in D : att(i).nid = makeNid(AttachmentNode, i)
  OBVIOUS
<1> HIDE DEF recipients, list, att, subs
<1>7. {s.nid : s \in objects} = nids
  BY <1>6
<1>8. \A s \in objects : s.nid # RecipientTable /\ s.nid # AttachmentTable
  BY <1>2, <1>6
<1> HIDE DEF objects, nids
<1>9. {s.nid : s \in subs} = {RecipientTable} \cup nids \cup {AttachmentTable}
  BY <1>4, <1>5, <1>7
<1>10. table = list
  <2>1. list \in subs /\ \A s \in subs : s.nid = AttachmentTable => s = list
    BY <1>3, <1>4, <1>5, <1>8
  <2> QED
    BY <1>5, <2>1
<1>11. nids = {s.nid : s \in subs} \ {RecipientTable, AttachmentTable}
  <2>1. RecipientTable \notin nids /\ AttachmentTable \notin nids
    BY <1>7, <1>8
  <2> QED
    BY <1>9, <2>1
<1> QED
  BY <1>5, <1>9, <1>10, <1>11 DEF subs

\* A node with the type of a message is a message.
LEMMA TypedMessage ==
  ASSUME IInv, NEW k \in DOMAIN nbt, nbt[k].nid % 32 = NormalMessage
  PROVE  \E shape \in Shapes : nbt[k].subs = buildMessage(shape)
<1>1. Kind(k) /\ Tree(folders)
  BY DEF IInv, NodesInv, FoldersInv
<1>2. CASE IsMessage(nbt[k], Spent)
  BY <1>2 DEF IsMessage, MessageAt, Node
<1>3. CASE IsOfFolder(nbt[k])
  <2>1. PICK j \in DOMAIN folders, n \in 1 .. 4 : nbt[k] = NodesOf(j)[n]
    BY <1>3 DEF IsOfFolder
  <2>2. nbt[k].nid = 32 * IndexAt(j) + TypeOf(n) /\ IndexAt(j) \in Nat
    BY <1>1, <2>1, FolderNids4
  <2>3. TypeOf(n) \in 0 .. 31 /\ TypeOf(n) # 4
    BY Types
  <2>4. nbt[k].nid % 32 = TypeOf(n)
    BY <2>2, <2>3, Split
  <2> QED
    BY <2>3, <2>4 DEF NormalMessage
<1>4. CASE IsFixed(nbt[k])
  BY <1>4, FixedList DEF IsFixed, Apart, NormalMessage
<1> QED
  BY <1>1, <1>2, <1>3, <1>4 DEF Kind

\* A folder is in the hierarchy table of its parent.
LEMMA ListedAbove ==
  ASSUME IInv, NEW i \in DOMAIN folders, folders[i].nid # RootFolder
  PROVE  \E p \in DOMAIN folders : /\ folders[i].parent = folders[p].nid
                                   /\ <<folders[i].nid, Summary(folders[i])>> \in ChildSummaries(folders[p])
<1>1. Tree(folders) /\ Listed(folders) /\ DOMAIN folders = 1 .. Len(folders) /\ Len(folders) \in Nat
  BY DEF IInv, FoldersInv, Tree
<1>2. folders[i].nid = NidAt(i)
  BY <1>1 DEF Tree
<1>3. i > 1
  <2>1. i # 1
    BY <1>2, Nids
  <2> QED
    BY <1>1, <2>1
<1>4. PICK p \in DOMAIN folders : folders[i].parent = NidAt(p)
  BY <1>1, <1>3 DEF Tree
<1>5. folders[p].nid = NidAt(p)
  BY <1>1 DEF Tree
<1>6. PICK k \in DOMAIN folders[p].children : folders[p].children[k] = NidAt(i)
  BY <1>1, <1>3, <1>4 DEF Listed
<1>7. folders[i].nid \in ToSet(folders[p].children)
  BY <1>2, <1>6 DEF ToSet
<1>8. <<folders[i].nid, Summary(folders[i])>> \in ChildSummaries(folders[p])
  BY <1>7 DEF ChildSummaries
<1> QED
  BY <1>4, <1>5, <1>8

\* A store that was closed is consistent, whatever messages addMessage() refused
\* on the way and wherever it gave up: a folder whose row stayed open is never
\* written, so every one that is agrees with its messages.
THEOREM ClosedIsConsistent == Spec => []StoreConsistent
<1>1. ASSUME IInv, stage = Closed
      PROVE  NodeOf(MessageStore).holds \subseteq (NidsIn(nbt) \cap FolderNids(folders))
  <2>1. /\ Tree(folders) /\ DOMAIN folders = 1 .. Len(folders) /\ Len(folders) \in Nat
        /\ Len(folders) >= 8
    BY <1>1 DEF IInv, FoldersInv, Tree
  <2>2. stage \in 1 .. Closed /\ stage > Len(folders) + 2
    BY <1>1, <2>1 DEF Closed
  <2>3. PICK k \in DOMAIN nbt : nbt[k] = Node(MessageStore, 0, NoSubs, Advertised)
    BY <1>1, <2>2 DEF IInv, WrittenInv
  <2>4. nbt[k].nid = MessageStore /\ nbt[k].holds = Advertised
    BY <2>3 DEF Node
  <2>5. NodeOf(MessageStore).holds = Advertised
    BY <1>1, <2>4, NodeFound
  <2>6. ASSUME NEW x \in Advertised PROVE \E j \in DOMAIN folders : x = NidAt(j)
    <3>1. CASE x = RootFolder
      <4>1. 1 \in DOMAIN folders
        BY <2>1
      <4> QED
        BY <3>1, <4>1, Nids
    <3>2. CASE \E n \in 1 .. 7 : x = Special(n)
      <4>1. PICK n \in 1 .. 7 : x = Special(n)
        BY <3>2
      <4>2. n + 1 \in DOMAIN folders /\ n \in Nat \ {0}
        BY <2>1
      <4> QED
        BY <4>1, <4>2, Nids
    <3> QED
      BY <3>1, <3>2 DEF Advertised
  <2>7. ASSUME NEW j \in DOMAIN folders PROVE NidAt(j) \in NidsIn(nbt) /\ NidAt(j) \in FolderNids(folders)
    <3>1. folders[j].nid = NidAt(j)
      BY <2>1 DEF Tree
    <3> QED
      BY <1>1, <3>1, ClosedFolder DEF FolderNids
  <2> QED
    BY <2>5, <2>6, <2>7
<1>2. ASSUME IInv, stage = Closed, NEW i \in DOMAIN folders
      PROVE  LET f     == folders[i]
                 own   == NodeOf(f.nid)
                 rows  == NodeOf(makeNid(ContentsTable, nidIndex(f.nid))).holds
                 above == NodeOf(makeNid(HierarchyTable, nidIndex(f.parent))).holds
                 inbox == MessagesUnder(f)
             IN  /\ own.parent = f.parent /\ own.holds.count = Len(rows)
                 /\ own.holds.count = Cardinality(inbox)
                 /\ own.holds.unread = Cardinality({k \in inbox : nbt[k].holds.unread})
                 /\ f.nid # RootFolder => <<f.nid, own.holds>> \in above
                 /\ ToSet(rows) = {nbt[k].nid : k \in inbox}
                 /\ \A k \in inbox :
                      LET table == CHOOSE s \in nbt[k].subs : s.nid = AttachmentTable
                      IN  /\ RecipientTable \in {s.nid : s \in nbt[k].subs}
                          /\ table.subs
                               = {s.nid : s \in nbt[k].subs} \ {RecipientTable, AttachmentTable}
  <2> DEFINE f     == folders[i]
             own   == NodeOf(f.nid)
             rows  == NodeOf(makeNid(ContentsTable, nidIndex(f.nid))).holds
             above == NodeOf(makeNid(HierarchyTable, nidIndex(f.parent))).holds
             inbox == MessagesUnder(f)
  <2>1. own.parent = f.parent /\ own.holds = Summary(f) /\ rows = f.rows
    BY <1>2, ClosedFolder
  <2>2. own.holds.count = f.count /\ own.holds.unread = f.unread
    BY <2>1 DEF Summary
  <2>3. Matches(f, nbt, inbox) /\ f.count = Len(f.rows)
    BY <1>2, ClosedRows
  <2>4. ASSUME f.nid # RootFolder PROVE <<f.nid, own.holds>> \in above
    <3>1. PICK p \in DOMAIN folders : /\ f.parent = folders[p].nid
                                      /\ <<f.nid, Summary(f)>> \in ChildSummaries(folders[p])
      BY <1>2, <2>4, ListedAbove
    <3>2. NodeOf(makeNid(HierarchyTable, nidIndex(folders[p].nid))).holds
            = ChildSummaries(folders[p])
      BY <1>2, ClosedFolder
    <3> QED
      BY <2>1, <3>1, <3>2
  <2>5. ASSUME NEW k \in inbox
        PROVE  LET table == CHOOSE s \in nbt[k].subs : s.nid = AttachmentTable
               IN  /\ RecipientTable \in {s.nid : s \in nbt[k].subs}
                   /\ table.subs = {s.nid : s \in nbt[k].subs} \ {RecipientTable, AttachmentTable}
    <3>1. k \in DOMAIN nbt /\ nbt[k].nid % 32 = NormalMessage
      BY DEF MessagesUnder
    <3>2. PICK shape \in Shapes : nbt[k].subs = buildMessage(shape)
      BY <1>2, <3>1, TypedMessage
    <3> QED
      BY <3>2, MessageSubs
  <2> HIDE DEF own, rows, above, inbox
  <2>6. /\ own.holds.count = Len(rows) /\ own.holds.count = Cardinality(inbox)
        /\ own.holds.unread = Cardinality({k \in inbox : nbt[k].holds.unread})
        /\ ToSet(rows) = {nbt[k].nid : k \in inbox}
    BY <2>1, <2>2, <2>3 DEF Matches
  <2> QED
    BY <2>1, <2>4, <2>5, <2>6 DEF own, rows, above, inbox
<1>3. IInv => StoreConsistent
  BY <1>1, <1>2 DEF StoreConsistent
<1> QED
  BY <1>3, IInvAlways, PTL

\* Every folder but the root is after its parent, so the first folder of a set
\* without the root has its parent outside the set: nobody walks up for ever.
LEMMA NoCycle ==
  ASSUME IInv, NEW nids \in SUBSET (FolderNids(folders) \ {RootFolder}), nids # {}
  PROVE  \E i \in DOMAIN folders : folders[i].nid \in nids /\ folders[i].parent \notin nids
<1>1. /\ Tree(folders) /\ DOMAIN folders = 1 .. Len(folders) /\ Len(folders) \in Nat
  BY DEF IInv, FoldersInv, Tree
<1> DEFINE places == {i \in DOMAIN folders : folders[i].nid \in nids}
<1>2. places \subseteq Nat /\ places # {}
  <2>1. PICK n \in nids : TRUE
    OBVIOUS
  <2>2. PICK i \in DOMAIN folders : folders[i].nid = n
    BY DEF FolderNids
  <2> QED
    BY <1>1, <2>2
<1>3. PICK i \in places : \A j \in places : i <= j
  <2> HIDE DEF places
  <2> QED
    BY <1>2, Least
<1>4. i \in DOMAIN folders /\ i \in Nat /\ folders[i].nid \in nids /\ folders[i].nid = NidAt(i)
  BY <1>1 DEF Tree
<1>5. i > 1
  <2>1. i # 1
    BY <1>4, Nids
  <2> QED
    BY <1>1, <1>4, <2>1
<1>6. PICK p \in DOMAIN folders : p < i /\ folders[i].parent = NidAt(p)
  BY <1>1, <1>4, <1>5 DEF Tree
<1>7. folders[p].nid = NidAt(p)
  BY <1>1 DEF Tree
<1>8. p \notin places
  <2>1. p \in Nat
    BY <1>1
  <2>2. ~(i <= p)
    BY <1>4, <1>6, <2>1
  <2> QED
    BY <1>3, <2>2, Zenon
<1>9. folders[i].parent \notin nids
  BY <1>6, <1>7, <1>8
<1> QED
  BY <1>4, <1>9

\* Where a folder is listed: the lister is its parent.
LEMMA ListedByParent ==
  ASSUME IInv, NEW i \in DOMAIN folders, NEW l \in Listings(NidAt(i))
  PROVE  i > 1 /\ l[1] \in DOMAIN folders /\ folders[i].parent = NidAt(l[1])
<1>1. /\ Tree(folders) /\ Listed(folders) /\ DOMAIN folders = 1 .. Len(folders)
      /\ Len(folders) \in Nat
  BY DEF IInv, FoldersInv, Tree
<1>2. /\ l[1] \in DOMAIN folders /\ l[2] \in DOMAIN folders[l[1]].children
      /\ folders[l[1]].children[l[2]] = NidAt(i)
  BY DEF Listings
<1>3. PICK j \in DOMAIN folders : j > 1 /\ NidAt(i) = NidAt(j) /\ folders[j].parent = NidAt(l[1])
  <2>1. \A a \in DOMAIN folders : \A b \in DOMAIN folders[a].children :
          \E j \in DOMAIN folders :
            j > 1 /\ folders[a].children[b] = NidAt(j) /\ folders[j].parent = NidAt(a)
    BY <1>1, Zenon DEF Listed
  <2>2. \E j \in DOMAIN folders : /\ j > 1 /\ folders[l[1]].children[l[2]] = NidAt(j)
                                 /\ folders[j].parent = NidAt(l[1])
    BY <1>2, <2>1, Zenon
  <2> QED
    BY <1>2, <2>2, Zenon
<1>4. i \in Nat \ {0} /\ j \in Nat \ {0}
  BY <1>1
<1>5. i = j
  BY <1>3, <1>4, Nids
<1> QED
  BY <1>2, <1>3, <1>5

\* A folder but the root is listed once, by its parent.
LEMMA ListedOnce ==
  ASSUME IInv, NEW i \in DOMAIN folders, i > 1
  PROVE  \E l \in Listings(NidAt(i)) :
           Listings(NidAt(i)) = {l} /\ folders[l[1]].nid = folders[i].parent
<1>1. /\ Tree(folders) /\ Listed(folders) /\ DOMAIN folders = 1 .. Len(folders)
      /\ Len(folders) \in Nat
  BY DEF IInv, FoldersInv, Tree
<1>2. PICK p \in DOMAIN folders : folders[i].parent = NidAt(p)
  BY <1>1 DEF Tree
<1>3. folders[p].nid = NidAt(p)
  BY <1>1 DEF Tree
<1>4. PICK k \in DOMAIN folders[p].children : folders[p].children[k] = NidAt(i)
  BY <1>1, <1>2 DEF Listed
<1>5. k \in 1 .. Len(folders)
  <2>1. folders[p].children \in Seq(Nat) /\ Len(folders[p].children) < Len(folders)
    <3>1. folders \in Seq(FolderRecords)
      BY <1>1 DEF Tree
    <3>2. folders[p] \in FolderRecords
      BY <1>1, <3>1
    <3>3. folders[p].children \in Seq(Nat)
      BY <3>2 DEF FolderRecords
    <3>4. Len(folders[p].children) < Len(folders)
      BY <1>1, Zenon DEF Listed
    <3> QED
      BY <3>3, <3>4
  <2>2. DOMAIN folders[p].children = 1 .. Len(folders[p].children) /\ Len(folders[p].children) \in Nat
    BY <2>1
  <2> QED
    BY <1>1, <2>1, <2>2
<1>6. <<p, k>> \in Listings(NidAt(i))
  BY <1>1, <1>4, <1>5 DEF Listings
<1>7. ASSUME NEW l \in Listings(NidAt(i)) PROVE l = <<p, k>>
  <2>1. l[1] \in DOMAIN folders /\ folders[i].parent = NidAt(l[1])
    BY ListedByParent
  <2>2. l[1] = p
    <3>1. l[1] \in Nat \ {0} /\ p \in Nat \ {0}
      BY <1>1, <2>1
    <3> QED
      BY <1>2, <2>1, <3>1, Nids
  <2>3. /\ l = <<l[1], l[2]>> /\ l[2] \in DOMAIN folders[p].children
        /\ folders[p].children[l[2]] = NidAt(i)
    BY <2>2 DEF Listings
  <2>4. l[2] = k
    BY <1>1, <1>4, <2>3 DEF Listed
  <2> QED
    BY <2>2, <2>3, <2>4
<1>8. Listings(NidAt(i)) = {<<p, k>>}
  BY <1>6, <1>7
<1> QED
  BY <1>2, <1>3, <1>6, <1>8

\* The folders form a tree under the root whose listings are those of the
\* parents, however many folders createFolder() made and in whatever order
\* (pst_writer.cpp:113, 251).
THEOREM FoldersFormTree == Spec => []FolderTree
<1>1. ASSUME IInv PROVE FolderTree
  <2>1. /\ Tree(folders) /\ DOMAIN folders = 1 .. Len(folders) /\ Len(folders) \in Nat
        /\ 1 \in DOMAIN folders
    BY <1>1 DEF IInv, FoldersInv, Tree
  <2>2. ASSUME NEW i \in DOMAIN folders PROVE folders[i].parent \in FolderNids(folders)
    <3>1. PICK p \in DOMAIN folders : folders[i].parent = NidAt(p)
      <4>1. i = 1 \/ i > 1
        BY <2>1
      <4> QED
        BY <2>1, <4>1 DEF Tree
    <3> QED
      BY <2>1, <3>1 DEF Tree, FolderNids
  <2>3. ASSUME NEW nids \in SUBSET (FolderNids(folders) \ {RootFolder}), nids # {}
        PROVE  \E i \in DOMAIN folders : folders[i].nid \in nids /\ folders[i].parent \notin nids
    BY <1>1, <2>3, NoCycle
  <2>4. ASSUME NEW i \in DOMAIN folders, folders[i].nid = RootFolder
        PROVE  folders[i].parent = RootFolder /\ Listings(RootFolder) = {}
    <3>1. i = 1
      <4>1. folders[i].nid = NidAt(i)
        BY <2>1 DEF Tree
      <4>2. RootFolder = NidAt(1)
        BY Nids
      <4>3. i \in Nat \ {0} /\ 1 \in Nat \ {0}
        BY <2>1
      <4>4. \A k, n \in Nat \ {0} : NidAt(k) = NidAt(n) => k = n
        BY Nids
      <4> QED
        BY <2>4, <4>1, <4>2, <4>3, <4>4, Zenon
    <3>2. folders[i].parent = RootFolder
      BY <2>1, <3>1, Nids DEF Tree
    <3>3. ASSUME NEW l \in Listings(NidAt(1)) PROVE FALSE
      BY <1>1, <2>1, ListedByParent
    <3> QED
      BY <3>2, <3>3, Nids
  <2>5. ASSUME NEW i \in DOMAIN folders, folders[i].nid # RootFolder
        PROVE  \E l \in Listings(folders[i].nid) :
                 Listings(folders[i].nid) = {l} /\ folders[l[1]].nid = folders[i].parent
    <3>1. folders[i].nid = NidAt(i)
      BY <2>1 DEF Tree
    <3>2. i # 1
      BY <2>5, <3>1, Nids
    <3>3. i > 1
      BY <2>1, <3>2
    <3> QED
      BY <1>1, <3>1, <3>3, ListedOnce
  <2> QED
    BY <2>2, <2>3, <2>4, <2>5 DEF FolderTree
<1> QED
  BY <1>1, IInvAlways, PTL
=============================================================================
