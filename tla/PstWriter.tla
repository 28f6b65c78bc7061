----------------------------- MODULE PstWriter -----------------------------
(***************************************************************************)
(* The store writer of src/src/pst/pst_writer.cpp: the folder tree, the    *)
(* messages filed under it, and the finish sequence that turns them into   *)
(* nodes.                                                                  *)
(*                                                                         *)
(* addMessage() is split where it can fail, because what it did before is  *)
(* never undone: the message index is spent, the message node may be       *)
(* registered, the folder's table may be inside a row.  The contents table *)
(* is the abstraction StreamingTable justifies: rows, an open row, room    *)
(* for a number of rows, and a finish() that fails once a row was refused. *)
(* Nodes carry what a reader takes from them.                              *)
(***************************************************************************)
EXTENDS Integers, Sequences, FiniteSets, SequencesExt

CONSTANTS
  FirstUserNidIndex,  \* kFirstUserNidIndex
  Shapes,             \* messages: [unread, atts], atts a sequence of "file" or "message"
  HeapRoom,           \* rows a contents table takes before its heap is full
  MaxUserFolders,     \* bound of the model: calls of createFolder
  MaxMessages         \* bound of the model: calls of addMessage

ASSUME WriterAssumption ==
  /\ FirstUserNidIndex \in Nat /\ FirstUserNidIndex > 64
  /\ HeapRoom \in Nat /\ MaxUserFolders \in Nat /\ MaxMessages \in Nat
  /\ \A s \in Shapes : s.unread \in BOOLEAN /\ s.atts \in Seq({"file", "message"})

VARIABLES
  folders,      \* folders_: [nid, parent, children, rows, open, count, unread]
  nbt,          \* the nodes registered with the node database, in order
  nextFolder,   \* next_folder_index_
  nextMessage,  \* next_message_index_
  adding,       \* the locals of addMessage(), or Idle
  stage,        \* how far finish() got
  finished,     \* finished_
  bad           \* the node database can no longer write
vars == <<folders, nbt, nextFolder, nextMessage, adding, stage, finished, bad>>

----------------------------------------------------------------------------
(* Node identifiers (pst_format.h).                                        *)

makeNid(type, i) == 32 * i + type
nidIndex(nid) == nid \div 32

NormalFolder == 2
NormalMessage == 4
AttachmentNode == 5
HierarchyTable == 13
ContentsTable == 14
AssocContentsTable == 15
Ltp == 31

RootFolder == 290           \* kNidRootFolder
RecipientTable == 1682      \* kNidRecipientTable
AttachmentTable == 1649     \* kNidAttachmentTable
MessageStore == 33          \* kNidMessageStore
NameToIdMap == 97           \* kNidNameToIdMap

\* The nodes writeReservedNodes() registers: template tables, then the search
\* and index nodes Outlook expects.
Templates == <<makeNid(HierarchyTable, 48), makeNid(ContentsTable, 48),
               makeNid(AssocContentsTable, 48), makeNid(16, 48), makeNid(11, 49),
               makeNid(12, 50), makeNid(17, 51), makeNid(18, 52), makeNid(22, 53),
               makeNid(23, 54), makeNid(24, 55)>>
Reserved == Templates \o <<513, 609, 3073, 3585, 481, 3649, 3777, 3873>>

----------------------------------------------------------------------------
(* Folders.                                                                *)

Folder(nid, parent) ==
  [nid |-> nid, parent |-> parent, children |-> <<>>, rows |-> <<>>, open |-> FALSE,
   count |-> 0, unread |-> 0]

FolderNids(fs) == {fs[i].nid : i \in DOMAIN fs}

\* makeFolder(): a folder goes to the end of the list and to its parent's children.
makeFolder(fs, nid, parent) ==
  Append([i \in DOMAIN fs |->
            IF fs[i].nid = parent THEN [fs[i] EXCEPT !.children = Append(@, nid)] ELSE fs[i]],
         Folder(nid, parent))

\* init(): the root, which is its own parent, and the folders the message store
\* advertises.  Special(k) is the k-th folder made after the root.
Special(k) == makeNid(NormalFolder, FirstUserNidIndex + k - 1)
IpmSubtree == Special(1)

InitialFolders ==
  LET root    == <<Folder(RootFolder, RootFolder)>>
      subtree == makeFolder(root, IpmSubtree, RootFolder)
      deleted == makeFolder(subtree, Special(2), IpmSubtree)
      sent    == makeFolder(deleted, Special(3), IpmSubtree)
      outbox  == makeFolder(sent, Special(4), IpmSubtree)
      search  == makeFolder(outbox, Special(5), RootFolder)
      views   == makeFolder(search, Special(6), RootFolder)
  IN  makeFolder(views, Special(7), RootFolder)

Advertised == {RootFolder} \cup {Special(k) : k \in 1..7}

\* Fault: the parent is not told of its new child.
createFolder_Unlisted(parent) ==
  /\ stage = 0 /\ adding.step = "none"
  /\ nextFolder < FirstUserNidIndex + 7 + MaxUserFolders
  /\ folders' = Append(folders, Folder(makeNid(NormalFolder, nextFolder), parent))
  /\ nextFolder' = nextFolder + 1
  /\ UNCHANGED <<nbt, nextMessage, adding, stage, finished, bad>>

createFolder(parent) ==
  /\ stage = 0 /\ adding.step = "none"
  /\ nextFolder < FirstUserNidIndex + 7 + MaxUserFolders
  /\ folders' = makeFolder(folders, makeNid(NormalFolder, nextFolder), parent)
  /\ nextFolder' = nextFolder + 1
  /\ UNCHANGED <<nbt, nextMessage, adding, stage, finished, bad>>

----------------------------------------------------------------------------
(* Nodes.  writeNodeFromHeap() writes data and subnodes, then registers.   *)

NoSubs == {}
Node(nid, parent, subs, holds) == [nid |-> nid, parent |-> parent, subs |-> subs, holds |-> holds]

addNodes(nodes) == nbt' = nbt \o nodes

----------------------------------------------------------------------------
(* Messages.                                                               *)

Idle == [step |-> "none"]

\* The subnodes of an attachment object: a nested message or the payload.
attachmentSubs(kind) ==
  IF kind = "message" THEN {makeNid(NormalMessage, 1)} ELSE {makeNid(Ltp, 1)}

\* buildMessage(): the recipient table, one object per attachment and the
\* attachment table, which is there even when it is empty.
buildMessage(shape) ==
  {[nid |-> RecipientTable, subs |-> {}]}
    \cup {[nid |-> makeNid(AttachmentNode, i), subs |-> attachmentSubs(shape.atts[i])] :
            i \in DOMAIN shape.atts}
    \cup {[nid |-> AttachmentTable, subs |-> {makeNid(AttachmentNode, i) : i \in DOMAIN shape.atts}]}

\* Fault: the message index is not spent.
addMessage_SameIndex(f, shape) ==
  /\ stage = 0 /\ adding.step = "none"
  /\ nextMessage < FirstUserNidIndex + MaxMessages
  /\ adding' = [step |-> "build", folder |-> f, nid |-> makeNid(NormalMessage, nextMessage),
                shape |-> shape]
  /\ UNCHANGED <<folders, nbt, nextFolder, nextMessage, stage, finished, bad>>

addMessage(f, shape) ==
  /\ stage = 0 /\ adding.step = "none"
  /\ nextMessage < FirstUserNidIndex + MaxMessages
  /\ nextMessage' = nextMessage + 1
  /\ adding' = [step |-> "build", folder |-> f, nid |-> makeNid(NormalMessage, nextMessage),
                shape |-> shape]
  /\ UNCHANGED <<folders, nbt, nextFolder, stage, finished, bad>>

Step(s) == adding' = [adding EXCEPT !.step = s]
GiveUp == adding' = Idle

\* A property no format allows, or a failed write: no node is registered.
BuildRefused ==
  /\ adding.step = "build"
  /\ GiveUp /\ bad' \in {bad, TRUE}
  /\ UNCHANGED <<folders, nbt, nextFolder, nextMessage, stage, finished>>

NodeWritten ==
  /\ adding.step = "build" /\ ~bad
  /\ addNodes(<<Node(adding.nid, folders[adding.folder].nid, buildMessage(adding.shape), adding.shape)>>)
  /\ Step("row")
  /\ UNCHANGED <<folders, nextFolder, nextMessage, stage, finished, bad>>

\* beginRow() refuses while an earlier row was never ended.
RowBegun ==
  /\ adding.step = "row"
  /\ IF folders[adding.folder].open
     THEN GiveUp /\ UNCHANGED folders
     ELSE Step("cells") /\ folders' = [folders EXCEPT ![adding.folder].open = TRUE]
  /\ UNCHANGED <<nbt, nextFolder, nextMessage, stage, finished, bad>>

\* The cells go to the table's heap, which may be full or fail to be written.
HeapFull == Len(folders[adding.folder].rows) >= HeapRoom

\* Fault: a refused row is closed, so that the table can still be finished.
CellsSet_ClosesRow ==
  /\ adding.step = "cells"
  /\ \/ ~HeapFull /\ Step("end") /\ UNCHANGED <<bad, folders>>
     \/ /\ HeapFull /\ GiveUp /\ UNCHANGED bad
        /\ folders' = [folders EXCEPT ![adding.folder].open = FALSE]
     \/ GiveUp /\ bad' = TRUE /\ UNCHANGED folders
  /\ UNCHANGED <<nbt, nextFolder, nextMessage, stage, finished>>

CellsSet ==
  /\ adding.step = "cells"
  /\ \/ ~HeapFull /\ Step("end") /\ UNCHANGED bad
     \/ HeapFull /\ GiveUp /\ UNCHANGED bad
     \/ GiveUp /\ bad' = TRUE
  /\ UNCHANGED <<folders, nbt, nextFolder, nextMessage, stage, finished>>

\* endRow(), and only then the counters.
RowEnded ==
  /\ adding.step = "end"
  /\ \/ /\ folders' = [folders EXCEPT
              ![adding.folder].open = FALSE,
              ![adding.folder].rows = Append(@, adding.nid),
              ![adding.folder].count = @ + 1,
              ![adding.folder].unread = IF adding.shape.unread THEN @ + 1 ELSE @]
        /\ UNCHANGED bad
     \/ folders' = [folders EXCEPT ![adding.folder].open = FALSE] /\ bad' = TRUE
  /\ GiveUp
  /\ UNCHANGED <<nbt, nextFolder, nextMessage, stage, finished>>

----------------------------------------------------------------------------
(* finish(): folders one by one, reserved nodes, message store, name map,  *)
(* node database.  A stage that fails ends the store; the destructor's     *)
(* second call of finish() finds finished_ set and returns.                *)

Closed == Len(folders) + 5
Broken == Closed + 1

\* Fault: a second call is not told from the first.
finish_Unmarked ==
  /\ adding.step = "none" /\ ~finished
  /\ stage' = 1
  /\ UNCHANGED <<folders, nbt, nextFolder, nextMessage, adding, finished, bad>>

\* The call itself, from run() or from the destructor.
finish ==
  /\ adding.step = "none" /\ ~finished
  /\ finished' = TRUE /\ stage' = 1
  /\ UNCHANGED <<folders, nbt, nextFolder, nextMessage, adding, bad>>

\* The nodes of one folder: itself and its hierarchy, contents and associated
\* contents tables.  A hierarchy row repeats what the child says of itself.
Summary(f) == [count |-> f.count, unread |-> f.unread, subfolders |-> f.children # <<>>]

ChildSummaries(f) ==
  {<<folders[i].nid, Summary(folders[i])>> :
     i \in {j \in DOMAIN folders : folders[j].nid \in ToSet(f.children)}}

folderNodes(f) ==
  <<Node(f.nid, f.parent, NoSubs, Summary(f)),
    Node(makeNid(HierarchyTable, nidIndex(f.nid)), f.nid, NoSubs, ChildSummaries(f)),
    Node(makeNid(ContentsTable, nidIndex(f.nid)), f.nid, NoSubs, f.rows),
    Node(makeNid(AssocContentsTable, nidIndex(f.nid)), f.nid, NoSubs, {})>>

\* A table that refused a row cannot be finished.
writeFolder ==
  /\ stage \in DOMAIN folders
  /\ \/ /\ ~bad /\ ~folders[stage].open
        /\ addNodes(folderNodes(folders[stage])) /\ stage' = stage + 1 /\ UNCHANGED bad
     \/ stage' = Broken /\ bad' \in {bad, TRUE} /\ UNCHANGED nbt
  /\ UNCHANGED <<folders, nextFolder, nextMessage, adding, finished>>

\* The three fixed groups of nodes, in the order of finish().
FixedNodes ==
  <<[i \in DOMAIN Reserved |-> Node(Reserved[i], 0, NoSubs, "furniture")],
    <<Node(MessageStore, 0, NoSubs, Advertised)>>,
    <<Node(NameToIdMap, 0, NoSubs, "names")>>>>

writeFixedNodes ==
  /\ stage - Len(folders) \in 1..3
  /\ \/ /\ ~bad
        /\ addNodes(FixedNodes[stage - Len(folders)]) /\ stage' = stage + 1 /\ UNCHANGED bad
     \/ stage' = Broken /\ bad' = TRUE /\ UNCHANGED nbt
  /\ UNCHANGED <<folders, nextFolder, nextMessage, adding, finished>>

\* ndb_.finish(): module Ndb.
finishNdb ==
  /\ stage = Closed - 1
  /\ \/ ~bad /\ stage' = Closed /\ UNCHANGED bad
     \/ stage' = Broken /\ bad' = TRUE
  /\ UNCHANGED <<folders, nbt, nextFolder, nextMessage, adding, finished>>

----------------------------------------------------------------------------
Init ==
  /\ folders = InitialFolders /\ nbt = <<>>
  /\ nextFolder = FirstUserNidIndex + 7 /\ nextMessage = FirstUserNidIndex
  /\ adding = Idle /\ stage = 0 /\ finished = FALSE /\ bad = FALSE

\* The pipeline creates folders under the subtree the user sees and below its
\* own, and files messages only in those.
CallerFolders == FolderNids(folders) \ Advertised

Next ==
  \/ \E parent \in {IpmSubtree} \cup CallerFolders : createFolder(parent)
  \/ \E f \in DOMAIN folders, shape \in Shapes : folders[f].nid \in CallerFolders /\ addMessage(f, shape)
  \/ BuildRefused
  \/ NodeWritten
  \/ RowBegun
  \/ CellsSet
  \/ RowEnded
  \/ finish
  \/ writeFolder
  \/ writeFixedNodes
  \/ finishNdb

Spec == Init /\ [][Next]_vars

----------------------------------------------------------------------------
(* Correctness.                                                            *)

NidsIn(nodes) == {nodes[i].nid : i \in DOMAIN nodes}
NodeOf(nid) == nbt[CHOOSE i \in DOMAIN nbt : nbt[i].nid = nid]

\* The writer's members keep their types; finish() runs through its stages only
\* once it was called.
TypeOK ==
  /\ \A i \in DOMAIN folders :
       /\ folders[i].nid \in Nat /\ folders[i].parent \in Nat /\ folders[i].open \in BOOLEAN
       /\ folders[i].count \in Nat /\ folders[i].unread \in 0 .. folders[i].count
  /\ nextFolder \in Nat /\ nextMessage \in Nat
  /\ adding.step \in {"none", "build", "row", "cells", "end"}
  /\ stage \in 0 .. Broken /\ (finished <=> stage > 0) /\ bad \in BOOLEAN

\* No identifier is registered twice, whether it comes from the message counter,
\* the folder counter, the tables named after a folder or the fixed set.
NidsUnique == \A i, j \in DOMAIN nbt : nbt[i].nid = nbt[j].nid => i = j

\* The places where a folder is listed as a child.
Listings(nid) ==
  {l \in (DOMAIN folders) \X (1 .. Len(folders)) :
     l[2] \in DOMAIN folders[l[1]].children /\ folders[l[1]].children[l[2]] = nid}

\* A reader that walks up from any folder reaches the root, which "is its own
\* parent" (pst_writer.cpp:113-116): every parent exists and there is no cycle, so
\* the walk leaves every set of folders the root is not in. And every folder but
\* the root is listed by exactly one folder, once: its parent.
FolderTree ==
  /\ \A i \in DOMAIN folders : folders[i].parent \in FolderNids(folders)
  /\ \A nids \in SUBSET (FolderNids(folders) \ {RootFolder}) :
       nids # {} =>
         \E i \in DOMAIN folders : folders[i].nid \in nids /\ folders[i].parent \notin nids
  /\ \A i \in DOMAIN folders :
       IF folders[i].nid = RootFolder
       THEN folders[i].parent = RootFolder /\ Listings(RootFolder) = {}
       ELSE \E l \in Listings(folders[i].nid) :
              Listings(folders[i].nid) = {l} /\ folders[l[1]].nid = folders[i].parent

MessagesUnder(f) ==
  {i \in DOMAIN nbt : nbt[i].parent = f.nid /\ nbt[i].nid % 32 = NormalMessage}

\* A store that was closed is consistent, whatever messages were refused on the
\* way and wherever: every folder's node, its parent's hierarchy row and its
\* contents table agree on the number of messages and of unread ones, the rows
\* are exactly the message nodes filed under it, and each message has its
\* recipient table and as many attachment objects as its attachment table says;
\* and every folder the message store advertises is real (pst_writer.cpp:119).
StoreConsistent ==
  stage = Closed =>
    /\ NodeOf(MessageStore).holds \subseteq (NidsIn(nbt) \cap FolderNids(folders))
    /\ \A i \in DOMAIN folders :
      LET f     == folders[i]
          own   == NodeOf(f.nid)
          rows  == NodeOf(makeNid(ContentsTable, nidIndex(f.nid))).holds
          above == NodeOf(makeNid(HierarchyTable, nidIndex(f.parent))).holds
          inbox == MessagesUnder(f)
      IN  /\ own.parent = f.parent /\ own.holds.count = Len(rows)
          /\ own.holds.count = Cardinality(inbox)
          /\ own.holds.unread = Cardinality({k \in inbox : nbt[k].holds.unread})
          /\ f.nid # RootFolder => <<f.nid, own.holds>> \in above
          /\ ToSet(rows) = {nbt[k].nid : k \in inbox}
          /\ \A k \in inbox :
               LET table == CHOOSE s \in nbt[k].subs : s.nid = AttachmentTable
               IN  /\ RecipientTable \in {s.nid : s \in nbt[k].subs}
                   /\ table.subs = {s.nid : s \in nbt[k].subs} \ {RecipientTable, AttachmentTable}
=============================================================================
