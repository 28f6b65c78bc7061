# A TLA+ model of imap2pst

imap2pst walks the folders of an IMAP account, fetches and parses every message
and writes one Outlook PST file. It runs in a single thread; what makes it hard
is not concurrency but failure part way (a write, a request, a message, the
process itself), order (structures that are published before they are written,
answers in any order), boundaries (block, page, map, tree and identifier
limits that no test mailbox reaches) and texts whose content may look like their
own structure (IMAP literals, MIME boundaries, quoted addresses). This directory
models those parts and checks them with TLC; for the file, the store, the contents
tables, the name map, the data trees and the pipeline TLAPS proves the same
properties for every size, limit, mailbox and pattern of failures.

Paths below are relative to the repository; `ndb.cpp:52` is `src/pst/ndb.cpp`,
line 52. In `PROJECT.json`, paths start at the directory that holds the
repository, so the same file is `src/src/pst/ndb.cpp`.

## Inventory

| component | state | operations | interacts with | what is hard | what makes it correct |
|---|---|---|---|---|---|
| node database, `pst/ndb.*` | cursor, allocation maps, BID counter, `bbt_`, `nbt_`, the stream | `emitBlock`, `addNode`, `finish` | called by everything in `pst/` | reserved pages inside the data area, map ends, failed and buffered writes, what the header publishes | extents never overlap, maps are truthful, pages aligned, header last, trees searchable |
| data and subnode trees, `ndb.cpp:151-245` | none beyond one call | `writeData`, `writeLeafChunk`, `assembleDataTree`, `writeSubnodes` | contents tables, property contexts | one block or entry more than fits, the shorter last slice | every byte and every subnode is found again |
| contents table, `streaming_table.*`, `heap.h` | block 0, rolling block, leaves, row block, row index | `beginRow`, setters, `endRow`, `finish` | `PstWriter::addMessage`, `writeFolders` | blocks flushed under identifiers handed out earlier, block 0 last, index limits, a throw inside a row | a finished table reads back completely |
| store writer, `pst_writer.*` | folders, counters, `finished_` | `createFolder`, `addMessage`, `finish`, destructor | pipeline above, tables and database below | `addMessage` fails after part of its work, `finish` runs twice | identifiers unique, counts and rows agree, folder tree rooted |
| named properties, `nameid_map.*`, `applyHeaderProperties` | entries, sets | `idForString` | `buildMessage` | spellings, merged headers, a full map | one id per name, every stored id resolves |
| pipeline, `pipeline.*`, `main.cpp` | the locals of `run()`, the spool directory | one run, then another | IMAP client, parser, store writer | short batches, fallbacks, two loops that count failures, kills, restarts | every listed message is settled exactly once |
| IMAP client, `imap_client.*` | a connection | `listFolders`, `listMessages`, `fetchMessages`, `fetchMessage` | libcurl, `imap_parse.*` | retries, unsolicited, repeated and reordered lines | a message gets its own body or none, the listing says what the server said |
| IMAP parsing, `imap_parse.*`, `FolderInfo::path` | none | pure functions over the octets of an answer | client | literals that look like protocol, items in any order, modified UTF-7 with surrogates | what comes out is what the server meant |
| MIME, `mime/entity.cpp`, `message_builder.cpp`, `mime_parser.cpp` | the entity tree of one message | `parseEntity`, `buildMessage` | pipeline above, headers below | nesting past the limit, boundaries of several levels, sources that are cut off, parts competing for two bodies | the structure is recovered, each file is attached once, the right text becomes the body, what arrived is kept |
| mail headers, `mime/headers.cpp` | none | header blocks, parameters, encoded words, address lists | MIME | separators inside quotes, comments and groups, continuations in any order | parameters and recipients come out as they were meant |
| in-memory contexts, `heap.cpp`, `heap.h`, `ltp.cpp` | one node's values, its heap, its subnodes | property setters, `addColumn`, `addRow`, cells, `serialize` | store writer above, data and subnode trees below | heap blocks in step with data blocks, values that spill, a matrix in whole-row blocks | every property and cell is found again by a reader of the format |
| charsets, encodings, checksums, tags, command line | none | | | | not modelled |

The hazards of the code, each at its line with the properties that would catch
it, are listed in `PROJECT.json`.

## Modules

Each specification module has an `MC` module that defines the small sets its
configurations use. Operators whose name ends in a suffix after an underscore and
whose comment begins with "Fault:" are faulty versions of the definition they
precede; no specification uses them. They exist to show that each property
notices a plausible mistake in the code.

**Ndb** is `NdbWriter`. Offsets count 64-byte slots, the unit of the allocation
maps. `allocate()` is a loop in the code: an iteration that finds a reserved
page is the action `SkipReserved`, the one that finds none is the operator
`allocate`, which takes the range, marks it and draws the BID as all its callers
do next. A block is `emitBlock` (the call), any number of `SkipReserved`, and
`BlockWritten`; a B-tree page is `allocatePage`, the same loop, and
`PageWritten`. `build` holds the locals of `buildBTree()`; `finish`, `Pad`,
`emitFixedPages`, `writeHeader` and `Flush` are the stages of `finish()`. The
stream is `io`: what is on disk, what is still buffered, and whether an error
has occurred. Every write may succeed, stay in the buffer, or fail; after a
failure all later writes fail, as `writeAt()` checks a stream whose error state
nothing clears. The caller is any sequence of blocks and nodes.

**DataTree** is one call of `writeData`, of the streaming pair `writeLeafChunk`
and `assembleDataTree`, or of `writeSubnodes`. A value is its range of byte
positions; where blocks go in the file is Ndb's matter.

**Contexts** extends DataTree with its callers in memory: `HeapNode`,
`buildBthInto`, `SubnodeAllocator`, `PropertyContext` and `TableContext`. A
context is filled by its setters (`Set`, `addRow`, `SetCell`), turned into heap
blocks (`serializeProperties`, `serializeTable`), and then makes the calls of the
node database that its bytes need (`StartCall`, the actions of DataTree,
`CallReturned`): the values spilled meanwhile, the heap, the subnodes. Header and
page map lengths, record lengths, HIDs and NIDs are those of the format; a value
is its length and the number of the call that set it. The properties are stated by
a reader of the format: from the root of the written node through data tree, heap
block, page map, B-tree and subnode to the bytes.

**StreamingTable** is `StreamingHeap` and `TableContextWriter` with the BTH of
`heap.h`. A heap item carries what it is and its length; rendering a block is
its size. Calls are those of `addMessage()`: one row, `Columns` strings, the end
of the row. `kept` records the rows `addMessage()` completed.

**PstWriter** is the store. `addMessage()` is split where it can throw: the
index is spent (`addMessage`), the node is registered (`NodeWritten`) or not
(`BuildRefused`), the row begins, gets its cells, ends. The contents table is an
abstraction of StreamingTable: rows, an open row, room for so many, and a
`finish()` that fails after a refused row. That last point relies on sizes:
a heap that is full has at least 16384 rows behind it, whose index needs more than
one new heap block, so the table's `finish()` meets the limit again.
`finish()` is one action per folder, then the reserved nodes, message store,
name map and node database.

**NameIdMap** is the name-to-id map with its two users. Names are compared in
one case; a header's values are their places in the message.

**Pipeline** is `run()` and the exit status of `main()`, for up to `MaxRuns`
invocations. A body says which message it is the source of and whether it is
all of it. The batch has the vectors of the code. `LookUpSpool` is one turn of the
loop over the batch: it serves a message from the spool, or appends its listing
entry to `wanted` and its place to `wanted_at`. `FetchBatch` fills `got`, which is as
long as `wanted` and may have gaps. `Collect` is one turn of the loop over `wanted`:
what the batch fetch returned, or a single fetch, goes to the place that `wanted_at`
names, and a failure is counted under the UID of its entry. `Write` is one turn of
the loop over the batch after it. A body and a failure both carry the UID they were
asked or reported under, so a place that is not that of the entry shows.
`Restart` is a kill or the next invocation: only the spool survives.
**Migration** is what a run promises about messages and nothing else; Pipeline
implements it under the mapping `Status`.

**ImapText** is `imap_parse.cpp` with `FolderInfo::path`: lines and literals,
atoms and quoted strings, `FETCH` in both uses, `LIST`, flags, and modified UTF-7
down to bits, code units and surrogates. Text is a sequence of characters; a
keyword, a flag, a number and a date are one character each, everything the
parsers look at on its own is itself. Every loop of the parsers is a `Loop` over a
function that says what its turn at a position yields and where the next one starts.

**ImapFetch** is one call of `listFolders()`, `listMessages()`, `fetchMessage()` or
`fetchMessages()` with the retries under it. The server is external: it writes its
answer in any of the forms the protocol allows, in any order, with lines and items
nobody asked for, and names in any quoting. The parsers see only the octets;
`meant` is what the server meant by them, and the properties compare the two.
`FetchContract` is what Pipeline's `FetchBatch` assumes.

**MailHeaders** is `headers.cpp`: unfolding, splitting outside quotes, parameters
with their RFC 2231 continuations, encoded words and address lists with groups. An
encoded word, and an octet in percent notation, is one character that stands for
another.

**Mime** is `parseEntity()`, `buildMessage()` and `parse()` that calls them. The
sender is external: it writes a tree of parts and a list of recipients as a source,
of which any number of lines arrives. The state is what the sender meant, what
arrived, the entity tree and the message.

**NdbProofs**, **DataTreeProofs**, **StreamingTableProofs**, **PstWriterProofs**,
**NameIdMapProofs** and **PipelineProofs** hold the theorems about the module each
is named after, as **ImapFetchProofs** does for ImapFetch and ImapText, and
**NatLemmas** the facts about naturals that several of them need: division, least
and greatest elements, the rank of an element in a finite set, descents. Recursion in these modules is written as functions, so that the provers can
work with it.

How they fit: Pipeline calls ImapFetch for folders, listings and batches, Mime for
each source, and PstWriter for folders and messages; PstWriter owns one
StreamingTable per folder and one NameIdMap, and fills a context of Contexts for
every other node; all of them write through DataTree into Ndb. Contexts with
DataTree, ImapFetch with ImapText and Mime with MailHeaders are composed in one
state space. The others are composed by contract: each
lower module checks what the one above takes from it.

## Runs

| run | bounds | shows |
|---|---|---|
| `ndb_space` | pages of 2 slots, maps of 8, a page map every second map; blocks of 1 to 3 slots, 5 blocks | `NoOverlap`, `MapsTruthful`, `PagesAligned`, `HeaderLast`, `AppendOnly`. Every residue of the cursor within page and map happens, several maps are crossed, map and page map are adjacent, and the depth limit of the tree is met |
| `ndb_trees` | one-slot blocks, 6 of them, 3 nodes, 1 or 2 entries a page, three levels | `HeaderConsistent`, `TreesSearchable`, `Terminates` |
| `pipeline_batches` | 3 folders (one not selectable), 5 messages, two under one UID, one over the byte budget, batches of 2 messages or 4 bytes, 2 runs | `NothingLost`, `OwnSource`, `ListingOrder`, `ZeroMeansMigrated`, `NoRefetch`, `ImplementsMigration`, `Terminates` |
| `pipeline_exit` | the same | violated, see below |
| `pipeline_torn` | the same, without the repeated UID | violated, see below |
| `table_read` | 24-byte blocks of at most 3 items, 3 rows of 2 strings, block index up to 4, two of the blocks bitmap blocks | `BlocksFit`, `InStep`, `TableReadable`. Block 0 fills, blocks are flushed, rows fill a row block, strings spill, the index has two levels, and the index limit is met |
| `store` | 2 user folders, 3 messages of 2 shapes, room for 2 rows | `NidsUnique`, `FolderTree`, `StoreConsistent`, with the identifiers of the format; `addMessage()` fails at every point where it can |
| `names` | 3 names besides the structured one, one in two spellings, room for 2 besides categories, 2 messages of 2 headers | `OneIdPerName`, `PropertiesResolve`, `HeadersAddressable` |
| `contexts` | 40-byte data blocks, fanouts 3 (data) and 2 and 3 (subnodes), real header and record lengths, heap blocks of at most 3 items; lengths on both sides of every block, XBLOCK and XXBLOCK edge and of the total; every subset of 7 subnodes; fillings of up to 5 properties with 2 more set over or beside them; 4 column lists, 5 rows, 2 cells | `ValueReadable`, `SubnodesFound`, `PropertiesReadable`, `RowsReadable`. All three header kinds occur, values end on the last byte of a block and spill one byte later, the B-tree has two levels, the matrix lies in the heap or over several padded blocks |
| `imap` | batches of up to 3 messages over UIDs 3, 4 and 9, in any order and repeated, one UID nobody asked for, answers of 2 lines in 5 forms, bodies that are `FETCH` lines, unclosed quotes and literals; folder names of up to 2 components from 10 characters (among them `&`, a quote, a backslash, the delimiter, one, two and four byte characters), 3 notations; 2 attempts | `FetchContract`, `ListingExact`, `NamesRoundTrip`, `FetchReturns` |
| `mime` | nesting limit 2; leaves of 8 styles alone, in pairs under two multiparts, nested, in a multipart inside an alternative, forwarded, past the limit and without a boundary; each source whole and cut after every line; address lists of groups and mailboxes in 6 notations with separators in every place | `StructureRecovered`, `TruncationKept`, `PartsFiled`, `AddressesRecovered` |
| `mime_whole` | the same | violated, see below |

Some bounds leave a case to the proofs alone. In `store` three messages in a table with
room for two rows never refuse a row that is already open; `StoreConsistent` is proved
for every room and number of messages. In `imap` the number of attempts is 2; that an
option below one still makes an attempt is part of `FetchContract`, which is proved for
every option. Others are limits of what is said. In `imap` an item nobody asked for has a
value that spells no key of the parser. In `mime` the boundaries of siblings are
equal and those of levels differ, and every text has lines.

Deadlock is not checked: every one of these programs comes to an end. That it
does is what `Terminates` (Ndb and Pipeline) and `FetchReturns` say.

**Fairness** is weak fairness of the program's own steps. The code is one thread
that blocks on nothing but the disk and the server. In ImapFetch it is that of the
request and of its failure: a request ends because `CURLOPT_TIMEOUT` bounds it. Nothing is assumed of `Restart`, nor that any
write or request succeeds.

### Where code and text disagree

Three runs are expected to fail; each states a sentence of the repository.

* `pipeline_exit`: exit status 0 does not mean that everything migrated. A folder
  whose listing fails is a warning (`pipeline.cpp:149`) and counts nowhere.
* `pipeline_torn`: a spool file that a failed write or a kill left short is reused
  as the message (`pipeline.cpp:46`, `:180`). In the trace the first run leaves the
  file, and the next one finds it in the spool and writes the message from it. The
  mailbox of this run repeats no UID, so that only a later run can read the file.
  Where a folder lists a UID twice, a later batch of the same run reads it as well.
* `mime_whole`: a multipart without a boundary, or past the nesting limit, is kept
  whole by `parseEntity()` so that "the content survives" (`entity.h:46-48`), but
  `collect()` walks only the parts of a multipart (`message_builder.cpp:76`), so
  the message has neither a body nor an attachment of it.

Others were met while modelling and have no run:

* a string refused at the heap's block limit leaves the table inside a row
  (`streaming_table.cpp:231`), so the refusal is not confined to its message. It
  takes about half a gigabyte of strings in one contents table;
* with a full name map, a header of an unknown name also costs the known ones after
  it their property (`pst_writer.cpp:279`, against `limitations.md:24-26`);
* a mailbox before a group keeps the group's label as part of its text
  (`headers.cpp:304-322`, against "groups flattened" in `headers.h:55`). The model
  does the same; `AddressesRecovered` is stated for lists whose groups come first;
* a message has room for one text of each kind. Of two `text/plain` parts of a
  `multipart/mixed` the second is dropped (`message_builder.cpp:93-98`): it is neither
  the body nor an attachment, although "a migration that drops mail because a parser
  disliked it is worse than one that carries it imperfectly" (`mime_parser.cpp:9-12`).
  An HTML text in a multipart inside an alternative is dropped too if the alternative
  has another one before it. `PartsFiled` says exactly which text becomes the body, and
  so which ones are lost;
* a quoted or atom mailbox name that ends in `{n}` makes `splitLines()` take the
  next octets into its line (`imap_parse.cpp:71-90`), and an unterminated `&`, as in
  a raw name `R&D`, ends the decoded name there (`imap_parse.cpp:144-175`). A server
  that follows the protocol sends neither;
* an item with a value in parentheses before `UID` or the body makes
  `parseFetchBodies()` give up on the line; the message is then fetched alone;
* a boundary that is a prefix of an inner one, and a plain `filename` beside
  `filename*0*`, are told apart by no code;
* the pause between attempts doubles without a limit (`imap_client.cpp:114`), so a
  large `--retries` overflows it;
* the comment on `rgbFM` (`ndb.cpp:449-451`) says every map ends in a long free
  run; the bump allocator leaves that only in the last. `limitations.md` puts the
  cap of a value at about 8 GB, while `ndb.cpp:171` refuses more than 4 GiB.

## Proofs

A theorem holds for every value of the constants that the assumption of its
module admits. The assumptions are what the format and the callers guarantee:

* `GeometryAssumption`, `TreeAssumption` (Ndb): page and map sizes divide each
  other, a map has room for its own reserved pages and the largest block, block
  sizes are within bounds, a branch page has at least two entries. The real
  constants (8-slot pages, 3968-slot maps, blocks of up to 128 slots) satisfy them;
* `TreeAssumption` (DataTree): sizes and fanouts are positive, and one call has
  finitely many subnodes;
* `TableAssumption` (StreamingTable): sizes are positive, no header is longer than
  that of a bitmap block, and one record or header fits into an empty block;
* `WriterAssumption` (PstWriter): user indexes start above 64 (`kFirstUserNidIndex`
  is 1024), so above every reserved node of a type that folders, their tables or
  messages also have;
* `NamesAssumption` (NameIdMap): a message has a sequence of headers, and the map
  has room for the categories;
* `PipelineAssumption`: a listing is a sequence of UIDs with sizes, and a batch
  has room for one message;
* `FetchAssumption` (ImapFetch): UIDs and sizes are numbers, messages are sequences of
  octets, of any length and with any octets in them, and a flag is a word.

Every theorem of the form `Spec => []P` follows from an inductive invariant
`IInv` of its module. No `P` is inductive by itself; what `IInv` adds, and why, is
the argument.

**NdbProofs** (`TypeOK`, `NoOverlap`, `MapsTruthful`, `PagesAligned`, `HeaderLast`,
`HeaderConsistent`, `TreesSearchable`, and the action property `AppendOnly`).

* `ReqInv`: an allocation in progress belongs to its phase and its length is
  positive and bounded. Without it a range could be longer than the free part of
  any map.
* `SpaceInv`: everything allocated lies below the cursor, with BIDs below the
  counter. A new extent starts at the cursor, so this gives `NoOverlap` and
  `AppendOnly`.
* `AlignInv`: while a page is being allocated the cursor is on a page boundary.
  `SkipReserved` keeps it, because reserved pages are whole pages on boundaries
  (`ReservedAligned`).
* `DiskInv`: until a write fails the stream holds all that was written; the
  fixed pages are complete when the header's turn comes; once offset 0 is in the
  stream, everything else is on disk, since a later write pushes the buffer out.
* `RoomInv`: no bit is set outside the maps that exist, and between two
  allocations the maps reach the cursor. So the end of file that the header names
  is the end of the last map, and free and marked slots add up.
* `HeaderInv`: the header in the stream is what `writeHeader()` would compose now;
  nothing it was composed from changes afterwards.

The heart of `MapsTruthful` is `AllocateClear`: a range that meets no reserved
page ends inside the span it starts in, because the next span begins with a
reserved map page. So `markAllocated()`, which drops bits past the end of a map,
drops none.

For `TreesSearchable`, `TreeInv` goes with `IInv`: `SourceInv` says that
nodes and blocks have keys of their own; `PagesInv` that the pages of a level are in
the order of their keys, no two at one place, none over-full, and that an entry above
the leaves is the first key of a page one level down; `BuildInv` that the level under
construction is what remains of the one below, and that a tree is `Complete` once its
root is named. Each step of `buildBTree()` cuts the smallest keys off, so the page
goes after all those before it (`PageStep`). A page covers a key when its first key
is the last of its level that is not above it. The root covers every key
(`TopCovers`), the child that a reader follows covers the key if its page does
(`ChildCovers`), and the leaf that covers the key of an entry holds it
(`LeafHolds`); `Descent` puts this together for any depth, with `DescentExists`, which
unfolds a recursive path, and `DownTo`, induction along it.

**DataTreeProofs** (`ValueReadable`, `SubnodesFound`). `LeavesInv` and `SlicesInv`
say that leaves are the value cut at multiples of the block size and XBLOCKs the
leaves cut at multiples of the fanout; dividing a position then leads to the leaf
that holds it (`PositionFound`). `TotalsInv` keeps, for every block of references, the
partial sums of what its children hold, from which the recursive `Total` follows
(`TotalIs`). `SubnodesInv` orders the SLBLOCKs among each other and before what is
left. The theorems are about one call, the specification of DataTree; the run
`contexts` checks the same properties of the calls that Contexts makes.

**StreamingTableProofs** (`TypeOK`, `BlocksFit`, `InStep`, `RowsReadBack`, and
`TableReadable`).
`HeapInv` says that a block has room for its page map and the byte that aligns it;
`LeavesInv` that leaf i is block i, with an empty place held for block 0 until
`finish()`. `CellsInv` follows each string from the call that set it to the item its
identifier names, through `flushCurrent()` and the spill to a subnode, and
`OrdinalInv` each counted row to the place its ordinal names; both need to know
that block indexes have not passed their limit while a row can still be added
to. `RowsReadBack` is `TableReadable` without the descent of the row index.

`FinishedTableReadable` adds the descent, with `IndexInv`. `TreeInv` says that the heap
holds pages of the index, shaped as those of NdbProofs, and that what
`buildBthInto()` has still to place is what remains of them; the descent then goes as
there (`TopCovers`, `ChildCovers`, `LeafHolds`, `Search`). `KeptInv` says that the index
names the counted rows and no other. Both need `finish()` not to pass the limit of
block indexes, and this is not what a check in `finish()` says: a heap that passed
its limit while a row was written is still given to `finish()`, where the next
identifiers are cut to the width of the block index. `CountInv` shows that such a
`finish()` throws: a cell takes one block at most, so there are many rows, and two
full pages of their index do not fit the one block that is left (`Crowded`). That
holds if the heap is wide, which is the hypothesis of the theorem:

    HeapWide == 2 * (perPage * Columns) <= MaxIndex /\ BlockSize <= 2 * (RecordLen * perPage)

The code has 1012 records of 8 bytes in a page, 4 strings in a row, 65535 blocks and
8176 bytes in a block: 8096 <= 65535 and 8176 <= 16192. Some such hypothesis is
needed. With block indexes up to 2, a row index header and a table header of one byte
each, and the rest of the geometry of `table_read`, TLC finds a finished table that
cannot be read. The condition is sufficient, not necessary: the geometry of
`table_read` itself is not wide, and there TLC finds `TableReadable` to hold.

**PstWriterProofs** (`TypeOK`, `NidsUnique`, `StoreConsistent`, `FolderTree`).
`FoldersInv` gives the folder at each place of the list its index, after that of its
parent, and makes the lists of children and the parents agree: a set of folders
closed under parents would have a first one, so there is no cycle. `NodesInv`
says of every node which message, folder or fixed node it is; messages use
indexes already spent, folders those of stages already passed, so a new node
meets none of them. `RowsInv` is where failures matter: the rows and counters of a
folder agree with its messages, but for the message whose row is not yet there,
and only while its row is not stuck open; `WrittenInv` says that a folder that is
stuck is never written, so a store that was closed has none.

**NameIdMapProofs** (`OneIdPerName`, `PropertiesResolve`, `HeadersAddressable`).
`MessageInv` says that what a message was given resolves in the map as it is now;
entries are only added, so it still does later. A header without its
property has its turn to come, or the map is full.

**PipelineProofs** (`TypeOK`, `NothingLost`, `OwnSource`, `ListingOrder`,
`ZeroMeansMigrated`, the action property `NoRefetch`, and the refinement
`ImplementsMigration`). `WalkInv` and `BatchInv` say where the walk stands and
what the batch covers. `WantedInv` is what makes `wanted_at` right: `wanted` and
`wanted_at` have one length, the entry at each index is the one that the listing has at
the place of that index, the places ascend and lie in the batch, and `got` is parallel
to them. `OwnSource` needs it, for a body is stored under a place that only the vector
names, and so does the agreement of the two loops on which messages were counted.
`BodyInv` says that what is at a place, in `got` or in the spool belongs to that message,
and that a place which is still wanted, or counted, is empty; `AskedInv` that what is
wanted is not in the spool until it has been asked for, whether in the batch or alone.
`ListsInv` and
`SettledInv` that what is through has exactly one entry in the two lists, and
what is not through has none unless it was counted as failed by the first of the
two loops. The refinement is shown step by step: listing a folder is `Announce`,
writing a message or counting it as failed is `Settle`, the exit is `Close`,
`Restart` is `Restart`, and everything else is a stutter.

**ImapFetchProofs** (`FetchContract`, `ListingExact`). The invariant `FetchInv` is short: `Control` says
which lines an answer may have and that its octets are those lines put together, and
`HandedOver` what was made of them. The work is in the one step that parses the answer.
It needs what recursive code computes, and gets it without induction over the text from
facts about one turn of a loop:

* `splitLines()`. A line is `Whole` when `Line()` started at its first octet stops at its
  end, whatever follows. A line without a literal is (`PlainLineIs`), and so is one with a
  literal of the announced length (`LiteralLineIs`), because the octets between are
  skipped, not searched for line ends: this is why a message that looks like a `FETCH`
  line does no harm. A sequence of whole lines splits into exactly these (`SplitLines`,
  by induction over the lines).
* `parseFetchBodies()`. `LoopTurn` unfolds one turn. Each item that the server may write
  has a lemma that says what a turn at its first octet yields and that the next turn is
  at the octet behind it; `BodyLineIs` puts the turns of a line together, for each form.
  A line with a parenthesised item before the body ends early and gives nothing.
* `Parsed`: the bodies are those of the `Complete` lines, in order.
* `uidSet()`. `SortedUids` says that the sorted UIDs are those of the batch: ranks are a
  permutation, also when a UID is listed twice. A run climbs by one from its start to
  its end (`RunUp`), so the ranges cover the UIDs and nothing between them
  (`UidSetIs`).
* `HandedIs`: the last body of a UID goes to the first message listed under it.
* `parseFetchResponse()`. Here a list of flags is a value like others, and the key of an
  item nobody asked for is passed over, then its value is. `Piece` says of a part of a
  line that it gives one item wherever it stands; a line of four pieces has their four
  items, in whatever order (`FourPieces`), and what `parseFlags()` makes of a list of any
  length are the words it was written from (`WordsTextIs`). `ParsedListing` puts the
  lines together, and `ListingInv` says that the answer is made of such lines.

Only model-checked:

* liveness (`Terminates` of Ndb and Pipeline, `FetchReturns`): out of the prover's
  reach;
* `NamesRoundTrip` of ImapFetch: it is about the bits of modified UTF-7, and a fold over
  them is out of the prover's reach;
* `PropertiesReadable` and `RowsReadable` of Contexts, and the properties of Mime: these
  modules describe recursive code with recursive operators, and what such an operator
  computes for every input is out of the prover's reach.

## Not modelled, and why

* Charsets and transfer encodings: tables and byte conversions without state. In
  Mime and MailHeaders an encoded character is another character, and decoding
  turns it back.
* `parseDate()` and `parseInternalDate()`: calendar arithmetic over one string.
* Checksums, property tags, entry ids, RTF, UTF-16 lengths: the bytes of one value,
  without control that the properties tell apart.
* The hash buckets of the name map, and the properties of a message nested in an
  attachment: PstWriter has the subnode that holds it, not its contents.
* The command line: straight-line argument parsing; the options are constants.
* `std::bad_alloc`: taken as the end of the process, which `Restart` covers.
* libcurl, the server and the file system: external; what they may do is an
  open choice in ImapFetch, Pipeline and Ndb.
* UIDVALIDITY and collisions of the spool's folder hash: the code keeps no state
  about either.
* Time: the pauses between attempts.

## Plan

Done in this order: Ndb with its first proofs, Pipeline with Migration,
StreamingTable, PstWriter, NameIdMap, DataTree, ImapFetch; then Contexts, ImapText
with the other three operations of ImapFetch, MailHeaders and Mime; then the proofs
about Pipeline, NameIdMap, PstWriter, DataTree, the header and trees of Ndb, and
StreamingTable with its row index, and the bodies and listings that ImapFetch reads.
Next: the hash buckets of the name map, and nested messages in PstWriter.
