-------------------------------- MODULE Mime --------------------------------
(***************************************************************************)
(* From the source of a message to the message the store writer gets:      *)
(* parseEntity() of src/src/mime/entity.cpp, buildMessage() of             *)
(* src/src/mime/message_builder.cpp, and parse() of mime_parser.cpp that   *)
(* calls one after the other.                                              *)
(*                                                                         *)
(* A source is what a sender wrote for a tree of parts, possibly cut off   *)
(* after any of its lines.  Text is that of module MailHeaders; a transfer *)
(* encoding turns an octet into another one, and decoding turns it back.   *)
(***************************************************************************)
EXTENDS MailHeaders

CONSTANTS
  MaxDepth,      \* kMaxNestingDepth
  Trees,         \* what a sender wrote: [media, style, parts], parts of parts
  Recipients     \* address lists: sequences of [label, members]

ASSUME DepthAssumption == MaxDepth \in Nat

VARIABLES
  tree, to,   \* what the sender wrote
  hidden,     \* the address list is in Delivered-To, not in To
  cut,        \* how many lines of it arrived
  source,     \* the lines that arrived
  pc,         \* "source", "entity", "message"
  entity,     \* parseEntity()
  message     \* buildMessage()
vars == <<tree, to, hidden, cut, source, pc, entity, message>>

----------------------------------------------------------------------------
Media == [plain |-> 1101, html |-> 1102, mixed |-> 1103, alternative |-> 1104, rfc822 |-> 1105,
          pdf |-> 1106, signed |-> 1107, report |-> 1108, pkcs7 |-> 1109]
Text == {Media.plain, Media.html}
Multiparts == {Media.mixed, Media.alternative, Media.signed, Media.report}
Field == [type |-> 1201, disposition |-> 1202, id |-> 1203, encoding |-> 1204, subject |-> 1205, to |-> 1206,
          cc |-> 1207, bcc |-> 1208, delivered |-> 1209, original |-> 1210, envelope |-> 1211]
Param == [boundary |-> 1301, filename |-> 1302, name |-> 1303, report |-> 1304]
Word == [inline |-> 1401, attachment |-> 1402, base64 |-> 1403, forwarded |-> 1404, numbered |-> 1405,
         delivery |-> 1406, read |-> 1407]

----------------------------------------------------------------------------
(* findBoundary() and the parts between boundary lines.                    *)

Marker(boundary) == <<DASH, DASH>> \o boundary
IsDelimiter(line, boundary) == IsPrefix(Marker(boundary), line)
IsFinal(line, boundary) == IsPrefix(Marker(boundary) \o <<DASH, DASH>>, line)

\* The boundary lines, up to the closing one.
Delimiters(lines, boundary) ==
  LET all   == {i \in DOMAIN lines : IsDelimiter(lines[i], boundary)}
      final == {i \in all : IsFinal(lines[i], boundary)}
  IN  SetToSortSeq({i \in all : \A f \in final : i <= f}, <)

\* Fault: the end of line before a boundary stays with the part.
PartLines_KeepsEnd(lines) == Append(lines, <<>>)

\* trimTrailingLineEnd(): the end of line before a boundary is the boundary's.
PartLines(lines) == IF lines = <<>> THEN EmptySource ELSE lines

\* Fault: a part that no boundary closes is dropped.
LastPart_Dropped(lines, boundary, marks) == <<>>

\* Without a closing boundary, whatever is left is the last part.
LastPart(lines, boundary, marks) ==
  IF marks = <<>> \/ IsFinal(lines[Last(marks)], boundary) \/ AfterLine(lines, Last(marks)) = EmptySource
  THEN <<>> ELSE <<AfterLine(lines, Last(marks))>>

PartSources(lines, boundary) ==
  LET marks == Delimiters(lines, boundary)
  IN  [k \in 1 .. (Len(marks) - 1) |-> PartLines(SubSeq(lines, marks[k] + 1, marks[k + 1] - 1))]
        \o LastPart(lines, boundary, marks)

----------------------------------------------------------------------------
(* parseEntity().                                                          *)

Encoded(c) == 5000 + c
decodeBody(lines, encoding) ==
  IF encoding # <<Word.base64>> THEN lines
  ELSE [k \in DOMAIN lines |-> [j \in DOMAIN lines[k] |->
          IF lines[k][j] >= 5000 THEN lines[k][j] - 5000 ELSE lines[k][j]]]

\* No media type, or one without a slash, means text/plain.
MediaOf(token) == IF Len(token) = 1 /\ token[1] \in Range(Media) THEN token[1] ELSE Media.plain
stripAngles(s) == LET t == trim(s) IN IF Len(t) > 1 /\ t[1] = LT /\ Last(t) = GT THEN SubSeq(t, 2, Len(t) - 1) ELSE t

OrElse(a, b) == IF a # <<>> THEN a ELSE b

\* An entity as its headers describe it.
Described(block) ==
  LET ctype == headerValue(block.fields, Field.type)
      disp  == headerValue(block.fields, Field.disposition)
  IN  [headers     |-> block.fields,
       media       |-> MediaOf(fieldToken(ctype)),
       disposition |-> fieldToken(disp),
       filename    |-> OrElse(fieldParameter(disp, Param.filename), fieldParameter(ctype, Param.name)),
       content_id  |-> stripAngles(headerValue(block.fields, Field.id)),
       body        |-> EmptySource,
       raw_body    |-> block.body,
       parts       |-> <<>>]

\* Multiparts and forwarded messages are taken apart down to the depth limit;
\* anything else, and a multipart without a boundary, is a body.
RECURSIVE parseEntity(_, _)
TakenApart(e, boundary, depth) ==
  LET parts == PartSources(e.raw_body, boundary)
  IN  IF e.media \in Multiparts /\ depth < MaxDepth /\ boundary # <<>>
      THEN [e EXCEPT !.parts = [k \in DOMAIN parts |-> parseEntity(parts[k], depth + 1)]]
      ELSE IF e.media = Media.rfc822 /\ depth < MaxDepth
      THEN [e EXCEPT !.parts = <<parseEntity(e.raw_body, depth + 1)>>]
      ELSE [e EXCEPT !.body = decodeBody(e.raw_body, fieldToken(headerValue(e.headers, Field.encoding)))]
BoundaryOf(e) == fieldParameter(headerValue(e.headers, Field.type), Param.boundary)
parseEntity(lines, depth) ==
  LET e == Described(parseHeaderBlock(lines)) IN TakenApart(e, BoundaryOf(e), depth)

----------------------------------------------------------------------------
(* buildMessage().                                                         *)

messageClassFor(root) ==
  LET report == fieldParameter(headerValue(root.headers, Field.type), Param.report)
  IN  CASE root.media = Media.report /\ report = <<Word.delivery>> -> "REPORT.IPM.Note.NDR"
        [] root.media = Media.report /\ report = <<Word.read>>     -> "REPORT.IPM.Note.IPNRN"
        [] root.media = Media.signed -> "IPM.Note.SMIME.MultipartSigned"
        [] root.media = Media.pkcs7  -> "IPM.Note.SMIME"
        [] OTHER                     -> ""

\* recoverHiddenRecipients(): without To, Cc and Bcc, who it was delivered to.
HiddenRecipients(root, visible) ==
  LET listed(name) == LET v == headerValue(root.headers, name)
                      IN  IF Contains(v, AT) THEN parseAddressList(v) ELSE <<>>
  IN  IF visible THEN <<>>
      ELSE OrElse(listed(Field.delivered), OrElse(listed(Field.original), listed(Field.envelope)))

isAttachment(e) ==
  e.disposition = <<Word.attachment>> \/ e.filename # <<>> \/ e.media \notin Text \cup Multiparts \cup {Media.rfc822}

Headed(root) ==
  LET of(name) == parseAddressList(headerValue(root.headers, name))
      visible  == of(Field.to) # <<>> \/ of(Field.cc) # <<>> \/ of(Field.bcc) # <<>>
  IN  [headers |-> [k \in DOMAIN root.headers |-> [root.headers[k] EXCEPT !.value = headerText(@)]],
       subject |-> headerText(headerValue(root.headers, Field.subject)),
       to |-> of(Field.to), cc |-> of(Field.cc), bcc |-> of(Field.bcc) \o HiddenRecipients(root, visible),
       message_class |-> messageClassFor(root),
       body_text |-> EmptySource, body_html |-> EmptySource, attachments |-> <<>>]

RECURSIVE collect(_, _, _, _), buildMessage(_, _), addAttachment(_, _, _)

\* A forwarded message is stored as a message and as its source.
addAttachment(e, out, depth) ==
  LET embed == e.media = Media.rfc822 /\ e.parts # <<>> /\ depth < MaxDepth
      inner == buildMessage(e.parts[1], depth + 1)
      named == IF embed THEN OrElse(inner.subject, <<Word.forwarded>>)
               ELSE OrElse(e.content_id, <<Word.numbered, Number(Len(out.attachments) + 1)>>)
  IN  [out EXCEPT !.attachments = Append(@,
        [media |-> e.media, content_id |-> e.content_id, filename |-> OrElse(e.filename, named),
         is_inline |-> e.disposition = <<Word.inline>> \/ (e.content_id # <<>> /\ e.disposition = <<>>),
         data |-> IF embed THEN e.raw_body ELSE e.body,
         embedded |-> IF embed THEN <<inner>> ELSE <<>>])]

\* Fault: what stands deeper in an alternative replaces a body as well.
collect_Inherited(e, out, depth, alternative) ==
  LET keep(have) == have = EmptySource \/ alternative
      passed == alternative \/ e.media = Media.alternative
  IN  IF e.media \in Multiparts
      THEN FoldLeft(LAMBDA acc, part : collect(part, acc, depth, passed), out, e.parts)
      ELSE IF e.media = Media.rfc822 \/ isAttachment(e) THEN addAttachment(e, out, depth)
      ELSE IF e.media = Media.html
      THEN IF keep(out.body_html) THEN [out EXCEPT !.body_html = e.body] ELSE out
      ELSE IF keep(out.body_text) THEN [out EXCEPT !.body_text = e.body] ELSE out

\* A text that may not replace the body of its kind goes nowhere.
collect(e, out, depth, alternative) ==
  LET keep(have) == have = EmptySource \/ alternative
  IN  IF e.media \in Multiparts
      THEN FoldLeft(LAMBDA acc, part : collect(part, acc, depth, e.media = Media.alternative), out, e.parts)
      ELSE IF e.media = Media.rfc822 \/ isAttachment(e) THEN addAttachment(e, out, depth)
      ELSE IF e.media = Media.html
      THEN IF keep(out.body_html) THEN [out EXCEPT !.body_html = e.body] ELSE out
      ELSE IF keep(out.body_text) THEN [out EXCEPT !.body_text = e.body] ELSE out

buildMessage(root, depth) == collect(root, Headed(root), depth, FALSE)

----------------------------------------------------------------------------
(* The sender: a tree as lines.  The text of a leaf says where in the tree *)
(* it is, and looks like a boundary without being one.                     *)

Header(name, value) == <<name, COLON, SP>> \o value
Quoted(s) == <<QT>> \o FlattenSeq([k \in DOMAIN s |-> IF s[k] \in {QT, BS} THEN <<BS, s[k]>> ELSE <<s[k]>>]) \o <<QT>>
BoundaryAt(path) == <<98, SEMI, 65 + Len(path)>>
NameAt(path) == <<102>> \o path
IdAt(path) == <<105>> \o path
TextAt(path) ==
  <<path \o <<11>>, path \o <<12, DASH, DASH>> \o BoundaryAt(<<>>), <<DASH, DASH, SP>> \o path>>

\* A folded field, and a file name in pieces that arrive in the wrong order.
TypeLines(node, path) ==
  IF node.media \in Multiparts /\ node.style # "no boundary"
  THEN <<Header(Field.type, <<node.media, SEMI>>), <<SP, Param.boundary, EQ>> \o Quoted(BoundaryAt(path))>>
  ELSE <<Header(Field.type, <<node.media>>)>>
StyleLines(style, path) ==
  CASE style = "attached" ->
         <<Header(Field.disposition, <<Word.attachment, SEMI>>),
           <<SP, Param.filename, STAR, Number(1), EQ>> \o Quoted(path) \o <<SEMI>>,
           <<SP, Param.filename, STAR, Number(0), EQ, 102>>>>
    [] style = "named"   -> <<Header(Field.disposition, <<Word.inline, SEMI, SP, Param.filename, STAR, EQ, 1, APOS, APOS, Percent(102)>>
                                      \o path)>>
    [] style = "related" -> <<Header(Field.id, <<LT>> \o IdAt(path) \o <<GT>>)>>
    [] style = "encoded" -> <<Header(Field.encoding, <<Word.base64>>)>>
    [] OTHER             -> <<>>

LeafText(node, path) ==
  IF node.style # "encoded" THEN TextAt(path)
  ELSE [k \in DOMAIN TextAt(path) |-> [j \in DOMAIN TextAt(path)[k] |-> Encoded(TextAt(path)[k][j])]]

\* A "bare" leaf has no header at all.
RECURSIVE Written(_, _)
Written(node, path) ==
  LET head == IF node.style = "bare" THEN <<<<>>>> ELSE TypeLines(node, path) \o StyleLines(node.style, path) \o <<<<>>>>
      mark == Marker(BoundaryAt(path))
  IN  head \o
      (IF node.media \in Multiparts
       THEN FlattenSeq([k \in DOMAIN node.parts |-> <<mark>> \o Written(node.parts[k], Append(path, k))])
              \o <<mark \o <<DASH, DASH>>>>
       ELSE IF node.media = Media.rfc822
       THEN <<Header(Field.subject, <<115>>)>> \o Written(node.parts[1], Append(path, 1))
       ELSE LeafText(node, path))

\* An address list: groups, then mailboxes, folded at every comma.
MailboxText(m) ==
  CASE m.form = "bare"    -> m.email
    [] m.form = "angle"   -> m.name \o <<SP, LT>> \o m.email \o <<GT>>
    [] m.form = "quoted"  -> Quoted(m.name) \o <<LT>> \o m.email \o <<GT>>
    [] m.form = "comment" -> <<LP, 120, COMMA, LP, RP, SEMI, RP, SP>> \o m.email
    [] m.form = "encoded" -> [k \in 1 .. (2 * Len(m.name) - 1) |->
                                IF k % 2 = 0 THEN SP ELSE EncodedWord(m.name[(k + 1) \div 2])]
                               \o <<SP, LT>> \o m.email \o <<GT>>
    [] m.form = "name"    -> Quoted(m.name)

\* One item: a mailbox, or a group with a label.
ItemText(item) ==
  IF item.label = <<>> THEN MailboxText(item.members[1])
  ELSE item.label \o <<COLON, SP>>
         \o FlattenSeq([j \in DOMAIN item.members |->
              (IF j = 1 THEN <<>> ELSE <<COMMA>>) \o MailboxText(item.members[j])]) \o <<SEMI>>
ListLines(field, items) ==
  IF items = <<>> THEN <<Header(field, <<>>)>>
  ELSE [k \in DOMAIN items |->
         (IF k = 1 THEN Header(field, <<>>) ELSE <<SP>>) \o ItemText(items[k])
           \o (IF k = Len(items) THEN <<>> ELSE <<COMMA>>)]

FullSource == ListLines(IF hidden THEN Field.delivered ELSE Field.to, to) \o Written(tree, <<>>)

----------------------------------------------------------------------------
NoEntity == [parts |-> <<>>]

Init ==
  /\ \/ tree \in Trees /\ to = <<>> /\ hidden = FALSE
     \/ tree = [media |-> Media.plain, style |-> "plain", parts |-> <<>>] /\ to \in Recipients /\ hidden \in BOOLEAN
  /\ cut \in IF to = <<>> THEN 1 .. Len(FullSource) ELSE {Len(FullSource)}
  /\ source = Append(SubSeq(FullSource, 1, cut), <<>>)
  /\ pc = "source" /\ entity = NoEntity /\ message = <<>>

\* parse(): the entity, then the message.
ParseSource ==
  /\ pc = "source"
  /\ entity' = parseEntity(source, 0) /\ pc' = "entity"
  /\ UNCHANGED <<tree, to, hidden, cut, source, message>>

BuildMessage ==
  /\ pc = "entity"
  /\ message' = buildMessage(entity, 0) /\ pc' = "message"
  /\ UNCHANGED <<tree, to, hidden, cut, source, entity>>

Next == ParseSource \/ BuildMessage

Spec == Init /\ [][Next]_vars

----------------------------------------------------------------------------
(* Correctness.                                                            *)

Whole == cut = Len(FullSource)
Containers == Multiparts \cup {Media.rfc822}

\* Nothing of a tree is past the depth limit or cannot be split.
RECURSIVE Walked(_, _)
Walked(node, depth) ==
  node.media \in Containers =>
    depth < MaxDepth /\ node.style # "no boundary" /\ \A k \in DOMAIN node.parts : Walked(node.parts[k], depth + 1)

\* What stands below the headers of a node; rest is the end of the source,
\* which belongs to its last body.
BodyOf(node, path, rest) ==
  LET w == Written(node, path) IN AfterLine(w, Min({i \in DOMAIN w : w[i] = <<>>})) \o rest

\* The entity a tree should become.
RECURSIVE EntityOf(_, _, _, _)
EntityOf(node, path, depth, rest) ==
  LET walked == node.media \in Containers /\ depth < MaxDepth /\ node.style # "no boundary"
  IN  [media       |-> node.media,
       disposition |-> CASE node.style = "attached" -> <<Word.attachment>>
                         [] node.style = "named"    -> <<Word.inline>>
                         [] OTHER                   -> <<>>,
       filename    |-> IF node.style \in {"attached", "named"} THEN NameAt(path) ELSE <<>>,
       content_id  |-> IF node.style = "related" THEN IdAt(path) ELSE <<>>,
       body        |-> IF walked THEN EmptySource
                       ELSE IF node.media \in Containers THEN BodyOf(node, path, rest) ELSE TextAt(path) \o rest,
       parts       |-> IF ~walked THEN <<>>
                       ELSE [k \in DOMAIN node.parts |->
                              EntityOf(node.parts[k], Append(path, k), depth + 1,
                                       IF node.media = Media.rfc822 THEN rest ELSE <<>>)]]

RECURSIVE Shape(_)
Shape(e) ==
  [media |-> e.media, disposition |-> e.disposition, filename |-> e.filename, content_id |-> e.content_id,
   body |-> e.body, parts |-> [k \in DOMAIN e.parts |-> Shape(e.parts[k])]]

\* A source that arrived whole is taken apart into the parts its sender put
\* together: boundaries that siblings share, folded and encoded parameters and
\* text that looks like a boundary included; what is past the depth limit, or
\* has no boundary, is kept as it was written (parseEntity).
StructureRecovered == (pc # "source" /\ Whole) => Shape(entity) = EntityOf(tree, <<>>, 0, EmptySource)

NonBlank(lines) == SelectSeq(lines, LAMBDA line : line # <<>>)

RECURSIVE BodyLines(_), LeafLines(_, _)
BodyLines(e) ==
  IF e.parts = <<>> THEN NonBlank(e.body) ELSE FlattenSeq([k \in DOMAIN e.parts |-> BodyLines(e.parts[k])])
LeafLines(node, path) ==
  IF node.media \in Containers THEN FlattenSeq([k \in DOMAIN node.parts |-> LeafLines(node.parts[k], Append(path, k))])
  ELSE LeafText(node, path)

\* Wherever a message was cut off, the entities hold the lines of text that
\* arrived, each once and in order: the part without a closing boundary too,
\* at every level (the end of the loop in parseEntity).
TruncationKept ==
  LET leaves == Range(LeafLines(tree, <<>>))
      came   == SelectSeq(SubSeq(FullSource, 1, cut), LAMBDA line : line \in leaves)
  IN  (pc # "source" /\ Walked(tree, 0)) => BodyLines(entity) = decodeBody(came, <<Word.base64>>)

\* The leaves of one message in order, and whether each is offered as an
\* alternative to its neighbours; a forwarded message is one of them.
RECURSIVE LeavesOf(_, _, _, _)
LeavesOf(node, path, rest, offered) ==
  IF node.media \in Multiparts
  THEN FlattenSeq([k \in DOMAIN node.parts |->
         LeavesOf(node.parts[k], Append(path, k), <<>>, node.media = Media.alternative)])
  ELSE <<[node |-> node, path |-> path, rest |-> rest, offered |-> offered]>>

IsFile(leaf) == leaf.node.media \notin Text \/ leaf.node.style \in {"attached", "named"}

\* The one text that becomes the body of its kind: the last that is offered as
\* an alternative, or else the first.
BodyFrom(texts) ==
  LET offered == SelectSeq(texts, LAMBDA l : l.offered)
      winner  == IF offered # <<>> THEN Last(offered) ELSE Head(texts)
  IN  IF texts = <<>> THEN EmptySource ELSE TextAt(winner.path) \o winner.rest

RECURSIVE Files(_, _, _, _)
Files(m, node, path, rest) ==
  LET leaves == LeavesOf(node, path, rest, FALSE)
      files  == SelectSeq(leaves, IsFile)
      texts(media) == SelectSeq(leaves, LAMBDA l : ~IsFile(l) /\ l.node.media = media)
      filed(a, l, k) ==
        /\ a.media = l.node.media
        /\ a.filename = IF l.node.style \in {"attached", "named"} THEN NameAt(l.path)
                        ELSE IF l.node.media = Media.rfc822 THEN <<115>>
                        ELSE IF l.node.style = "related" THEN IdAt(l.path) ELSE <<Word.numbered, Number(k)>>
        /\ a.is_inline = (l.node.style \in {"named", "related"})
        /\ IF l.node.media = Media.rfc822
           THEN /\ a.data = BodyOf(l.node, l.path, l.rest)
                /\ Files(a.embedded[1], l.node.parts[1], Append(l.path, 1), l.rest)
           ELSE a.embedded = <<>> /\ a.data = TextAt(l.path) \o l.rest
  IN  /\ m.body_text = BodyFrom(texts(Media.plain)) /\ m.body_html = BodyFrom(texts(Media.html))
      /\ Len(m.attachments) = Len(files)
      /\ \A k \in DOMAIN files : filed(m.attachments[k], files[k], k)

\* What buildMessage() makes of a message that arrived whole, for any mixture of
\* texts, alternatives, files and forwarded messages (collect, addAttachment).
\* Every file is an attachment, once, in order, with its name and contents, a
\* forwarded message as a message too.  Each kind of text fills one body: the
\* last text that is offered as an alternative, or else the first, wins it.  The
\* other texts of that kind are in no part of the message, those of a
\* multipart/mixed included, which are no alternatives to each other.
PartsFiled == (pc = "message" /\ Whole /\ Walked(tree, 0)) => Files(message, tree, <<>>, EmptySource)

MailboxMeant(m) ==
  [name |-> IF m.form \in {"bare", "comment"} THEN <<>> ELSE m.name, email |-> IF m.form = "name" THEN <<>> ELSE m.email]
Meant == FlattenSeq([k \in DOMAIN to |-> [j \in DOMAIN to[k].members |-> MailboxMeant(to[k].members[j])]])

\* The recipients are the mailboxes the sender listed, those of groups
\* included, whatever separators stand in names, comments and addresses; a
\* message without visible recipients has those it was delivered to as Bcc
\* (parseAddressList, recoverHiddenRecipients).
AddressesRecovered ==
  pc = "message" =>
    /\ message.to = IF hidden THEN <<>> ELSE Meant
    /\ message.bcc = IF hidden /\ \E k \in DOMAIN Meant : Contains(Meant[k].email, AT) THEN Meant ELSE <<>>

RECURSIVE Unwalked(_), Kept(_)
Unwalked(e) ==
  (IF e.media \in Multiparts /\ e.parts = <<>> THEN Range(NonBlank(e.body)) ELSE {})
    \cup UNION {Unwalked(e.parts[k]) : k \in DOMAIN e.parts}
Kept(m) ==
  Range(m.body_text) \cup Range(m.body_html)
    \cup UNION {Range(m.attachments[k].data) \cup UNION {Kept(inner) : inner \in Range(m.attachments[k].embedded)}
                : k \in DOMAIN m.attachments}

\* What parseEntity() keeps whole because it cannot be taken apart is in the
\* message somewhere ("so the content survives").
UnwalkedKept == (pc = "message" /\ Whole) => Unwalked(entity) \subseteq Kept(message)
=============================================================================
