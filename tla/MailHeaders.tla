---------------------------- MODULE MailHeaders ----------------------------
(***************************************************************************)
(* src/src/mime/headers.cpp as operators on text: the header block, field  *)
(* tokens and parameters, encoded words and address lists.                 *)
(*                                                                         *)
(* A line is a sequence of octets, a source the sequence of its lines: two *)
(* lines have one end of line between them, and a source that ends in one  *)
(* has an empty last line.  An octet is its ASCII code; a field, parameter *)
(* or media type name, a number, an encoded word and a percent escape are  *)
(* read whole by the code and stand for one octet each, with codes above   *)
(* 1000.  Names have one spelling: lower() is left out.  Characters are    *)
(* what toUtf8() makes of them: character sets are left out.               *)
(***************************************************************************)
EXTENDS Integers, Sequences, SequencesExt

SP == 32
QT == 34
APOS == 39
LP == 40
RP == 41
STAR == 42
COMMA == 44
DASH == 45
COLON == 58
SEMI == 59
LT == 60
EQ == 61
GT == 62
AT == 64
BS == 92

Number(n) == 2000 + n
EncodedWord(c) == 3000 + c
Percent(c) == 4000 + c
IsEncodedWord(c) == c \in 3000 .. 3999

\* The first position from i on of an octet, or the one past the end; the last
\* one, or 0.
FindFrom(s, i, c) == LET hits == {j \in i .. Len(s) : s[j] = c} IN IF hits = {} THEN Len(s) + 1 ELSE Min(hits)
FindLast(s, c) == SelectLastInSeq(s, LAMBDA d : d = c)

trim(s) ==
  LET text == {i \in DOMAIN s : s[i] # SP} IN IF text = {} THEN <<>> ELSE SubSeq(s, Min(text), Max(text))

\* unquote(): the quotes come off and the backslashes inside them.
unquote(s) ==
  LET t == trim(s)
      step(acc, i) ==
        IF acc.skip THEN [out |-> Append(acc.out, t[i]), skip |-> FALSE]
        ELSE IF t[i] = BS /\ i + 1 < Len(t) THEN [acc EXCEPT !.skip = TRUE]
        ELSE [acc EXCEPT !.out = Append(@, t[i])]
  IN  IF Len(t) < 2 \/ t[1] # QT \/ Last(t) # QT THEN t
      ELSE FoldLeft(step, [out |-> <<>>, skip |-> FALSE], [k \in 1 .. (Len(t) - 2) |-> k + 1]).out

\* splitOutsideQuotes(): quotes, comments and angle brackets hide separators,
\* and comments are dropped.
Splitting == [out |-> <<>>, cur |-> <<>>, quoted |-> FALSE, angle |-> FALSE, depth |-> 0, escaped |-> FALSE]

SplitAt(acc, c, sep) ==
  IF c = sep /\ ~acc.angle THEN [acc EXCEPT !.out = Append(@, acc.cur), !.cur = <<>>]
  ELSE [acc EXCEPT !.cur = Append(@, c)]

SplitStep(acc, c, sep) ==
  IF acc.escaped THEN [acc EXCEPT !.escaped = FALSE, !.cur = IF acc.quoted THEN Append(@, c) ELSE @]
  ELSE IF acc.quoted THEN [acc EXCEPT !.cur = Append(@, c), !.escaped = (c = BS), !.quoted = (c # QT)]
  ELSE IF acc.depth > 0
  THEN [acc EXCEPT !.escaped = (c = BS), !.depth = @ + (IF c = LP THEN 1 ELSE IF c = RP THEN -1 ELSE 0)]
  ELSE CASE c = QT -> [acc EXCEPT !.quoted = TRUE, !.cur = Append(@, c)]
         [] c = LP -> [acc EXCEPT !.depth = 1]
         [] c = LT -> [acc EXCEPT !.angle = TRUE, !.cur = Append(@, c)]
         [] c = GT -> [acc EXCEPT !.angle = FALSE, !.cur = Append(@, c)]
         [] OTHER  -> SplitAt(acc, c, sep)

splitOutsideQuotes(s, sep) ==
  LET end == FoldLeft(LAMBDA acc, c : SplitStep(acc, c, sep), Splitting, s) IN Append(end.out, end.cur)

\* Fault: the space between two encoded words stays.
WordStep_KeepsSpace(acc, c) ==
  IF c = SP THEN [acc EXCEPT !.pending = @ + 1]
  ELSE [out |-> acc.out \o [k \in 1 .. acc.pending |-> SP] \o <<IF IsEncodedWord(c) THEN c - 3000 ELSE c>>,
        pending |-> 0, encoded |-> IsEncodedWord(c)]

\* decodeEncodedWords(): white space between two encoded words is not text.
WordStep(acc, c) ==
  IF c = SP THEN [acc EXCEPT !.pending = @ + 1]
  ELSE LET gap == IF IsEncodedWord(c) /\ acc.encoded THEN <<>> ELSE [k \in 1 .. acc.pending |-> SP]
       IN  [out |-> acc.out \o gap \o <<IF IsEncodedWord(c) THEN c - 3000 ELSE c>>,
            pending |-> 0, encoded |-> IsEncodedWord(c)]

headerText(raw) ==
  LET end == FoldLeft(WordStep, [out |-> <<>>, pending |-> 0, encoded |-> FALSE], raw)
  IN  end.out \o [k \in 1 .. end.pending |-> SP]

----------------------------------------------------------------------------
(* parseHeaderBlock(): fields up to the blank line, or to a line that is   *)
(* no field, which already belongs to the body.                            *)

EmptySource == <<<<>>>>
AfterLine(lines, i) == IF i >= Len(lines) THEN EmptySource ELSE SubSeq(lines, i + 1, Len(lines))

Unfolded(fields, line) ==
  IF fields = <<>> THEN fields
  ELSE [fields EXCEPT ![Len(fields)].value = @ \o <<SP>> \o trim(line)]

RECURSIVE HeaderLines(_, _, _)
HeaderLines(lines, i, fields) ==
  LET line  == lines[i]
      colon == FindFrom(line, 1, COLON)
  IN  IF i > Len(lines) THEN [fields |-> fields, body |-> EmptySource]
      ELSE IF line = <<>> THEN [fields |-> fields, body |-> AfterLine(lines, i)]
      ELSE IF line[1] = SP THEN HeaderLines(lines, i + 1, Unfolded(fields, line))
      ELSE IF colon > Len(line) THEN [fields |-> fields, body |-> SubSeq(lines, i, Len(lines))]
      ELSE HeaderLines(lines, i + 1, Append(fields,
             [name |-> trim(SubSeq(line, 1, colon - 1)), value |-> trim(SubSeq(line, colon + 1, Len(line)))]))
parseHeaderBlock(lines) == HeaderLines(lines, 1, <<>>)

headerValue(fields, name) ==
  LET hits == {i \in DOMAIN fields : fields[i].name = <<name>>}
  IN  IF hits = {} THEN <<>> ELSE fields[Min(hits)].value

----------------------------------------------------------------------------
(* Structured fields.                                                      *)

fieldToken(value) == trim(splitOutsideQuotes(value, SEMI)[1])

\* One "name*index*=value" of a field; index -1 when there is none.
NoParameter == [key |-> <<>>, index |-> -1, extended |-> FALSE, val |-> <<>>]

ParameterName(key, ext, val) ==
  LET star == FindFrom(key, 1, STAR)
  IN  [key |-> SubSeq(key, 1, star - 1), extended |-> ext, val |-> val,
       index |-> IF star > Len(key) THEN -1 ELSE IF star = Len(key) THEN 0 ELSE key[star + 1] - 2000]
NamedValue(name, val) ==
  IF name # <<>> /\ Last(name) = STAR THEN ParameterName(Front(name), TRUE, val) ELSE ParameterName(name, FALSE, val)
Parameter(part) ==
  LET eq == FindFrom(part, 1, EQ)
  IN  IF eq > Len(part) THEN NoParameter
      ELSE NamedValue(trim(SubSeq(part, 1, eq - 1)), unquote(SubSeq(part, eq + 1, Len(part))))

\* The pieces of a parameter, of which a later one replaces an earlier one of
\* the same index; the one without an index comes first.
TakeParameter(acc, p) ==
  [extended |-> IF p.index < 0 THEN p.extended ELSE acc.extended \/ p.extended,
   pieces   |-> {q \in acc.pieces : q.index # p.index} \cup {[index |-> p.index, val |-> p.val]}]

Joined(pieces) == FlattenSeq([k \in DOMAIN pieces |-> pieces[k].val])

\* An extended value: the character set and the language come off.
PercentText(s) == [k \in DOMAIN s |-> IF s[k] >= 4000 THEN s[k] - 4000 ELSE s[k]]
Untagged(s, second) == IF second > Len(s) THEN s ELSE SubSeq(s, second + 1, Len(s))
ExtendedText(s) == PercentText(Untagged(s, FindFrom(s, FindFrom(s, 1, APOS) + 1, APOS)))

ParameterText(taken) ==
  LET joined == Joined(SetToSortSeq(taken.pieces, LAMBDA a, b : a.index < b.index))
  IN  IF taken.extended THEN ExtendedText(joined) ELSE headerText(joined)

Parameters(parts) == [k \in DOMAIN parts |-> Parameter(trim(parts[k]))]

fieldParameter(value, name) ==
  ParameterText(FoldLeft(TakeParameter, [extended |-> FALSE, pieces |-> {}],
    SelectSeq(Parameters(Tail(splitOutsideQuotes(value, SEMI))), LAMBDA p : p.key = <<name>>)))

----------------------------------------------------------------------------
(* parseAddressList().                                                     *)

\* A group's label comes off; a colon in an address or a quoted name is none.
Members(group) ==
  LET part  == trim(group)
      colon == FindFrom(part, 1, COLON)
      label == SubSeq(part, 1, colon - 1)
  IN  IF colon <= Len(part) /\ {AT, LT, QT} \cap Range(label) = {}
      THEN trim(SubSeq(part, colon + 1, Len(part))) ELSE part

flattened(value) ==
  FoldLeft(LAMBDA acc, group :
             LET part == Members(group)
             IN  IF part = <<>> THEN acc ELSE IF acc = <<>> THEN part ELSE acc \o <<COMMA, SP>> \o part,
           <<>>, splitOutsideQuotes(value, SEMI))

\* One mailbox: an address in angle brackets with a name before it, a bare
\* address, or a name without one.
MailboxOf(raw) ==
  LET part  == trim(raw)
      open  == FindLast(part, LT)
      close == FindLast(part, GT)
      bare  == \/ Contains(part, AT)
               \/ ~Contains(part, SP) /\ part[1] # QT /\ ~IsEncodedWord(part[1])
      name  == headerText(unquote(SubSeq(part, 1, open - 1)))
      email == trim(SubSeq(part, open + 1, close - 1))
  IN  IF part = <<>> THEN [name |-> <<>>, email |-> <<>>]
      ELSE IF open # 0 /\ close > open THEN [name |-> IF name = email THEN <<>> ELSE name, email |-> email]
      ELSE IF bare THEN [name |-> <<>>, email |-> part]
      ELSE [name |-> headerText(unquote(part)), email |-> <<>>]

parseAddressList(value) ==
  LET parts == splitOutsideQuotes(flattened(value), COMMA)
  IN  SelectSeq([k \in DOMAIN parts |-> MailboxOf(parts[k])], LAMBDA mb : mb.name # <<>> \/ mb.email # <<>>)
=============================================================================
