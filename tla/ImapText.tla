------------------------------ MODULE ImapText ------------------------------
(***************************************************************************)
(* The parsers of src/src/imap/imap_parse.cpp, as operators on text, and   *)
(* FolderInfo::path() of src/src/core/message.cpp.                         *)
(*                                                                         *)
(* Text is a sequence of octets.  An octet is its ASCII code; a keyword or *)
(* a decimal number, which the parsers only ever read whole, stands for    *)
(* one octet with a code above 1000.  Keywords have one spelling: lower()  *)
(* is left out.  A parser takes a position and returns the next one.       *)
(***************************************************************************)
EXTENDS Integers, Sequences, FiniteSets, SequencesExt

LF == 10
CR == 13
SP == 32
QT == 34
AMP == 38
LP == 40
RP == 41
STAR == 42
DASH == 45
SLASH == 47
BS == 92
LB == 123
RB == 125

Keyword == [fetch |-> 1001, uid |-> 1002, body |-> 1003, flags |-> 1004, size |-> 1005,
            date |-> 1006, list |-> 1007, exists |-> 1008, nil |-> 1009, other |-> 1010,
            noselect |-> 1011]
SystemFlags == 1021 .. 1026
Number(n) == 2000 + n
IsNumber(c) == c >= 2000
\* strtoul(): zero for what is not a number.
strtoul(v) == IF v # <<>> /\ IsNumber(v[1]) THEN v[1] - 2000 ELSE 0

\* The first position from i on that holds one of the octets C, or the one past
\* the end.
FirstAt(s, i, C) ==
  LET hits == {j \in i .. Len(s) : s[j] \in C} IN IF hits = {} THEN Len(s) + 1 ELSE Min(hits)

\* A loop over n octets: its turn at a position yields some output and goes on
\* at a later position.
Yield(found, i) == [out |-> found, i |-> i]
Skip(i) == Yield(<<>>, i)
Loop(turn, n, start) ==
  LET from[i \in 1 .. (n + 2)] == IF i > n THEN <<>> ELSE LET t == turn[i] IN t.out \o from[t.i]
  IN  from[start]

skipSpace(s, i) == FirstAt(s, i, Nat \ {SP})

----------------------------------------------------------------------------
(* readAstring(): a quoted string, a literal or an atom.                   *)

Failed(i) == [ok |-> FALSE, i |-> i, v |-> <<>>]

\* The positions of the characters of a quoted string, without its backslashes.
QuotedTurn(s, j) ==
  LET k == IF s[j] = BS /\ j < Len(s) THEN j + 1 ELSE j
  IN  IF s[j] = QT THEN Skip(Len(s) + 1) ELSE Yield(<<k>>, k + 1)
ReadQuoted(s, i) ==
  LET kept == Loop([j \in DOMAIN s |-> QuotedTurn(s, j)], Len(s), i)
      end  == IF kept = <<>> THEN i ELSE Last(kept) + 1
  IN  [ok |-> TRUE, i |-> IF end <= Len(s) THEN end + 1 ELSE end, v |-> [k \in DOMAIN kept |-> s[kept[k]]]]

AfterEol(s, i) ==
  LET lf == IF i <= Len(s) /\ s[i] = CR THEN i + 1 ELSE i IN IF lf <= Len(s) /\ s[lf] = LF THEN lf + 1 ELSE lf
Octets(s, i, start, n) ==
  IF start + n > Len(s) + 1 THEN Failed(i) ELSE [ok |-> TRUE, i |-> start + n, v |-> SubSeq(s, start, start + n - 1)]
ReadLiteral(s, i) ==
  LET close == FirstAt(s, i, {RB})
  IN  IF close > Len(s) THEN Failed(i) ELSE Octets(s, i, AfterEol(s, close + 1), strtoul(SubSeq(s, i + 1, close - 1)))

ReadAtom(s, i, end) == IF end = i THEN Failed(i) ELSE [ok |-> TRUE, i |-> end, v |-> SubSeq(s, i, end - 1)]

ReadAt(s, i) ==
  IF i > Len(s) THEN Failed(i)
  ELSE IF s[i] = QT THEN ReadQuoted(s, i + 1)
  ELSE IF s[i] = LB THEN ReadLiteral(s, i)
  ELSE ReadAtom(s, i, FirstAt(s, i, {SP, CR, LF, LP, RP}))
readAstring(s, at) == ReadAt(s, skipSpace(s, at))

----------------------------------------------------------------------------
(* splitLines(): a line that ends in {n} goes on with the n octets after   *)
(* it and with the rest of the line they end in.                           *)

\* The text up to the next line feed, without its end of line.
Upto(s, i) ==
  LET eol == FirstAt(s, i, {LF})
      cut == IF eol > i /\ s[eol - 1] = CR THEN eol - 2 ELSE eol - 1
  IN  [text |-> SubSeq(s, i, cut), i |-> eol + 1]

LiteralLen(line) ==
  LET brace == Len(line) - 2
  IN  IF brace > 0 /\ line[brace] = LB /\ IsNumber(line[brace + 1]) /\ Last(line) = RB
      THEN line[brace + 1] - 2000 ELSE -1

\* One turn of the loop, which leaves a line that is complete as it is.
Longer(s, line) ==
  LET n    == LiteralLen(line.text)
      rest == Upto(s, line.i + n)
  IN  IF n < 0 \/ line.i + n > Len(s) + 1 THEN line
      ELSE [text |-> line.text \o <<CR, LF>> \o SubSeq(s, line.i, line.i + n - 1) \o rest.text, i |-> rest.i]

\* Fault: the octets of a literal are taken for lines.
Line_Plain(s, i) == Upto(s, i)

\* Every turn needs a brace of its own.
Line(s, i) ==
  LET turns == Cardinality({j \in DOMAIN s : s[j] = LB})
      after[k \in 0 .. turns] == IF k = 0 THEN Upto(s, i) ELSE Longer(s, after[k - 1])
  IN  after[turns]

LineTurn(s, i) == LET line == Line(s, i) IN Yield(<<line.text>>, line.i)
splitLines(s) == Loop([i \in DOMAIN s |-> LineTurn(s, i)], Len(s), 1)

----------------------------------------------------------------------------
(* FETCH responses.                                                        *)

\* Where the items of an untagged FETCH line start, or 0.
FetchItems(line) ==
  LET hits == {j \in 1 .. (Len(line) - 2) : SubSeq(line, j, j + 2) = <<SP, Keyword.fetch, SP>>}
  IN  IF line # <<>> /\ line[1] = STAR /\ hits # {} THEN Min(hits) + 3 ELSE 0

\* The elements at the positions K, in order.
Keep(s, K) == FlattenSeq([k \in DOMAIN s |-> IF k \in K THEN <<s[k]>> ELSE <<>>])

\* The value of an item that was read last under a key, if one was.
Under(items, key) == {k \in DOMAIN items : items[k].key = key /\ items[k].val.ok}
Latest(items, key) == IF Under(items, key) = {} THEN <<>> ELSE items[Max(Under(items, key))].val.v

\* The items of a line, of which one that is no FETCH response has none.
Items(line, turn) == IF FetchItems(line) = 0 THEN <<>> ELSE Loop(turn, Len(line), FetchItems(line))

\* parseFetchBodies(): an item it does not know has a simple value, or ends the
\* line.
BodyTurn(line, at) ==
  LET i   == skipSpace(line, at)
      key == readAstring(line, i)
      val == readAstring(line, key.i)
  IN  IF i > Len(line) THEN Skip(i)
      ELSE IF line[i] \in {LP, RP} THEN Skip(i + 1)
      ELSE IF key.ok /\ (val.ok \/ key.v \in {<<Keyword.uid>>, <<Keyword.body>>})
      THEN Yield(<<[key |-> key.v, val |-> val]>>, val.i)
      ELSE Skip(Len(line) + 1)
BodyItems(line) == Items(line, [at \in DOMAIN line |-> BodyTurn(line, at)])

BodyOf(items) == [uid |-> strtoul(Latest(items, <<Keyword.uid>>)), rfc822 |-> Latest(items, <<Keyword.body>>)]
HasBody(items) == Under(items, <<Keyword.uid>>) # {} /\ Under(items, <<Keyword.body>>) # {}

parseFetchBodies(response) ==
  LET lines == splitLines(response)
      items == [k \in DOMAIN lines |-> BodyItems(lines[k])]
  IN  Keep([k \in DOMAIN lines |-> BodyOf(items[k])], {k \in DOMAIN lines : HasBody(items[k])})

\* Fault: the parenthesis of the list stays on its first word.
parseFlags_KeepsParen(list) ==
  LET words == Keep(list, {k \in DOMAIN list : list[k] \notin {SP, RP}})
  IN  [flags |-> Range(words) \cap SystemFlags,
       keywords |-> Keep(words, {k \in DOMAIN words : words[k] \notin SystemFlags})]

\* parseFlags(): the flags of the standard and, in order, the others.
parseFlags(list) ==
  LET words == Keep(list, {k \in DOMAIN list : list[k] \notin {SP, LP, RP}})
  IN  [flags |-> Range(words) \cap SystemFlags,
       keywords |-> Keep(words, {k \in DOMAIN words : words[k] \notin SystemFlags})]

\* parseFetchResponse(): the key of an item it does not know is passed over, then
\* its value is.
FlagsTurn(line, key, list, close) ==
  IF close > Len(line) THEN Skip(Len(line) + 1)
  ELSE Yield(<<[key |-> key, val |-> [ok |-> TRUE, i |-> close + 1, v |-> SubSeq(line, list, close)]]>>, close + 1)
MetaTurn(line, at) ==
  LET i    == skipSpace(line, at)
      key  == readAstring(line, i)
      val  == readAstring(line, key.i)
      list == skipSpace(line, key.i)
  IN  IF i > Len(line) THEN Skip(i)
      ELSE IF line[i] \in {LP, RP} THEN Skip(i + 1)
      ELSE IF ~key.ok THEN Skip(Len(line) + 1)
      ELSE IF key.v = <<Keyword.flags>> THEN FlagsTurn(line, key.v, list, FirstAt(line, list, {RP}))
      ELSE IF key.v \in {<<Keyword.uid>>, <<Keyword.size>>, <<Keyword.date>>}
      THEN Yield(<<[key |-> key.v, val |-> val]>>, val.i)
      ELSE Skip(key.i)
MetaItems(line) == Items(line, [at \in DOMAIN line |-> MetaTurn(line, at)])

\* Of several lists of flags the last gives the flags, and all give keywords.
MetaOf(items) ==
  [uid |-> strtoul(Latest(items, <<Keyword.uid>>)),
   flags |-> parseFlags(Latest(items, <<Keyword.flags>>)).flags,
   keywords |-> FlattenSeq([k \in DOMAIN items |->
     IF items[k].key = <<Keyword.flags>> THEN parseFlags(items[k].val.v).keywords ELSE <<>>]),
   internal_date |-> strtoul(Latest(items, <<Keyword.date>>)),
   size |-> strtoul(Latest(items, <<Keyword.size>>))]

parseFetchResponse(response) ==
  LET lines == splitLines(response)
      items == [k \in DOMAIN lines |-> MetaItems(lines[k])]
  IN  Keep([k \in DOMAIN lines |-> MetaOf(items[k])],
           {k \in DOMAIN lines : Under(items[k], <<Keyword.uid>>) # {}})

----------------------------------------------------------------------------
(* Folder names: modified UTF-7, LIST lines, and the path in the store.    *)

modifiedBase64Value(c) ==
  CASE c \in 65 .. 90  -> c - 65
    [] c \in 97 .. 122 -> c - 97 + 26
    [] c \in 48 .. 57  -> c - 48 + 52
    [] c = 43          -> 62
    [] c = 44          -> 63
    [] OTHER           -> -1

IsHigh(unit) == unit \in 55296 .. 56319
IsLow(unit) == unit \in 56320 .. 57343

\* Fault: the high surrogate is forgotten.
Unit_Forgets(acc, unit) ==
  IF IsHigh(unit) THEN acc ELSE [acc EXCEPT !.out = Append(@, unit), !.high = 0]

\* One UTF-16 unit of a run; text is code points where the code writes UTF-8.
Unit(acc, unit) ==
  IF IsHigh(unit) THEN [acc EXCEPT !.high = unit]
  ELSE [acc EXCEPT !.high = 0, !.out = Append(@,
         IF IsLow(unit) /\ acc.high # 0 THEN 65536 + (acc.high - 55296) * 1024 + (unit - 56320) ELSE unit)]

\* One digit of a run: the low 22 bits of the shift register are all it reads.
Digit(acc, c) ==
  LET v     == modifiedBase64Value(c)
      bits  == (acc.bits * 64 + v) % 4194304
      nbits == acc.nbits + 6
      read  == [acc EXCEPT !.bits = bits, !.nbits = IF nbits < 16 THEN nbits ELSE nbits - 16]
  IN  IF acc.bad \/ v < 0 THEN [acc EXCEPT !.bad = TRUE]
      ELSE IF nbits < 16 THEN read
      ELSE Unit(read, (bits \div 2 ^ (nbits - 16)) % 65536)

\* One character, or one run with the octets themselves where it is not valid.
Utf7Turn(name, i) ==
  LET dash == FirstAt(name, i + 1, {DASH})
      run  == FoldLeft(Digit, [out |-> <<>>, bits |-> 0, nbits |-> 0, high |-> 0, bad |-> FALSE],
                       SubSeq(name, i + 1, dash - 1))
  IN  IF name[i] # AMP THEN Yield(<<name[i]>>, i + 1)
      ELSE IF dash = i + 1 /\ dash <= Len(name) THEN Yield(<<AMP>>, i + 2)
      ELSE Yield(IF run.bad THEN run.out \o SubSeq(name, i, Min({dash, Len(name)})) ELSE run.out, dash + 1)
decodeModifiedUtf7(name) == Loop([i \in DOMAIN name |-> Utf7Turn(name, i)], Len(name), 1)

\* parseListResponse(): one line, or no folder when a part of it is missing.
NoFolder == [raw_name |-> <<>>, full_name |-> <<>>, delimiter |-> 0, selectable |-> FALSE]
ListName(attributes, delim, name) ==
  IF ~delim.ok \/ ~name.ok THEN NoFolder
  ELSE [raw_name |-> name.v, full_name |-> decodeModifiedUtf7(name.v),
        delimiter |-> IF delim.v \in {<<>>, <<Keyword.nil>>} THEN 0 ELSE delim.v[1],
        selectable |-> ~Contains(attributes, Keyword.noselect)]
ListDelimiter(line, attributes, delim) == ListName(attributes, delim, readAstring(line, delim.i))
ListAttributes(line, open, close) ==
  IF open > Len(line) \/ line[open] # LP \/ close > Len(line) THEN NoFolder
  ELSE ListDelimiter(line, SubSeq(line, open, close), readAstring(line, close + 1))
ListLine(line) ==
  LET word == skipSpace(line, 2)
      open == skipSpace(line, word + 1)
  IN  IF Len(line) < 2 \/ line[1] # STAR \/ word > Len(line) \/ line[word] # Keyword.list THEN NoFolder
      ELSE ListAttributes(line, open, FirstAt(line, open, {RP}))

parseListResponse(response) ==
  LET lines == splitLines(response)
      found == [k \in DOMAIN lines |-> ListLine(lines[k])]
  IN  Keep(found, {k \in DOMAIN lines : found[k].raw_name # <<>>})

\* FolderInfo::path(): empty components collapse.
path(info) ==
  LET step(acc, c) ==
        IF c # info.delimiter THEN [acc EXCEPT !.cur = Append(@, c)]
        ELSE [parts |-> IF acc.cur = <<>> THEN acc.parts ELSE Append(acc.parts, acc.cur), cur |-> <<>>]
      end == FoldLeft(step, [parts |-> <<>>, cur |-> <<>>], info.full_name)
  IN  IF end.cur = <<>> THEN end.parts ELSE Append(end.parts, end.cur)
=============================================================================
