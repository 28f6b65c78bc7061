----------------------------- MODULE ImapFetch -----------------------------
(***************************************************************************)
(* One operation of ImapClient over CurlTransport with its retries         *)
(* (src/src/imap/imap_client.cpp): listFolders(), listMessages(),          *)
(* fetchMessage() or fetchMessages(), with the parsers of module ImapText  *)
(* reading the octets of the answer.                                       *)
(*                                                                         *)
(* The server is external.  A request fails or is answered; an answer is a *)
(* list of untagged lines in any order and in any of the forms the         *)
(* protocol allows, some about messages nobody asked for, some with flags  *)
(* and no body, some repeated.  Pipeline's FetchBatch relies on            *)
(* FetchContract.                                                          *)
(***************************************************************************)
EXTENDS ImapText

CONSTANTS
  Batches,        \* the listings fetchMessages() is called with: sequences of UIDs
  RetryAttempts,  \* --retries
  Unasked,        \* UIDs the server may report besides the ones asked for
  Body,           \* the octets of the message with a UID
  Mailbox,        \* what may be listed: [uid, words, size], the words being its flags
  Folders,        \* what may be listed: [parts, delimiter, selectable]
  MaxLines        \* bound of the model: FETCH lines in one answer

\* A flag is one word.
FlagWords == Nat \ (0 .. 1000)

ASSUME FetchAssumption ==
  /\ RetryAttempts \in Int /\ Unasked \subseteq Nat /\ MaxLines \in Nat
  /\ \A b \in Batches : b \in Seq(Nat) /\ \A i \in DOMAIN b : Body[b[i]] \in Seq(Nat)
  /\ \A u \in Unasked : Body[u] \in Seq(Nat)
  /\ \A m \in Mailbox : m.uid \in Nat /\ m.size \in Nat /\ m.words \in Seq(FlagWords)

VARIABLES
  op,       \* "folders", "listing", "single" or "batch"
  metas,    \* the UIDs of the batch, in listing order
  pc,       \* "ask", "wait", "parse", "done", "thrown"
  attempt,  \* withRetries(): requests made so far
  sent,     \* the UID ranges of the request
  meant,    \* what the server's answer says, line by line
  answer,   \* its octets
  out       \* what the operation returns
vars == <<op, metas, pc, attempt, sent, meant, answer, out>>

----------------------------------------------------------------------------
\* The sorted UIDs, and the maximal runs of consecutive ones uidSet() writes
\* as a range; of two equal UIDs the later starts a run of its own.
Before(i) == {j \in DOMAIN metas : metas[j] < metas[i] \/ (metas[j] = metas[i] /\ j < i)}
uids == [k \in DOMAIN metas |-> metas[CHOOSE i \in DOMAIN metas : Cardinality(Before(i)) = k - 1]]

Starts == {i \in DOMAIN uids : i = 1 \/ uids[i] # uids[i - 1] + 1}
Ends   == {i \in DOMAIN uids : i = Len(uids) \/ uids[i + 1] # uids[i] + 1}

uidSet == {<<uids[i], uids[Min({j \in Ends : j >= i})]>> : i \in Starts}

\* withRetries(): at least one attempt, whatever the option says.
attempts == IF RetryAttempts < 1 THEN 1 ELSE RetryAttempts

Asked == UNION {r[1] .. r[2] : r \in sent}

----------------------------------------------------------------------------
(* The server's side of the protocol.                                      *)

EOL == <<CR, LF>>
Literal(v) == <<LB, Number(Len(v)), RB>> \o EOL \o v
Quoted(v) == <<QT>> \o FlattenSeq([k \in DOMAIN v |-> IF v[k] \in {QT, BS} THEN <<BS, v[k]>> ELSE <<v[k]>>]) \o <<QT>>
FetchLine(items) == <<STAR, SP, Number(1), SP, Keyword.fetch, SP, LP>> \o items \o <<RP>> \o EOL

UidItem(uid) == <<Keyword.uid, SP, Number(uid)>>
FlagsItem(words) ==
  <<Keyword.flags, SP, LP>> \o FlattenSeq([k \in DOMAIN words |-> IF k = 1 THEN <<words[k]>> ELSE <<SP, words[k]>>]) \o <<RP>>

\* A body fetch may be answered in either order of its items, and a line may
\* say more than was asked for, or be about flags alone.
BodyForms == {"uid first", "body first", "simple item", "list item", "flags only"}
BodyLine(l) ==
  LET body == <<Keyword.body, SP>> \o Literal(Body[l.uid])
  IN  CASE l.form = "uid first"   -> FetchLine(UidItem(l.uid) \o <<SP>> \o body)
        [] l.form = "body first"  -> FetchLine(body \o <<SP>> \o UidItem(l.uid))
        [] l.form = "simple item" -> FetchLine(<<Keyword.size, SP, Number(1), SP>> \o UidItem(l.uid) \o <<SP>> \o body)
        [] l.form = "list item"   -> FetchLine(FlagsItem(<<1021>>) \o <<SP>> \o UidItem(l.uid) \o <<SP>> \o body)
        [] l.form = "flags only"  -> FetchLine(UidItem(l.uid) \o <<SP>> \o FlagsItem(<<1030>>))

MetaForms == {"asked", "reordered", "list item", "no uid", "exists"}
MetaLine(l) ==
  LET flags == FlagsItem(l.m.words)
      size  == <<Keyword.size, SP, Number(l.m.size)>>
      date  == <<Keyword.date, SP, QT, Number(l.m.size + 1), QT>>
  IN  CASE l.form = "asked"     -> FetchLine(UidItem(l.m.uid) \o <<SP>> \o flags \o <<SP>> \o date \o <<SP>> \o size)
        [] l.form = "reordered" -> FetchLine(date \o <<SP>> \o size \o <<SP>> \o flags \o <<SP>> \o UidItem(l.m.uid))
        [] l.form = "list item" -> FetchLine(UidItem(l.m.uid) \o <<SP, Keyword.other, SP, LP, Number(4), RP, SP>>
                                             \o size \o <<SP>> \o date \o <<SP>> \o flags)
        [] l.form = "no uid"    -> FetchLine(flags)
        [] l.form = "exists"    -> <<STAR, SP, Number(3), SP, Keyword.exists>> \o EOL

\* A folder name: printable ASCII as it is, other characters as runs of
\* modified base 64 over UTF-16.
Printable == 32 .. 126
Utf16(c) == IF c < 65536 THEN <<c>> ELSE <<55296 + (c - 65536) \div 1024, 56320 + ((c - 65536) % 1024)>>
BitsOf(unit) == [k \in 1 .. 16 |-> (unit \div 2 ^ (16 - k)) % 2]
Base64 == [k \in 1 .. 26 |-> 64 + k] \o [k \in 1 .. 26 |-> 96 + k] \o [k \in 1 .. 10 |-> 47 + k] \o <<43, 44>>
Base64Run(chars) ==
  LET units == FlattenSeq([j \in DOMAIN chars |-> Utf16(chars[j])])
      bits  == FlattenSeq([k \in DOMAIN units |-> BitsOf(units[k])])
      bit(p) == IF p <= Len(bits) THEN bits[p] ELSE 0
      digit(k) == 32 * bit(6 * k - 5) + 16 * bit(6 * k - 4) + 8 * bit(6 * k - 3) + 4 * bit(6 * k - 2)
                    + 2 * bit(6 * k - 1) + bit(6 * k)
  IN  <<AMP>> \o [k \in 1 .. (Len(bits) + 5) \div 6 |-> Base64[digit(k) + 1]] \o <<DASH>>

NameTurn(name, i) ==
  LET end == FirstAt(name, i, Printable)
  IN  IF end > i THEN Yield(Base64Run(SubSeq(name, i, end - 1)), end)
      ELSE Yield(IF name[i] = AMP THEN <<AMP, DASH>> ELSE <<name[i]>>, i + 1)
EncodedName(name) == Loop([i \in DOMAIN name |-> NameTurn(name, i)], Len(name), 1)

FullName(f) == FoldLeft(LAMBDA acc, part : IF acc = <<>> THEN part ELSE acc \o <<f.delimiter>> \o part, <<>>, f.parts)
RawName(f) == EncodedName(FullName(f))

\* A name is an atom, a quoted string or a literal; of an atom only where its
\* characters allow it.
NameForms(f) ==
  {"quoted", "literal"} \cup IF {SP, QT, BS, LP, RP, LB} \cap Range(RawName(f)) = {} THEN {"atom"} ELSE {}
FolderLine(l) ==
  <<STAR, SP, Keyword.list, SP, LP>> \o (IF l.f.selectable THEN <<>> ELSE <<Keyword.noselect>>) \o <<RP, SP>>
    \o (IF l.f.delimiter = 0 THEN <<Keyword.nil>> ELSE Quoted(<<l.f.delimiter>>)) \o <<SP>>
    \o (CASE l.form = "atom"    -> RawName(l.f)
          [] l.form = "quoted"  -> Quoted(RawName(l.f))
          [] l.form = "literal" -> Literal(RawName(l.f))) \o EOL

----------------------------------------------------------------------------
(* The operation.                                                          *)

EmptyBatch ==
  /\ pc = "ask" /\ op = "batch" /\ metas = <<>>
  /\ pc' = "done" /\ UNCHANGED <<op, metas, attempt, sent, meant, answer, out>>

\* Fault: attempts are not counted.
Request_Uncounted ==
  /\ pc = "ask" /\ ~(op = "batch" /\ metas = <<>>)
  /\ sent' = uidSet
  /\ pc' = "wait"
  /\ UNCHANGED <<op, metas, attempt, meant, answer, out>>

\* run(): one request.  A failure is retried until the attempts are used up.
Request ==
  /\ pc = "ask" /\ ~(op = "batch" /\ metas = <<>>)
  /\ sent' = uidSet
  /\ attempt' = attempt + 1
  /\ pc' = "wait"
  /\ UNCHANGED <<op, metas, meant, answer, out>>

Fails ==
  /\ pc = "wait"
  /\ pc' = IF attempt >= attempts THEN "thrown" ELSE "ask"
  /\ UNCHANGED <<op, metas, attempt, sent, meant, answer, out>>

Answered(lines, octets) ==
  /\ meant' = lines /\ answer' = octets /\ pc' = "parse"
  /\ UNCHANGED <<op, metas, attempt, sent, out>>

LinesOf(S) == UNION {[1 .. n -> S] : n \in 0 .. MaxLines}

AnswersBatch ==
  /\ pc = "wait" /\ op = "batch"
  /\ \E lines \in LinesOf([uid : Asked \cup Unasked, form : BodyForms]) :
       Answered(lines, FlattenSeq([k \in DOMAIN lines |-> BodyLine(lines[k])]))

AnswersListing ==
  /\ pc = "wait" /\ op = "listing"
  /\ \E lines \in LinesOf([m : Mailbox, form : MetaForms]) :
       Answered(lines, FlattenSeq([k \in DOMAIN lines |-> MetaLine(lines[k])]))

\* A folder, and one more that must not be lost with it.
LastFolder == [f |-> [parts |-> <<<<97>>>>, delimiter |-> SLASH, selectable |-> TRUE], form |-> "atom"]
AnswersFolders ==
  /\ pc = "wait" /\ op = "folders"
  /\ \E f \in Folders : \E form \in NameForms(f) :
       LET first == [f |-> f, form |-> form]
       IN  Answered(<<first, LastFolder>>, FolderLine(first) \o FolderLine(LastFolder))

AnswersSingle == pc = "wait" /\ op = "single" /\ Answered(<<>>, Body[metas[1]])

Returns(result) == out' = result /\ pc' = "done" /\ UNCHANGED <<op, metas, attempt, sent, meant, answer>>

\* A body by its UID, of which a later line replaces an earlier one, goes to the
\* first message of that UID and is gone for the next.
Handed(bodies) ==
  LET of(i)    == {k \in DOMAIN bodies : bodies[k].uid = metas[i]}
      first(i) == \A j \in 1 .. (i - 1) : metas[j] # metas[i]
  IN  [i \in DOMAIN metas |-> IF first(i) /\ of(i) # {} THEN bodies[Max(of(i))].rfc822 ELSE <<>>]
HandOut == pc = "parse" /\ op = "batch" /\ Returns(Handed(parseFetchBodies(answer)))

TakeSingle  == pc = "parse" /\ op = "single" /\ Returns(<<answer>>)
TakeListing == pc = "parse" /\ op = "listing" /\ Returns(parseFetchResponse(answer))
TakeFolders ==
  /\ pc = "parse" /\ op = "folders"
  /\ LET found == parseListResponse(answer)
     IN  Returns([k \in DOMAIN found |-> [info |-> found[k], path |-> path(found[k])]])

----------------------------------------------------------------------------
Init ==
  /\ \/ op = "batch" /\ metas \in Batches
     \/ op \in {"folders", "listing"} /\ metas = <<>>
     \/ op = "single" /\ metas \in {b \in Batches : Len(b) = 1}
  /\ pc = "ask" /\ attempt = 0 /\ sent = {} /\ meant = <<>> /\ answer = <<>> /\ out = <<>>

Next ==
  \/ EmptyBatch
  \/ Request
  \/ Fails
  \/ AnswersBatch
  \/ AnswersListing
  \/ AnswersFolders
  \/ AnswersSingle
  \/ HandOut
  \/ TakeSingle
  \/ TakeListing
  \/ TakeFolders

\* The client asks, and a request that is not answered times out
\* (CURLOPT_TIMEOUT); what is done with an answer is local.
Spec == Init /\ [][Next]_vars /\ WF_vars(EmptyBatch \/ Request) /\ WF_vars(Fails)

----------------------------------------------------------------------------
(* Correctness.                                                            *)

\* A line parseFetchBodies() has to read: it names its UID and has a body, and
\* no value in parentheses comes before them.
Complete(l) == l.form \in {"uid first", "body first", "simple item"}

\* What the pipeline may rely on: the request names the UIDs of the batch and
\* no others; a message gets its own octets or none, whatever they look like to
\* a parser; the first message listed under a UID gets them whenever a line of
\* the answer had them; and an error means that every attempt failed.
FetchContract ==
  /\ pc # "ask" /\ op \in {"batch", "single"} => Asked = {metas[i] : i \in DOMAIN metas}
  /\ pc = "done" /\ metas # <<>> =>
       /\ \A i \in DOMAIN metas : out[i] \in {Body[metas[i]], <<>>}
       /\ op = "single" => out = <<Body[metas[1]]>>
       /\ \A k \in DOMAIN meant : Complete(meant[k]) /\ meant[k].uid \in Asked =>
            \E i \in DOMAIN metas : metas[i] = meant[k].uid /\ out[i] = Body[metas[i]]
  /\ pc = "thrown" => attempt = attempts /\ answer = <<>>

\* The listing has one entry for every line that names a message, in order,
\* with that message's UID, flags, keywords, size and date, in whatever order
\* the server puts them, also with an item nobody asked for between them.  Its
\* value spells none of the keys: parseFetchResponse() passes over a key it does
\* not know and takes the words of its value for the next keys.
Listed(l) ==
  [uid |-> l.m.uid, flags |-> Range(l.m.words) \cap SystemFlags,
   keywords |-> Keep(l.m.words, {k \in DOMAIN l.m.words : l.m.words[k] \notin SystemFlags}),
   size |-> l.m.size, internal_date |-> l.m.size + 1]
ListingExact ==
  pc = "done" /\ op = "listing" =>
    out = Keep([k \in DOMAIN meant |-> Listed(meant[k])],
               {k \in DOMAIN meant : meant[k].form \notin {"no uid", "exists"}})

\* A folder comes back under the name the server must be sent, and its path is
\* the one the name spells, character by character, however the server quoted
\* and encoded it.
NamesRoundTrip ==
  pc = "done" /\ op = "folders" =>
    /\ Len(out) = Len(meant)
    /\ \A k \in DOMAIN meant :
         /\ out[k].info.raw_name = RawName(meant[k].f) /\ out[k].info.full_name = FullName(meant[k].f)
         /\ out[k].info.delimiter = meant[k].f.delimiter /\ out[k].info.selectable = meant[k].f.selectable
         /\ out[k].path = meant[k].f.parts

\* The retries come to an end: every call gets an answer or throws.
FetchReturns == <>(pc \in {"parse", "done", "thrown"})
=============================================================================
