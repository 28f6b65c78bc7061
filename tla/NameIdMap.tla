----------------------------- MODULE NameIdMap -----------------------------
(***************************************************************************)
(* Named properties: the name-to-id map of src/src/pst/nameid_map.cpp and  *)
(* the two places that mint ids in it, the categories of buildMessage()    *)
(* and applyHeaderProperties() of src/src/pst/pst_writer.cpp.              *)
(*                                                                         *)
(* A header is its name in one case, the spelling it came in, and whether  *)
(* a structured property covers it; its value is its place in the message. *)
(* A message that is refused later leaves the ids it minted behind.        *)
(***************************************************************************)
EXTENDS Integers, Sequences, FiniteSets, SequencesExt

CONSTANTS
  FirstNamedId,   \* kFirstNamedId
  MaxNames,       \* kMaxNames
  HeaderLists,    \* header lists of messages: sequences of [name, spelling, structured]
  MaxMessages     \* bound of the model

ASSUME NamesAssumption ==
  /\ FirstNamedId \in Nat \ {0} /\ MaxNames \in Nat \ {0} /\ MaxMessages \in Nat
  /\ HeaderLists \subseteq Seq([name : STRING, spelling : STRING, structured : BOOLEAN])

VARIABLES
  entries,  \* entries_ and string_stream_: the names in the order they were minted
  guids,    \* extra_guids_
  writing,  \* the message applyHeaderProperties() is at, or NoMessage
  stored    \* the messages written
vars == <<entries, guids, writing, stored>>

----------------------------------------------------------------------------
PublicStrings == "PS_PUBLIC_STRINGS"
InternetHeaders == "PS_INTERNET_HEADERS"

\* guidIndex(): two sets are predefined, the others are numbered from 3.
guidIndex(guid) ==
  IF guid = PublicStrings THEN 2
  ELSE IF guid \in ToSet(guids) THEN 2 + (CHOOSE i \in DOMAIN guids : guids[i] = guid)
  ELSE 3 + Len(guids)

GuidsWith(guid) ==
  IF guid = PublicStrings \/ guid \in ToSet(guids) THEN guids ELSE Append(guids, guid)

\* Fault: names are compared as they are spelled.
Known_BySpelling(guid, h) ==
  {i \in DOMAIN entries : entries[i].guid = guidIndex(guid) /\ entries[i].spelling = h.spelling}

\* The entry a name already has: by_string_ is keyed on set and folded name.
Known(guid, h) ==
  {i \in DOMAIN entries : entries[i].guid = guidIndex(guid) /\ entries[i].name = h.name}

\* idForString(): the known id, a new one, or 0 when the map is full.
Full == Len(entries) >= MaxNames

\* Fault: a known name is given the id after its own.
idForString_NextId(guid, h) ==
  IF Known(guid, h) # {} THEN FirstNamedId + (CHOOSE i \in Known(guid, h) : TRUE)
  ELSE IF Full THEN 0
  ELSE FirstNamedId + Len(entries)

idForString(guid, h) ==
  IF Known(guid, h) # {} THEN FirstNamedId + (CHOOSE i \in Known(guid, h) : TRUE) - 1
  ELSE IF Full THEN 0
  ELSE FirstNamedId + Len(entries)

Mint(guid, h) ==
  /\ guids' = GuidsWith(guid)
  /\ entries' = IF Known(guid, h) # {} \/ Full THEN entries
                ELSE Append(entries, [guid |-> guidIndex(guid), name |-> h.name, spelling |-> h.spelling])

----------------------------------------------------------------------------
(* One message.  todo holds the header names still to be given a property, *)
(* in the order of their first appearance.                                 *)

NoMessage == [busy |-> FALSE, headers |-> <<>>, todo |-> <<>>, props |-> {}, keywords |-> FALSE, category |-> 0]

Places(headers, name) == {i \in DOMAIN headers : headers[i].name = name /\ ~headers[i].structured}

\* The merge of applyHeaderProperties(): one name, all its values, and the
\* spelling it was first seen in.
FirstSeen(headers) ==
  {i \in DOMAIN headers : ~headers[i].structured
                          /\ \A j \in Places(headers, headers[i].name) : i <= j}
\* Fault: the last name is forgotten.
order_OneShort(headers) ==
  LET before(i) == Cardinality({j \in FirstSeen(headers) : j < i})
  IN  [k \in 1 .. (Cardinality(FirstSeen(headers)) - 1) |->
         headers[CHOOSE i \in FirstSeen(headers) : before(i) = k - 1]]

order(headers) ==
  LET before(i) == Cardinality({j \in FirstSeen(headers) : j < i})
  IN  [k \in 1 .. Cardinality(FirstSeen(headers)) |->
         headers[CHOOSE i \in FirstSeen(headers) : before(i) = k - 1]]

CategoryName == [name |-> "keywords", spelling |-> "Keywords"]

\* buildMessage() up to the headers: IMAP keywords become categories.
BeginMessage(headers, keywords) ==
  /\ writing = NoMessage /\ Len(stored) < MaxMessages
  /\ writing' = [busy |-> TRUE, headers |-> headers, todo |-> order(headers), props |-> {},
                 keywords |-> keywords,
                 category |-> IF keywords THEN idForString(PublicStrings, CategoryName) ELSE 0]
  /\ IF keywords THEN Mint(PublicStrings, CategoryName) ELSE UNCHANGED <<entries, guids>>
  /\ UNCHANGED stored

\* PropertyContext::put(): a property of the same id is replaced.
put(props, id, values) == {p \in props : p.id # id} \cup {[id |-> id, values |-> values]}

\* One turn of the last loop.  A full map ends it.
HeaderProperty ==
  LET header == Head(writing.todo)
      id     == idForString(InternetHeaders, header)
  IN  /\ writing.todo # <<>>
      /\ Mint(InternetHeaders, header)
      /\ writing' = IF id = 0 THEN [writing EXCEPT !.todo = <<>>]
                    ELSE [writing EXCEPT !.todo = Tail(@),
                            !.props = put(@, id, Places(writing.headers, header.name))]
      /\ UNCHANGED stored

EndMessage(accepted) ==
  /\ writing # NoMessage /\ writing.todo = <<>>
  /\ stored' = IF accepted THEN Append(stored, writing) ELSE stored
  /\ writing' = NoMessage
  /\ UNCHANGED <<entries, guids>>

----------------------------------------------------------------------------
\* PstWriter::init() registers the categories and one set of names.
Init ==
  /\ entries = <<[guid |-> 2, name |-> CategoryName.name, spelling |-> CategoryName.spelling]>>
  /\ guids = <<InternetHeaders>>
  /\ writing = NoMessage /\ stored = <<>>

Next ==
  \/ \E headers \in HeaderLists, keywords \in BOOLEAN : BeginMessage(headers, keywords)
  \/ HeaderProperty
  \/ \E accepted \in BOOLEAN : EndMessage(accepted)

Spec == Init /\ [][Next]_vars

----------------------------------------------------------------------------
(* Correctness.                                                            *)

\* "Content-Type and Content-type are one property and must share one id"
\* (limitations.md): no two entries of the map name the same property, however
\* messages spell their headers and in whatever order they arrive.
OneIdPerName ==
  \A i, j \in DOMAIN entries :
    entries[i].guid = entries[j].guid /\ entries[i].name = entries[j].name => i = j

\* What a reader gets for a stored property: its id leads to an entry of the
\* map as it stands at the end, and so at any later time.
NameOf(id) == entries[id - FirstNamedId + 1]

\* Every named property of a stored message resolves to a header of that message
\* and holds all the values of that header, under every spelling; categories
\* are always there, even in a store whose map is full.
PropertiesResolve ==
  \A m \in ToSet(stored) :
    /\ m.keywords => /\ m.category - FirstNamedId + 1 \in DOMAIN entries
                     /\ NameOf(m.category).name = CategoryName.name
    /\ \A p \in m.props :
         /\ p.id - FirstNamedId + 1 \in DOMAIN entries
         /\ NameOf(p.id).guid = guidIndex(InternetHeaders)
         /\ p.values = Places(m.headers, NameOf(p.id).name) /\ p.values # {}

\* A header whose name was among the first MaxNames has its property in every
\* message until the map is full.
HeadersAddressable ==
  \A m \in ToSet(stored) : ~Full =>
    {i \in DOMAIN m.headers : ~m.headers[i].structured} = UNION {p.values : p \in m.props}
=============================================================================
