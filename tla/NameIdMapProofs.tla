-------------------------- MODULE NameIdMapProofs --------------------------
(***************************************************************************)
(* Theorems about NameIdMap, for every size of the map and every sequence  *)
(* of messages with any headers: no name has two ids, every property that  *)
(* was stored resolves to its header for good, and until the map is full   *)
(* every header of every message has its property.                         *)
(***************************************************************************)
EXTENDS NameIdMap, NatLemmas, TLAPS

----------------------------------------------------------------------------
(* The inductive invariant, in parts.                                      *)

Headers == [name : STRING, spelling : STRING, structured : BOOLEAN]

\* The names of the map: the category is there from the start.
Names == STRING \cup {CategoryName.name, CategoryName.spelling}
MapEntries == [guid : Nat, name : Names, spelling : Names]
Properties == [id : Nat, values : SUBSET Nat]
Written == [busy : BOOLEAN, headers : Seq(Headers), todo : Seq(Headers),
            props : SUBSET Properties, keywords : BOOLEAN, category : Nat]

\* The map: the categories come first, and one set of names is known.
MapInv ==
  /\ entries \in Seq(MapEntries) /\ guids = <<InternetHeaders>>
  /\ Len(entries) >= 1 /\ entries[1].guid = 2 /\ entries[1].name = CategoryName.name

\* The entry an id leads to.
PlaceOf(id) == id - FirstNamedId + 1

\* What a message was given resolves in the map es.
Resolves(m, es) ==
  /\ m.keywords => /\ PlaceOf(m.category) \in DOMAIN es
                   /\ es[PlaceOf(m.category)].name = CategoryName.name
  /\ \A p \in m.props :
       /\ PlaceOf(p.id) \in DOMAIN es
       /\ es[PlaceOf(p.id)].guid = 3
       /\ p.values = Places(m.headers, es[PlaceOf(p.id)].name) /\ p.values # {}

\* Every header has its property, or its turn is still to come, or the map is
\* full.
Addressed(m, es) ==
  Len(es) < MaxNames =>
    \A i \in DOMAIN m.headers : ~m.headers[i].structured =>
      \/ \E k \in DOMAIN m.todo : m.todo[k].name = m.headers[i].name
      \/ \E p \in m.props : i \in p.values

\* What is still to come are headers that no structured property covers.
Pending(m) ==
  \A k \in DOMAIN m.todo : Places(m.headers, m.todo[k].name) # {}

MessageInv ==
  /\ writing \in Written /\ Resolves(writing, entries) /\ Addressed(writing, entries) /\ Pending(writing)
  /\ stored \in Seq(Written)
  /\ \A k \in DOMAIN stored :
       /\ Resolves(stored[k], entries) /\ Addressed(stored[k], entries)
       /\ stored[k].todo = <<>>

IInv == MapInv /\ OneIdPerName /\ MessageInv

----------------------------------------------------------------------------
(* The merge of applyHeaderProperties().                                   *)

\* A header without a structured property has a first appearance.
LEMMA HasFirst ==
  ASSUME NEW hs \in Seq(Headers), NEW i \in DOMAIN hs, ~hs[i].structured
  PROVE  \E j \in FirstSeen(hs) : hs[j].name = hs[i].name
<1>1. Places(hs, hs[i].name) \subseteq Nat /\ i \in Places(hs, hs[i].name)
  BY DEF Places
<1>2. PICK j \in Places(hs, hs[i].name) : \A y \in Places(hs, hs[i].name) : j <= y
  BY <1>1, Least
<1> QED
  BY <1>2 DEF Places, FirstSeen

\* order() holds headers of the list, one for each first appearance.
LEMMA OrderFacts ==
  ASSUME NEW hs \in Seq(Headers)
  PROVE  /\ order(hs) \in Seq(Headers)
         /\ \A k \in DOMAIN order(hs) : Places(hs, order(hs)[k].name) # {}
         /\ \A j \in FirstSeen(hs) : \E k \in DOMAIN order(hs) : order(hs)[k].name = hs[j].name
<1> DEFINE S == FirstSeen(hs)
           n == Len(hs)
           c == Cardinality(S)
           at(k) == CHOOSE i \in S : Cardinality(Below(S, i)) = k - 1
<1>1. n \in Nat /\ S \subseteq 0 .. n /\ S \subseteq DOMAIN hs
  BY DEF FirstSeen
<1>2. order(hs) = [k \in 1 .. c |-> hs[at(k)]]
  BY DEF order, Below
<1>c. c \in Nat
  <2>1. IsFiniteSet(S)
    <3>1. IsFiniteSet(0 .. n)
      BY <1>1, FS_Interval
    <3> QED
      BY <1>1, <3>1, FS_Subset
  <2> QED
    BY <2>1, FS_CardinalityType
<1>3. ASSUME NEW k \in 1 .. c PROVE at(k) \in S /\ Cardinality(Below(S, at(k))) = k - 1
  <2>1. k - 1 \in Nat /\ k - 1 < c
    BY <1>c
  <2>2. \E i \in S : Cardinality(Below(S, i)) = k - 1
    BY <1>1, <2>1, RankExists
  <2> QED
    BY <2>2
<1>4. ASSUME NEW j \in S PROVE \E k \in 1 .. c : at(k) = j
  <2> DEFINE r == Cardinality(Below(S, j))
  <2>1. r \in Nat /\ r < c
    BY <1>1, BelowFinite
  <2>2. r + 1 \in 1 .. c
    BY <1>c, <2>1
  <2>3. at(r + 1) \in S /\ Cardinality(Below(S, at(r + 1))) = r
    BY <1>3, <2>1, <2>2
  <2>4. at(r + 1) = j
    BY <1>1, <2>3, RankUnique
  <2> QED
    BY <2>2, <2>4
<1>5. \A j \in S : hs[j] \in Headers /\ Places(hs, hs[j].name) # {}
  <2>1. \A j \in S : j \in DOMAIN hs /\ ~hs[j].structured
    BY DEF FirstSeen
  <2> QED
    BY <2>1 DEF Places
<1> HIDE DEF S, n, c, at
<1>6. order(hs) \in Seq(Headers) /\ DOMAIN order(hs) = 1 .. c
  BY <1>2, <1>c, <1>3, <1>5
<1>7. \A k \in 1 .. c : Places(hs, order(hs)[k].name) # {}
  BY <1>2, <1>3, <1>5
<1>8. \A j \in S : \E k \in 1 .. c : order(hs)[k].name = hs[j].name
  BY <1>2, <1>4
<1> QED
  BY <1>6, <1>7, <1>8 DEF S

----------------------------------------------------------------------------
(* The map.                                                                *)

\* The map only grows: what an id led to it leads to still.
Grows(es, fs) ==
  /\ Len(es) <= Len(fs) /\ Len(es) \in Nat /\ Len(fs) \in Nat
  /\ \A i \in DOMAIN es : i \in DOMAIN fs /\ fs[i] = es[i]

\* The two sets of names in use have their numbers, and stay the only ones.
LEMMA GuidFacts ==
  ASSUME MapInv
  PROVE  /\ guidIndex(PublicStrings) = 2 /\ guidIndex(InternetHeaders) = 3
         /\ GuidsWith(PublicStrings) = guids /\ GuidsWith(InternetHeaders) = guids
<1>1. guids = <<InternetHeaders>> /\ DOMAIN guids = {1} /\ guids[1] = InternetHeaders
  BY DEF MapInv
<1>2. ToSet(guids) = {InternetHeaders}
  BY <1>1 DEF ToSet
<1>3. (CHOOSE i \in DOMAIN guids : guids[i] = InternetHeaders) = 1
  BY <1>1
<1>4. PublicStrings # InternetHeaders
  BY DEF PublicStrings, InternetHeaders
<1>5. guidIndex(PublicStrings) = 2 /\ GuidsWith(PublicStrings) = guids
  BY DEF guidIndex, GuidsWith
<1>6. GuidsWith(InternetHeaders) = guids
  BY <1>2 DEF GuidsWith
<1>7. guidIndex(InternetHeaders) = 3
  <2>1. InternetHeaders \in ToSet(guids)
    BY <1>2
  <2> DEFINE place == CHOOSE i \in DOMAIN guids : guids[i] = InternetHeaders
  <2>2. guidIndex(InternetHeaders) = 2 + place
    BY <1>4, <2>1, Zenon DEF guidIndex
  <2>3. place = 1
    BY <1>3
  <2> HIDE DEF place
  <2> QED
    BY <2>2, <2>3
<1> QED
  BY <1>5, <1>6, <1>7

\* idForString() gives a name the id of its only entry, an old one or the one
\* it has just added, and gives none only when the map is full.
LEMMA MintFacts ==
  ASSUME MapInv, OneIdPerName, NEW guid \in {PublicStrings, InternetHeaders}, NEW h,
         h.name \in Names, h.spelling \in Names, Mint(guid, h),
         NEW id, id = idForString(guid, h)
  PROVE  /\ MapInv' /\ OneIdPerName' /\ Grows(entries, entries') /\ id \in Nat
         /\ id = 0 => Len(entries') >= MaxNames
         /\ id # 0 => /\ PlaceOf(id) \in DOMAIN entries'
                      /\ entries'[PlaceOf(id)].guid = guidIndex(guid)
                      /\ entries'[PlaceOf(id)].name = h.name
<1> DEFINE g == guidIndex(guid)
           e == [guid |-> g, name |-> h.name, spelling |-> h.spelling]
           n == Len(entries)
<1>0. /\ entries \in Seq(MapEntries) /\ n \in Nat /\ DOMAIN entries = 1 .. n /\ n >= 1
      /\ guids' = guids /\ g \in {2, 3} /\ FirstNamedId \in Nat \ {0} /\ MaxNames \in Nat
  BY GuidFacts, NamesAssumption DEF MapInv, Mint, NamesAssumption
<1>e. e \in MapEntries
  BY <1>0 DEF MapEntries
<1>1. CASE Known(guid, h) # {}
  <2> DEFINE i == CHOOSE i \in Known(guid, h) : TRUE
  <2>1. i \in Known(guid, h)
    BY <1>1
  <2> HIDE DEF i
  <2>2. i \in 1 .. n /\ entries[i].guid = g /\ entries[i].name = h.name
    BY <1>0, <2>1 DEF Known
  <2>3. id = FirstNamedId + i - 1 /\ entries' = entries
    BY <1>1 DEF idForString, Mint, i
  <2>4. id \in Nat /\ id # 0 /\ PlaceOf(id) = i
    BY <1>0, <2>2, <2>3 DEF PlaceOf
  <2>5. MapInv' /\ OneIdPerName'
    BY <1>0, <2>3 DEF MapInv, OneIdPerName
  <2> QED
    BY <1>0, <2>2, <2>3, <2>4, <2>5 DEF Grows
<1>2. CASE Known(guid, h) = {} /\ Full
  <2>1. id = 0 /\ entries' = entries
    BY <1>2 DEF idForString, Mint
  <2>2. MapInv' /\ OneIdPerName'
    BY <1>0, <2>1 DEF MapInv, OneIdPerName
  <2> QED
    BY <1>0, <1>2, <2>1, <2>2 DEF Full, Grows
<1>3. CASE Known(guid, h) = {} /\ ~Full
  <2>1. id = FirstNamedId + n /\ entries' = Append(entries, e)
    BY <1>3 DEF idForString, Mint
  <2>k. \A i \in DOMAIN entries : ~(entries[i].guid = g /\ entries[i].name = h.name)
    BY <1>3 DEF Known
  <2>e. e.guid = g /\ e.name = h.name
    OBVIOUS
  <2> HIDE DEF e
  <2>2. /\ entries' \in Seq(MapEntries) /\ Len(entries') = n + 1
        /\ DOMAIN entries' = 1 .. (n + 1) /\ entries'[n + 1] = e
        /\ \A i \in 1 .. n : entries'[i] = entries[i]
    BY <1>0, <1>e, <2>1
  <2>3. id \in Nat /\ id # 0 /\ PlaceOf(id) = n + 1
    BY <1>0, <2>1 DEF PlaceOf
  <2>4. MapInv'
    BY <1>0, <2>2 DEF MapInv
  <2>5. OneIdPerName'
    <3> SUFFICES ASSUME NEW i \in 1 .. (n + 1), NEW j \in 1 .. (n + 1),
                        entries'[i].guid = entries'[j].guid, entries'[i].name = entries'[j].name
                 PROVE  i = j
      BY <2>2 DEF OneIdPerName
    <3>1. CASE i \in 1 .. n /\ j \in 1 .. n
      BY <1>0, <2>2, <3>1 DEF OneIdPerName
    <3>2. CASE i = n + 1 /\ j \in 1 .. n
      BY <1>0, <2>k, <2>e, <2>2, <3>2
    <3>3. CASE j = n + 1 /\ i \in 1 .. n
      BY <1>0, <2>k, <2>e, <2>2, <3>3
    <3> QED
      BY <1>0, <3>1, <3>2, <3>3
  <2> QED
    BY <1>0, <2>e, <2>2, <2>3, <2>4, <2>5 DEF Grows
<1> QED
  BY <1>1, <1>2, <1>3

\* What resolved, resolves in a map that has grown.
LEMMA GrowsKeeps ==
  ASSUME NEW es, NEW fs, Grows(es, fs), NEW m
  PROVE  /\ Resolves(m, es) => Resolves(m, fs)
         /\ Addressed(m, es) => Addressed(m, fs)
<1>1. Resolves(m, es) => Resolves(m, fs)
  BY DEF Resolves, Grows
<1>2. Addressed(m, es) => Addressed(m, fs)
  BY NamesAssumption DEF Addressed, Grows, NamesAssumption
<1> QED
  BY <1>1, <1>2

----------------------------------------------------------------------------
(* Messages.                                                               *)

\* Every step keeps the stored messages as they should be, once the map grows.
LEMMA StoredKept ==
  ASSUME MessageInv, Grows(entries, entries')
  PROVE  /\ stored \in Seq(Written)
         /\ \A k \in DOMAIN stored :
              /\ Resolves(stored[k], entries') /\ Addressed(stored[k], entries')
              /\ stored[k].todo = <<>>
  BY GrowsKeeps DEF MessageInv

\* The message being written changes, the stored ones do not.
LEMMA MessageInvNext ==
  ASSUME MessageInv, Grows(entries, entries'), stored' = stored,
         writing' \in Written, Resolves(writing', entries'), Addressed(writing', entries'),
         Pending(writing')
  PROVE  MessageInv'
  BY StoredKept DEF MessageInv

\* A message begins with all its headers to come and its category resolved.
LEMMA BeginStep ==
  ASSUME IInv, NEW headers \in HeaderLists, NEW keywords \in BOOLEAN,
         BeginMessage(headers, keywords)
  PROVE  IInv'
<1> DEFINE id == idForString(PublicStrings, CategoryName)
           w == [busy |-> TRUE, headers |-> headers, todo |-> order(headers), props |-> {},
                 keywords |-> keywords, category |-> IF keywords THEN id ELSE 0]
<1>1. writing' = w /\ stored' = stored
  BY DEF BeginMessage
<1>2. headers \in Seq(Headers)
  BY NamesAssumption DEF NamesAssumption, Headers
<1>3. /\ order(headers) \in Seq(Headers)
      /\ \A k \in DOMAIN order(headers) : Places(headers, order(headers)[k].name) # {}
      /\ \A j \in FirstSeen(headers) :
           \E k \in DOMAIN order(headers) : order(headers)[k].name = headers[j].name
  BY <1>2, OrderFacts
<1>4. /\ MapInv' /\ OneIdPerName' /\ Grows(entries, entries')
      /\ w.category \in Nat
      /\ keywords => /\ PlaceOf(id) \in DOMAIN entries'
                     /\ entries'[PlaceOf(id)].name = CategoryName.name
  <2>1. CASE keywords
    <3>1. Mint(PublicStrings, CategoryName)
      BY <2>1 DEF BeginMessage
    <3>2. Known(PublicStrings, CategoryName) # {}
      <4>1. 1 \in DOMAIN entries /\ entries[1].guid = 2 /\ entries[1].name = CategoryName.name
        BY DEF IInv, MapInv
      <4>2. guidIndex(PublicStrings) = 2
        BY GuidFacts DEF IInv
      <4> QED
        BY <4>1, <4>2 DEF Known
    <3>3. id # 0
      <4>1. \A i \in Known(PublicStrings, CategoryName) : i \in Nat \ {0}
        BY DEF Known, IInv, MapInv
      <4>2. (CHOOSE i \in Known(PublicStrings, CategoryName) : TRUE) \in Nat \ {0}
        BY <3>2, <4>1
      <4> QED
        BY <3>2, <4>2, NamesAssumption DEF idForString, NamesAssumption
    <3>4. CategoryName.name \in Names /\ CategoryName.spelling \in Names
      BY DEF Names
    <3> HIDE DEF id
    <3>5. id = idForString(PublicStrings, CategoryName)
      BY DEF id
    <3>6. /\ MapInv' /\ OneIdPerName' /\ Grows(entries, entries') /\ id \in Nat
          /\ PlaceOf(id) \in DOMAIN entries' /\ entries'[PlaceOf(id)].name = CategoryName.name
      BY <3>1, <3>3, <3>4, <3>5, MintFacts DEF IInv
    <3> QED
      BY <2>1, <3>6
  <2>2. CASE ~keywords
    <3>1. UNCHANGED <<entries, guids>>
      BY <2>2 DEF BeginMessage
    <3>2. Len(entries) \in Nat /\ Grows(entries, entries')
      BY <3>1 DEF IInv, MapInv, Grows
    <3>3. MapInv' /\ OneIdPerName'
      BY <3>1 DEF IInv, MapInv, OneIdPerName
    <3> QED
      BY <2>2, <3>2, <3>3
  <2> QED
    BY <2>1, <2>2
<1>5. w \in Written
  BY <1>2, <1>3, <1>4 DEF Written
<1>6. Resolves(w, entries') /\ Pending(w)
  BY <1>3, <1>4 DEF Resolves, Pending
<1>7. Addressed(w, entries')
  <2> SUFFICES ASSUME NEW i \in DOMAIN headers, ~headers[i].structured
               PROVE  \E k \in DOMAIN order(headers) : order(headers)[k].name = headers[i].name
    BY DEF Addressed
  <2> QED
    BY <1>2, <1>3, HasFirst
<1> HIDE DEF w
<1> QED
  BY <1>1, <1>4, <1>5, <1>6, <1>7, MessageInvNext DEF IInv

\* What a replaced or added property of the message leaves of the others.
LEMMA PutFacts ==
  ASSUME NEW props, NEW id, NEW values
  PROVE  /\ [id |-> id, values |-> values] \in put(props, id, values)
         /\ \A p \in put(props, id, values) :
              p \in props \/ p = [id |-> id, values |-> values]
         /\ \A p \in props : p.id # id => p \in put(props, id, values)
  BY DEF put

\* A turn of the loop gives the next header its property, with all its values,
\* or ends the loop for good because the map is full.
LEMMA HeaderStep ==
  ASSUME IInv, HeaderProperty
  PROVE  IInv'
<1> DEFINE header == Head(writing.todo)
           id == idForString(InternetHeaders, header)
           values == Places(writing.headers, header.name)
           n == Len(writing.todo)
<1>1. /\ writing.todo # <<>> /\ Mint(InternetHeaders, header) /\ stored' = stored
      /\ writing' = IF id = 0 THEN [writing EXCEPT !.todo = <<>>]
                    ELSE [writing EXCEPT !.todo = Tail(writing.todo),
                            !.props = put(writing.props, id, values)]
  BY DEF HeaderProperty
<1>2. /\ writing \in Written /\ Resolves(writing, entries) /\ Addressed(writing, entries)
      /\ Pending(writing)
  BY DEF IInv, MessageInv
<1>3. /\ writing.todo \in Seq(Headers) /\ writing.headers \in Seq(Headers)
      /\ writing.props \in SUBSET Properties
  BY <1>2 DEF Written
<1>4. /\ n \in Nat \ {0} /\ DOMAIN writing.todo = 1 .. n /\ header = writing.todo[1]
      /\ header \in Headers /\ Tail(writing.todo) \in Seq(Headers)
      /\ DOMAIN Tail(writing.todo) = 1 .. (n - 1)
      /\ \A k \in 1 .. (n - 1) : Tail(writing.todo)[k] = writing.todo[k + 1]
  BY <1>1, <1>3
<1>5. header.name \in Names /\ header.spelling \in Names
  BY <1>4 DEF Headers, Names
<1>6. values \subseteq Nat /\ values # {}
  <2>1. values \subseteq Nat
    BY <1>3 DEF Places
  <2>2. values # {}
    BY <1>2, <1>4 DEF Pending
  <2> QED
    BY <2>1, <2>2
<1>7. guidIndex(InternetHeaders) = 3
  BY GuidFacts DEF IInv
<1> HIDE DEF header, id, values, n
<1>8. id = idForString(InternetHeaders, header)
  BY DEF id
<1>9. /\ MapInv' /\ OneIdPerName' /\ Grows(entries, entries') /\ id \in Nat
      /\ id = 0 => Len(entries') >= MaxNames
      /\ id # 0 => /\ PlaceOf(id) \in DOMAIN entries'
                   /\ entries'[PlaceOf(id)].guid = 3
                   /\ entries'[PlaceOf(id)].name = header.name
  BY <1>1, <1>5, <1>7, <1>8, MintFacts DEF IInv
<1>10. Resolves(writing, entries') /\ Addressed(writing, entries')
  BY <1>2, <1>9, GrowsKeeps
<1>11. CASE id = 0
  <2>1. writing' = [writing EXCEPT !.todo = <<>>]
    BY <1>1, <1>11
  <2>2. writing' \in Written
    <3>1. <<>> \in Seq(Headers)
      OBVIOUS
    <3> HIDE DEF Headers
    <3> QED
      BY <1>2, <2>1, <3>1 DEF Written
  <2>3. /\ writing'.todo = <<>> /\ writing'.props = writing.props
        /\ writing'.headers = writing.headers /\ writing'.keywords = writing.keywords
        /\ writing'.category = writing.category
    BY <1>2, <2>1 DEF Written
  <2>4. Resolves(writing', entries') /\ Pending(writing')
    BY <1>10, <2>3 DEF Resolves, Pending
  <2>5. Len(entries') \in Nat /\ MaxNames \in Nat
    BY <1>9, NamesAssumption DEF Grows, NamesAssumption
  <2>6. Addressed(writing', entries')
    BY <1>9, <1>11, <2>5 DEF Addressed
  <2> QED
    BY <1>1, <1>9, <2>2, <2>4, <2>6, MessageInvNext DEF IInv
<1>12. CASE id # 0
  <2> DEFINE new == [id |-> id, values |-> values]
  <2>1. /\ writing'.todo = Tail(writing.todo)
        /\ writing'.props = put(writing.props, id, values)
        /\ writing'.headers = writing.headers /\ writing'.keywords = writing.keywords
        /\ writing'.category = writing.category /\ writing'.busy = writing.busy
        /\ DOMAIN writing' = DOMAIN writing
    BY <1>1, <1>2, <1>12 DEF Written
  <2>2. /\ new \in writing'.props /\ \A p \in writing'.props : p \in writing.props \/ p = new
        /\ \A p \in writing.props : p.id # id => p \in writing'.props
    BY <2>1, PutFacts
  <2>3. new \in Properties
    BY <1>6, <1>9 DEF Properties
  <2>4. new.id = id /\ new.values = values
    OBVIOUS
  <2> HIDE DEF new
  <2>5. writing' \in Written
    <3>1. put(writing.props, id, values) \in SUBSET Properties
      BY <1>3, <2>1, <2>2, <2>3
    <3> QED
      BY <1>1, <1>2, <1>4, <1>12, <2>1, <3>1 DEF Written
  <2>6. Resolves(writing', entries')
    <3>1. /\ PlaceOf(new.id) \in DOMAIN entries' /\ entries'[PlaceOf(new.id)].guid = 3
          /\ new.values = Places(writing.headers, entries'[PlaceOf(new.id)].name)
          /\ new.values # {}
      BY <1>6, <1>9, <1>12, <2>4 DEF values
    <3> QED
      BY <1>10, <2>1, <2>2, <3>1 DEF Resolves
  <2>7. Pending(writing')
    <3> SUFFICES ASSUME NEW k \in 1 .. (n - 1)
                 PROVE  Places(writing.headers, Tail(writing.todo)[k].name) # {}
      BY <1>4, <2>1 DEF Pending
    <3>1. k + 1 \in 1 .. n /\ Tail(writing.todo)[k] = writing.todo[k + 1]
      BY <1>4
    <3> QED
      BY <1>2, <1>4, <3>1 DEF Pending
  <2>8. Addressed(writing', entries')
    <3> SUFFICES ASSUME Len(entries') < MaxNames,
                        NEW i \in DOMAIN writing.headers, ~writing.headers[i].structured
                 PROVE  \/ \E k \in DOMAIN writing'.todo :
                             writing'.todo[k].name = writing.headers[i].name
                        \/ \E p \in writing'.props : i \in p.values
      BY <2>1 DEF Addressed
    <3>1. \/ \E k \in DOMAIN writing.todo : writing.todo[k].name = writing.headers[i].name
          \/ \E p \in writing.props : i \in p.values
      BY <1>10 DEF Addressed
    <3>2. CASE writing.headers[i].name = header.name
      <4>1. i \in values
        BY <3>2 DEF values, Places
      <4> QED
        BY <2>2, <2>4, <4>1
    <3>3. CASE /\ writing.headers[i].name # header.name
               /\ \E k \in DOMAIN writing.todo : writing.todo[k].name = writing.headers[i].name
      <4>1. PICK k \in 1 .. n : writing.todo[k].name = writing.headers[i].name
        BY <1>4, <3>3
      <4>2. k # 1
        BY <1>4, <3>3, <4>1
      <4>3. k - 1 \in 1 .. (n - 1) /\ (k - 1) + 1 = k
        BY <1>4, <4>1, <4>2
      <4>4. Tail(writing.todo)[k - 1].name = writing.headers[i].name
        BY <1>4, <4>1, <4>3
      <4> QED
        BY <1>4, <2>1, <4>3, <4>4
    <3>4. CASE /\ writing.headers[i].name # header.name
               /\ \E p \in writing.props : i \in p.values
      <4>1. PICK p \in writing.props : i \in p.values
        BY <3>4
      <4>2. p.values = Places(writing.headers, entries'[PlaceOf(p.id)].name)
        BY <1>10, <4>1 DEF Resolves
      <4>3. writing.headers[i].name = entries'[PlaceOf(p.id)].name
        BY <4>1, <4>2 DEF Places
      <4>4. p.id # id
        BY <1>9, <1>12, <3>4, <4>3
      <4> QED
        BY <2>2, <4>1, <4>4
    <3> QED
      BY <3>1, <3>2, <3>3, <3>4
  <2> QED
    BY <1>1, <1>9, <2>5, <2>6, <2>7, <2>8, MessageInvNext DEF IInv
<1> QED
  BY <1>11, <1>12

\* No message resolves to nothing.
LEMMA NoMessageFacts ==
  ASSUME NEW es
  PROVE  /\ NoMessage \in Written /\ Resolves(NoMessage, es) /\ Addressed(NoMessage, es)
         /\ Pending(NoMessage)
<1>1. /\ NoMessage.busy = FALSE /\ NoMessage.headers = <<>> /\ NoMessage.todo = <<>>
      /\ NoMessage.props = {} /\ NoMessage.keywords = FALSE /\ NoMessage.category = 0
  BY DEF NoMessage
<1>2. NoMessage \in Written
  BY DEF NoMessage, Written
<1> QED
  BY <1>1, <1>2 DEF Resolves, Addressed, Pending

\* A message that is accepted is stored as it was written.
LEMMA EndStep ==
  ASSUME IInv, NEW accepted \in BOOLEAN, EndMessage(accepted)
  PROVE  IInv'
<1>1. /\ writing.todo = <<>> /\ entries' = entries /\ guids' = guids /\ writing' = NoMessage
      /\ stored' = IF accepted THEN Append(stored, writing) ELSE stored
  BY DEF EndMessage
<1>2. MapInv' /\ OneIdPerName' /\ Grows(entries, entries')
  BY <1>1 DEF IInv, MapInv, OneIdPerName, Grows
<1>3. /\ writing \in Written /\ Resolves(writing, entries) /\ Addressed(writing, entries)
      /\ stored \in Seq(Written) /\ Len(stored) \in Nat /\ DOMAIN stored = 1 .. Len(stored)
      /\ \A k \in DOMAIN stored :
           /\ Resolves(stored[k], entries) /\ Addressed(stored[k], entries)
           /\ stored[k].todo = <<>>
  BY DEF IInv, MessageInv
<1>4. CASE accepted
  <2>1. /\ stored' \in Seq(Written) /\ DOMAIN stored' = 1 .. (Len(stored) + 1)
        /\ stored'[Len(stored) + 1] = writing
        /\ \A k \in 1 .. Len(stored) : stored'[k] = stored[k]
    BY <1>1, <1>3, <1>4
  <2>2. ASSUME NEW k \in DOMAIN stored'
        PROVE  /\ Resolves(stored'[k], entries) /\ Addressed(stored'[k], entries)
               /\ stored'[k].todo = <<>>
    <3>1. k \in 1 .. Len(stored) \/ k = Len(stored) + 1
      BY <1>3, <2>1
    <3> QED
      BY <1>1, <1>3, <2>1, <3>1
  <2>3. MessageInv'
    BY <1>1, <2>1, <2>2, NoMessageFacts DEF MessageInv
  <2> QED
    BY <1>2, <2>3 DEF IInv
<1>5. CASE ~accepted
  BY <1>1, <1>2, <1>5, NoMessageFacts, MessageInvNext DEF IInv
<1> QED
  BY <1>4, <1>5

----------------------------------------------------------------------------
(* The theorems.                                                           *)

\* The writer starts in the invariant.
LEMMA InitIInv == Init => IInv
<1> SUFFICES ASSUME Init PROVE IInv
  OBVIOUS
<1> DEFINE e == [guid |-> 2, name |-> CategoryName.name, spelling |-> CategoryName.spelling]
<1>1. entries = <<e>> /\ guids = <<InternetHeaders>> /\ writing = NoMessage /\ stored = <<>>
  BY DEF Init
<1>2. CategoryName.name \in Names /\ CategoryName.spelling \in Names
  BY DEF Names
<1>3. e \in MapEntries /\ e.guid = 2 /\ e.name = CategoryName.name
  BY <1>2 DEF MapEntries
<1> HIDE DEF e
<1>4. entries \in Seq(MapEntries) /\ Len(entries) = 1 /\ DOMAIN entries = {1} /\ entries[1] = e
  BY <1>1, <1>3
<1>5. MapInv /\ OneIdPerName
  BY <1>1, <1>3, <1>4 DEF MapInv, OneIdPerName
<1>6. MessageInv
  BY <1>1, NoMessageFacts DEF MessageInv
<1> QED
  BY <1>5, <1>6 DEF IInv

\* Every step preserves the invariant.
LEMMA StepIInv == IInv /\ [Next]_vars => IInv'
<1> SUFFICES ASSUME IInv, [Next]_vars PROVE IInv'
  OBVIOUS
<1>1. CASE \E headers \in HeaderLists, keywords \in BOOLEAN : BeginMessage(headers, keywords)
  BY <1>1, BeginStep
<1>2. CASE HeaderProperty
  BY <1>2, HeaderStep
<1>3. CASE \E accepted \in BOOLEAN : EndMessage(accepted)
  BY <1>3, EndStep
<1>4. CASE UNCHANGED vars
  BY <1>4 DEF vars, IInv, MapInv, OneIdPerName, MessageInv
<1> QED
  BY <1>1, <1>2, <1>3, <1>4 DEF Next

\* The invariant holds throughout.
LEMMA IInvAlways == Spec => []IInv
  BY InitIInv, StepIInv, PTL DEF Spec

\* No two entries of the map name the same property, in any order of messages
\* and spellings and for any bound of the map: by_string_ is asked before
\* idForString() adds an entry.
THEOREM NamesHaveOneId == Spec => []OneIdPerName
  BY IInvAlways, PTL DEF IInv

\* Every property of a stored message leads to the header it came from and
\* holds all its values, whatever messages are written, refused or dropped
\* afterwards: idForString() only ever adds to the map.
THEOREM StoredPropertiesResolve == Spec => []PropertiesResolve
<1>1. IInv => PropertiesResolve
  <2> SUFFICES ASSUME IInv, NEW m \in ToSet(stored)
               PROVE  /\ m.keywords => /\ m.category - FirstNamedId + 1 \in DOMAIN entries
                                       /\ NameOf(m.category).name = CategoryName.name
                      /\ \A p \in m.props :
                           /\ p.id - FirstNamedId + 1 \in DOMAIN entries
                           /\ NameOf(p.id).guid = guidIndex(InternetHeaders)
                           /\ p.values = Places(m.headers, NameOf(p.id).name) /\ p.values # {}
    BY DEF PropertiesResolve
  <2>1. PICK k \in DOMAIN stored : m = stored[k]
    BY DEF ToSet
  <2>2. Resolves(m, entries)
    BY <2>1 DEF IInv, MessageInv
  <2>3. guidIndex(InternetHeaders) = 3
    BY GuidFacts DEF IInv
  <2> QED
    BY <2>2, <2>3 DEF Resolves, NameOf, PlaceOf
<1> QED
  BY <1>1, IInvAlways, PTL

\* Until the map is full every header of every stored message is in one of its
\* properties, and no structured header is: applyHeaderProperties() leaves its
\* loop early only when idForString() has no id to give.
THEOREM AllHeadersAddressable == Spec => []HeadersAddressable
<1>1. IInv => HeadersAddressable
  <2> SUFFICES ASSUME IInv, NEW m \in ToSet(stored), ~Full
               PROVE  {i \in DOMAIN m.headers : ~m.headers[i].structured}
                        = UNION {p.values : p \in m.props}
    BY DEF HeadersAddressable
  <2>1. PICK k \in DOMAIN stored : m = stored[k]
    BY DEF ToSet
  <2>2. Resolves(m, entries) /\ Addressed(m, entries) /\ m.todo = <<>>
    BY <2>1 DEF IInv, MessageInv
  <2>3. Len(entries) < MaxNames
    <3>1. Len(entries) \in Nat /\ MaxNames \in Nat
      BY NamesAssumption DEF NamesAssumption, IInv, MapInv
    <3> QED
      BY <3>1 DEF Full
  <2>4. DOMAIN m.todo = {}
    BY <2>2
  <2>5. ASSUME NEW i \in DOMAIN m.headers, ~m.headers[i].structured
        PROVE  \E p \in m.props : i \in p.values
    BY <2>2, <2>3, <2>4, <2>5 DEF Addressed
  <2>6. ASSUME NEW p \in m.props, NEW i \in p.values
        PROVE  i \in DOMAIN m.headers /\ ~m.headers[i].structured
    BY <2>2 DEF Resolves, Places
  <2> QED
    BY <2>5, <2>6
<1> QED
  BY <1>1, IInvAlways, PTL
=============================================================================
