--------------------------- MODULE PipelineProofs ---------------------------
(***************************************************************************)
(* Theorems about Pipeline, for every mailbox, batch limit, number of      *)
(* runs and pattern of refusals, short answers and torn spool files: type  *)
(* correctness, that every listed message is settled exactly once, that it *)
(* is written with its own source and in listing order, what exit status 0 *)
(* means, that nothing spooled is fetched again, and that the pipeline     *)
(* implements Migration.                                                   *)
(***************************************************************************)
EXTENDS Pipeline, FiniteSetTheorems, TLAPS

\* wantedVars only abbreviates the tuple of the fetch loop's locals.
USE DEF wantedVars

----------------------------------------------------------------------------
(* The inductive invariant, in parts.                                      *)

Walking  == {"listing", "batch", "lookup", "fetch", "collect", "write"}
Batching == {"batch", "lookup", "fetch", "collect", "write"}
Filled   == {"lookup", "fetch", "collect", "write"}
Seeking  == {"lookup", "fetch", "collect"}

Entries == [folder : Folders, index : Nat, body : Bodies]

\* Message i of folder f has an entry in s.
Has(s, f, i) == \E k \in DOMAIN s : s[k].folder = f /\ s[k].index = i

\* Messages of the folder before this one are through.
Through == IF pc = "write" THEN next ELSE lo

\* The walk: a folder is on the walk, or is worked on, or has been listed; the
\* lists of a run start empty.
WalkInv ==
  /\ pc \in Walking => folder \in Folders \ todo
  /\ listed \cap todo = {}
  /\ pc = "listing" => folder \notin listed
  /\ pc \in Batching => folder \in listed
  /\ pc = "start" => listed = {} /\ pst = <<>> /\ failed = <<>>

\* The batch: its bounds, and when messages of it can be counted as failed.
BatchInv ==
  /\ lo \in Nat /\ hi \in Nat /\ next \in Nat
  /\ pc \in Batching => 1 <= lo /\ lo <= hi /\ hi <= Len(metas) + 1
  /\ pc \in Filled => lo < hi /\ DOMAIN raws = lo .. (hi - 1) /\ lo <= next /\ next < hi
  /\ pc \in {"fetch", "collect"} => next = lo
  /\ pc \notin {"collect", "write"} => accounted = {}

\* The parallel vectors: each wanted entry is the one listed at its place, the
\* places ascend, and only places the fetch loop has passed are counted.
WantedInv ==
  /\ pc \notin Seeking => wanted = <<>>
  /\ pc # "collect" => at = 1
  /\ pc \in {"fetch", "collect"} => at \in 1 .. Len(wanted)
  /\ Len(wanted_at) = Len(wanted)
  /\ \A k \in 1 .. Len(wanted) :
       wanted_at[k] \in lo .. (hi - 1) /\ wanted[k] = metas[wanted_at[k]]
  /\ \A j, k \in 1 .. Len(wanted) : j < k => wanted_at[j] < wanted_at[k]
  /\ pc = "lookup" => \A k \in 1 .. Len(wanted) : wanted_at[k] < next
  /\ pc = "collect" => /\ Len(got) = Len(wanted)
                       /\ \A i \in accounted : \E k \in 1 .. Len(wanted) :
                            k < at /\ i = wanted_at[k]

\* The bodies of the batch: a message has none or its own, also in what the
\* batch fetch returned; one that is wanted or counted has none.
RawsInv ==
  /\ pc \in Filled => \A i \in DOMAIN raws : raws[i] = NoBody \/ raws[i].of = Key(folder, i)
  /\ \A k \in 1 .. Len(wanted) : k >= at => raws[wanted_at[k]] = NoBody
  /\ \A i \in accounted : raws[i] = NoBody
  /\ pc = "lookup" => \A i \in next .. (hi - 1) : raws[i] = NoBody
  /\ pc = "collect" => \A k \in 1 .. Len(wanted) :
                         got[k] = NoBody \/ got[k].of = <<folder, wanted[k].uid>>

\* And so has each file of the spool.
BodyInv == RawsInv /\ \A k \in Keys : spool[k] = NoBody \/ spool[k].of = k

\* The requests: what is wanted is not in the spool when the batch is asked
\* for, and has been asked for when single messages are.
AskedInv ==
  /\ pc \in {"lookup", "fetch"} =>
       \A k \in 1 .. Len(wanted) : Spooling => spool[<<folder, wanted[k].uid>>] = NoBody
  /\ pc = "collect" => \A k \in 1 .. Len(wanted) : <<folder, wanted[k].uid>> \in asked

\* The two lists: each entry is of a listed message, no message has two, and
\* of the folder at work only what is through, or was counted, has one.
ListsInv ==
  /\ pst \in Seq(Entries) /\ failed \in Seq(Entries)
  /\ \A s \in {pst, failed} : \A k \in DOMAIN s :
       s[k].folder \in listed /\ s[k].index \in DOMAIN Mailbox[s[k].folder]
  /\ \A j, k \in DOMAIN failed :
       failed[j].folder = failed[k].folder /\ failed[j].index = failed[k].index => j = k
  /\ \A j \in DOMAIN pst, k \in DOMAIN failed :
       ~(pst[j].folder = failed[k].folder /\ pst[j].index = failed[k].index)
  /\ pc \in Batching => \A k \in DOMAIN pst : pst[k].folder = folder => pst[k].index < Through
  /\ pc \in Batching => \A k \in DOMAIN failed :
       failed[k].folder = folder => failed[k].index < Through \/ failed[k].index \in accounted

\* What is through is settled, and what was counted is in the failure list.
SettledInv ==
  /\ \A f \in listed : \A i \in DOMAIN Mailbox[f] :
       (pc \in Batching /\ f = folder => i < Through) => Has(pst, f, i) \/ Has(failed, f, i)
  /\ pc \in {"collect", "write"} => \A i \in accounted : Has(failed, folder, i)
  /\ pc = "exited" /\ exit = 0 => failed = <<>>

IInv == TypeOK /\ WalkInv /\ BatchInv /\ WantedInv /\ BodyInv /\ AskedInv /\ ListsInv
          /\ OwnSource /\ ListingOrder /\ SettledInv

----------------------------------------------------------------------------
(* Lemmas about the operators of the model.                                *)

\* The elements of a sequence are in its range.
LEMMA ElementIn ==
  ASSUME NEW D, NEW s \in Seq(D), NEW j \in DOMAIN s
  PROVE  s[j] \in D
  OBVIOUS

\* Listings are sequences, and every listed message has a key.
LEMMA ListingFacts ==
  ASSUME NEW f \in Folders
  PROVE  /\ Len(Mailbox[f]) \in Nat /\ DOMAIN Mailbox[f] = 1 .. Len(Mailbox[f])
         /\ \A i \in DOMAIN Mailbox[f] :
              /\ Mailbox[f][i].size \in Nat /\ Key(f, i) \in Keys /\ <<f, i>> \in Messages
<1>1. Mailbox[f] \in Seq([uid : Nat, size : Nat])
  BY PipelineAssumption DEF PipelineAssumption
<1>2. ASSUME NEW i \in DOMAIN Mailbox[f]
      PROVE  Key(f, i) \in Keys /\ <<f, i>> \in Messages
  <2>1. Key(f, i) \in {Key(f, j) : j \in DOMAIN Mailbox[f]}
    OBVIOUS
  <2>2. <<f, i>> \in {f} \X DOMAIN Mailbox[f]
    OBVIOUS
  <2> QED
    BY <2>1, <2>2 DEF Keys, Messages
<1>3. ASSUME NEW i \in DOMAIN Mailbox[f] PROVE Mailbox[f][i].size \in Nat
  <2>1. Mailbox[f][i] \in [uid : Nat, size : Nat]
    BY <1>1, ElementIn
  <2> QED
    BY <2>1
<1> QED
  BY <1>1, <1>2, <1>3

\* What a fetch or a spool file can hold for a message is its own body, and a
\* body cut short is still one of the same message.
LEMMA BodyFacts ==
  /\ NoBody \in Bodies
  /\ \A f, uid : <<f, uid>> \in Keys =>
       Source(f, uid) \in Bodies /\ Source(f, uid).of = <<f, uid>>
  /\ \A uid : <<folder, uid>> \in Keys =>
       Unread(uid) \in Bodies /\ Unread(uid).of = <<folder, uid>>
  /\ \A b \in Bodies : b # NoBody => Torn(b) \in Bodies /\ Torn(b).of = b.of
<1>1. ASSUME NEW b \in Bodies, b # NoBody PROVE Torn(b) \in Bodies /\ Torn(b).of = b.of
  <2>1. b \in [of : Keys, whole : BOOLEAN]
    BY <1>1 DEF Bodies
  <2> QED
    BY <2>1 DEF Torn, Bodies
<1> QED
  BY <1>1 DEF Source, Unread, Bodies

\* Appending an entry keeps the others and adds it at the end.
LEMMA AppendFacts ==
  ASSUME NEW s \in Seq(Entries), NEW e \in Entries, NEW t, t = Append(s, e)
  PROVE  /\ t \in Seq(Entries)
         /\ DOMAIN s = 1 .. Len(s) /\ Len(s) \in Nat
         /\ DOMAIN t = 1 .. (Len(s) + 1)
         /\ \A k \in DOMAIN s : k \in DOMAIN t /\ t[k] = s[k]
         /\ t[Len(s) + 1] = e
         /\ \A k \in DOMAIN t : k \notin DOMAIN s => k = Len(s) + 1
  OBVIOUS

\* Its message is the only one that gains an entry.
LEMMA AppendHas ==
  ASSUME NEW s \in Seq(Entries), NEW e \in Entries, NEW t, t = Append(s, e), NEW f, NEW i
  PROVE  Has(t, f, i) <=> Has(s, f, i) \/ (e.folder = f /\ e.index = i)
<1>1. Len(s) + 1 \in DOMAIN t
  BY AppendFacts
<1> QED
  BY <1>1, AppendFacts DEF Has

\* A message occurs in a list when it has an entry there.
LEMMA OccursHas ==
  ASSUME NEW s \in Seq(Entries), NEW f, NEW i
  PROVE  Occurrences(s, f, i) > 0 <=> Has(s, f, i)
<1> DEFINE places == {k \in DOMAIN s : s[k].folder = f /\ s[k].index = i}
<1>1. DOMAIN s = 1 .. Len(s) /\ Len(s) \in Nat
  OBVIOUS
<1>2. IsFiniteSet(places)
  <2>1. IsFiniteSet(1 .. Len(s))
    BY <1>1, FS_Interval
  <2>2. places \subseteq 1 .. Len(s)
    BY <1>1
  <2> QED
    BY <2>1, <2>2, FS_Subset
<1>3. Cardinality(places) \in Nat /\ (Cardinality(places) = 0 <=> places = {})
  BY <1>2, FS_CardinalityType, FS_EmptySet
<1>4. places # {} <=> Has(s, f, i)
  BY DEF Has
<1>5. Occurrences(s, f, i) = Cardinality(places)
  BY DEF Occurrences
<1> HIDE DEF places
<1> QED
  BY <1>3, <1>4, <1>5

\* Occurrences counts what Has asserts, where no message has two entries.
LEMMA OccurrencesHas ==
  ASSUME NEW s, NEW f, NEW i,
         \A j, k \in DOMAIN s : s[j].folder = s[k].folder /\ s[j].index = s[k].index => j = k
  PROVE  Occurrences(s, f, i) = IF Has(s, f, i) THEN 1 ELSE 0
<1> DEFINE places == {k \in DOMAIN s : s[k].folder = f /\ s[k].index = i}
<1>1. CASE Has(s, f, i)
  <2>1. PICK k \in DOMAIN s : s[k].folder = f /\ s[k].index = i
    BY <1>1 DEF Has
  <2>2. places = {k}
    BY <2>1
  <2>3. Cardinality(places) = 1
    BY <2>2, FS_Singleton
  <2> QED
    BY <1>1, <2>3 DEF Occurrences
<1>2. CASE ~Has(s, f, i)
  <2>1. places = {}
    BY <1>2 DEF Has
  <2>2. Cardinality(places) = 0
    BY <2>1, FS_EmptySet
  <2> QED
    BY <1>2, <2>2 DEF Occurrences
<1> QED
  BY <1>1, <1>2

----------------------------------------------------------------------------
(* What the parts say of the folder and the batch at work.                 *)

\* The folder at work is one of the server's, and a batch lies in its listing.
LEMMA AtWork ==
  ASSUME WalkInv, BatchInv, pc \in Batching
  PROVE  /\ folder \in Folders /\ metas = Mailbox[folder]
         /\ Len(metas) \in Nat /\ DOMAIN metas = 1 .. Len(metas)
         /\ \A i \in DOMAIN metas :
              metas[i].size \in Nat /\ Key(folder, i) \in Keys /\ <<folder, i>> \in Messages
         /\ \A i \in lo .. (hi - 1) : i \in DOMAIN metas /\ i \in Nat
<1>1. folder \in Folders
  BY DEF WalkInv, Walking, Batching
<1> QED
  BY <1>1, ListingFacts DEF metas, BatchInv

\* A wanted message is one of the batch's, and asked for under its own UID.
LEMMA WantedFacts ==
  ASSUME TypeOK, WalkInv, BatchInv, WantedInv, NEW k \in 1 .. Len(wanted)
  PROVE  /\ pc \in Seeking /\ wanted_at[k] \in lo .. (hi - 1) /\ wanted_at[k] \in Nat
         /\ wanted_at[k] \in DOMAIN metas /\ wanted_at[k] \in DOMAIN raws
         /\ wanted[k].uid = metas[wanted_at[k]].uid
         /\ <<folder, wanted[k].uid>> = Key(folder, wanted_at[k])
         /\ <<folder, wanted[k].uid>> \in Keys
<1>1. pc \in Seeking /\ wanted_at[k] \in lo .. (hi - 1) /\ wanted[k] = metas[wanted_at[k]]
  BY DEF WantedInv
<1>2. wanted_at[k] \in DOMAIN metas /\ wanted_at[k] \in DOMAIN raws /\ wanted_at[k] \in Nat
      /\ Key(folder, wanted_at[k]) \in Keys
  BY <1>1, AtWork DEF Seeking, Batching, BatchInv, Filled
<1>3. <<folder, wanted[k].uid>> = Key(folder, wanted_at[k])
  BY <1>1 DEF Key, metas
<1> QED
  BY <1>1, <1>2, <1>3

\* So is the one the fetch loop is at, and it has not been counted.
LEMMA AtCollect ==
  ASSUME TypeOK, WalkInv, BatchInv, WantedInv, pc = "collect"
  PROVE  /\ at \in 1 .. Len(wanted) /\ at \in Nat /\ Len(wanted) \in Nat
         /\ Place \in DOMAIN raws /\ Place \in lo .. (hi - 1) /\ Place \in DOMAIN metas
         /\ Place \notin accounted
         /\ wanted[at].uid = metas[Place].uid
         /\ <<folder, wanted[at].uid>> = Key(folder, Place) /\ Key(folder, Place) \in Keys
<1>1. at \in 1 .. Len(wanted) /\ Len(wanted) \in Nat
  BY DEF WantedInv, TypeOK
<1>2. /\ wanted_at[at] \in DOMAIN raws /\ wanted_at[at] \in lo .. (hi - 1)
      /\ wanted_at[at] \in DOMAIN metas /\ wanted_at[at] \in Nat
      /\ wanted[at].uid = metas[wanted_at[at]].uid
      /\ <<folder, wanted[at].uid>> = Key(folder, wanted_at[at])
      /\ Key(folder, wanted_at[at]) \in Keys
  BY <1>1, WantedFacts
<1>3. wanted_at[at] \notin accounted
  <2> SUFFICES ASSUME NEW k \in 1 .. Len(wanted), k < at, wanted_at[at] = wanted_at[k]
               PROVE  FALSE
    BY DEF WantedInv
  <2>1. wanted_at[k] < wanted_at[at]
    BY <1>1 DEF WantedInv
  <2> QED
    BY <1>2, <2>1
<1> QED
  BY <1>1, <1>2, <1>3 DEF Place

\* What the fetch loop takes for a message is its own body or none.
LEMMA AnswerFacts ==
  ASSUME TypeOK, WalkInv, BatchInv, WantedInv, BodyInv, pc = "collect"
  PROVE  /\ got[at] \in Bodies /\ (got[at] = NoBody \/ got[at].of = Key(folder, Place))
         /\ Source(folder, wanted[at].uid) \in Bodies
         /\ Source(folder, wanted[at].uid).of = Key(folder, Place)
<1>1. at \in 1 .. Len(got) /\ got \in Seq(Bodies)
  BY AtCollect DEF WantedInv, TypeOK
<1>2. got[at] \in Bodies
  BY <1>1, ElementIn
<1>3. got[at] = NoBody \/ got[at].of = <<folder, wanted[at].uid>>
  BY AtCollect DEF BodyInv, RawsInv
<1>4. <<folder, wanted[at].uid>> = Key(folder, Place) /\ <<folder, wanted[at].uid>> \in Keys
  BY AtCollect
<1>5. /\ Source(folder, wanted[at].uid) \in Bodies
      /\ Source(folder, wanted[at].uid).of = <<folder, wanted[at].uid>>
  BY <1>4, BodyFacts
<1> QED
  BY <1>2, <1>3, <1>4, <1>5

\* The entry a failure makes.
Missed(i) == Entry(i, Unread(metas[i].uid))

\* An entry for a message of the batch; that of a failure names the message.
LEMMA EntryFacts ==
  ASSUME WalkInv, BatchInv, pc \in Batching, NEW i \in DOMAIN metas
  PROVE  /\ \A b \in Bodies :
              /\ Entry(i, b) \in Entries
              /\ Entry(i, b).folder = folder /\ Entry(i, b).index = i /\ Entry(i, b).body = b
         /\ Missed(i) \in Entries /\ Missed(i).folder = folder /\ Missed(i).index = i
         /\ Missed(i).body.of = Key(folder, i)
<1>1. folder \in Folders /\ i \in Nat /\ Key(folder, i) \in Keys
  <2>1. folder \in Folders /\ DOMAIN metas = 1 .. Len(metas) /\ Key(folder, i) \in Keys
    BY AtWork
  <2> QED
    BY <2>1
<1>a. Key(folder, i) = <<folder, metas[i].uid>>
  BY DEF Key, metas
<1>2. Unread(metas[i].uid) \in Bodies /\ Unread(metas[i].uid).of = Key(folder, i)
  BY <1>1, <1>a, BodyFacts
<1> QED
  BY <1>1, <1>2 DEF Entry, Entries, Missed

----------------------------------------------------------------------------
(* The spool.                                                              *)

\* writeFile() leaves the message's own body, part of it or no file.
LEMMA WriteSpoolFacts ==
  ASSUME NEW uid, <<folder, uid>> \in Keys, NEW body \in Bodies, body # NoBody,
         body.of = <<folder, uid>>, writeSpool(uid, body)
  PROVE  \/ spool' = spool
         \/ \E b \in Bodies : /\ b = NoBody \/ b.of = <<folder, uid>>
                              /\ spool' = [spool EXCEPT ![<<folder, uid>>] = b]
<1>1. CASE Spooling
  <2>1. PICK outcome \in SpoolOutcomes :
          spool' = [spool EXCEPT ![<<folder, uid>>] = CASE outcome = "whole" -> body
                                                        [] outcome = "torn"  -> Torn(body)
                                                        [] OTHER             -> NoBody]
    BY <1>1 DEF writeSpool
  <2> DEFINE b == CASE outcome = "whole" -> body
                    [] outcome = "torn"  -> Torn(body)
                    [] OTHER             -> NoBody
  <2>2. b \in Bodies /\ (b = NoBody \/ b.of = <<folder, uid>>)
    <3>1. CASE outcome = "whole"
      BY <3>1
    <3>2. CASE outcome = "torn"
      BY <3>2, BodyFacts
    <3>3. CASE outcome \notin {"whole", "torn"}
      BY <3>3, BodyFacts
    <3> QED
      BY <3>1, <3>2, <3>3
  <2> QED
    BY <2>1, <2>2
<1>2. CASE ~Spooling
  BY <1>2 DEF writeSpool
<1> QED
  BY <1>1, <1>2

\* A step changes at most one file of the spool, to the message's own body.
LEMMA SpoolChange ==
  ASSUME TypeOK, WalkInv, BatchInv, WantedInv, BodyInv, [Next]_vars
  PROVE  \/ spool' = spool
         \/ \E k \in Keys : \E b \in Bodies :
              (b = NoBody \/ b.of = k) /\ spool' = [spool EXCEPT ![k] = b]
<1>1. CASE Collect
  <2>1. PICK body \in {got[at], Source(folder, wanted[at].uid), NoBody} :
          spool' = spool \/ (body # NoBody /\ writeSpool(wanted[at].uid, body))
    BY <1>1 DEF Collect, Receive
  <2>2. CASE spool' = spool
    BY <2>2
  <2>3. CASE body # NoBody /\ writeSpool(wanted[at].uid, body)
    <3>1. /\ <<folder, wanted[at].uid>> \in Keys
          /\ body \in Bodies /\ body.of = <<folder, wanted[at].uid>>
      BY <1>1, <2>3, AtCollect, AnswerFacts DEF Collect
    <3> QED
      BY <2>3, <3>1, WriteSpoolFacts
  <2> QED
    BY <2>1, <2>2, <2>3
<1>2. CASE Restart
  <2>1. CASE spool' = spool
    BY <2>1
  <2>2. CASE /\ pc = "collect"
             /\ spool' = [spool EXCEPT ![<<folder, wanted[at].uid>>] =
                            Torn(IF Served THEN got[at] ELSE Source(folder, wanted[at].uid))]
    <3> DEFINE body == IF Served THEN got[at] ELSE Source(folder, wanted[at].uid)
    <3>1. <<folder, wanted[at].uid>> = Key(folder, Place) /\ Key(folder, Place) \in Keys
      BY <2>2, AtCollect
    <3>2. body \in Bodies /\ body # NoBody /\ body.of = Key(folder, Place)
      <4>1. Source(folder, wanted[at].uid) # NoBody
        BY DEF Source, NoBody
      <4> QED
        BY <2>2, <4>1, AnswerFacts DEF Served
    <3> HIDE DEF body
    <3>3. Torn(body) \in Bodies /\ Torn(body).of = Key(folder, Place)
      BY <3>2, BodyFacts
    <3> QED
      BY <2>2, <3>1, <3>3 DEF body
  <2> QED
    BY <1>2, <2>1, <2>2 DEF Restart
<1>3. CASE UNCHANGED vars
  BY <1>3 DEF vars
<1> QED
  BY <1>1, <1>2, <1>3 DEF Next, Step, ListFolders, NextFolder, ListMessages, TakeIntoBatch,
     StartBatch, LookUpSpool, FolderDone, FetchBatch, Write, Finish

\* The spool keeps its type, and each file holds its own message.
LEMMA SpoolStep ==
  ASSUME TypeOK, WalkInv, BatchInv, WantedInv, BodyInv, [Next]_vars
  PROVE  /\ spool' \in [Keys -> Bodies]
         /\ \A k \in Keys : spool'[k] = NoBody \/ spool'[k].of = k
<1>1. /\ spool \in [Keys -> Bodies]
      /\ \A k \in Keys : spool[k] = NoBody \/ spool[k].of = k
  BY DEF TypeOK, BodyInv
<1> QED
  BY <1>1, SpoolChange

----------------------------------------------------------------------------
(* The walk and the batch.                                                 *)

\* Every step keeps the walk's part of the invariant.
LEMMA WalkStep ==
  ASSUME TypeOK, WalkInv, [Next]_vars
  PROVE  WalkInv'
<1> USE DEF WalkInv, Walking, Batching
<1>1. CASE ListFolders
  BY <1>1 DEF ListFolders, batchVars
<1>2. CASE NextFolder
  BY <1>2 DEF NextFolder, TypeOK
<1>3. CASE ListMessages
  BY <1>3 DEF ListMessages
<1>4. CASE TakeIntoBatch
  BY <1>4 DEF TakeIntoBatch
<1>5. CASE StartBatch \/ LookUpSpool
  BY <1>5 DEF StartBatch, LookUpSpool
<1>6. CASE FolderDone
  BY <1>6 DEF FolderDone
<1>7. CASE FetchBatch
  BY <1>7 DEF FetchBatch
<1>8. CASE Collect
  BY <1>8 DEF Collect
<1>9. CASE Write
  BY <1>9 DEF Write
<1>10. CASE Finish
  BY <1>10 DEF Finish
<1>11. CASE Restart
  BY <1>11 DEF Restart
<1>12. CASE UNCHANGED vars
  BY <1>12 DEF vars
<1> QED
  BY <1>1, <1>2, <1>3, <1>4, <1>5, <1>6, <1>7, <1>8, <1>9, <1>10, <1>11, <1>12
     DEF Next, Step

\* A batch that is complete is not empty.
LEMMA BatchNotEmpty ==
  ASSUME WalkInv, BatchInv, StartBatch
  PROVE  lo < hi
<1>1. pc = "batch" /\ ~TakesNext /\ ~EndOfListing
  BY DEF StartBatch
<1>2. Len(metas) \in Nat /\ lo \in Nat /\ hi \in Nat /\ lo <= hi /\ hi <= Len(metas) + 1
  BY <1>1, AtWork DEF BatchInv, Batching
<1>3. BatchSize \in Nat \ {0}
  BY PipelineAssumption DEF PipelineAssumption
<1> QED
  BY <1>1, <1>2, <1>3 DEF TakesNext, EndOfListing

\* A turn of the look-up loop: the message is served, or put on the vectors.
LEMMA LookUpFacts ==
  ASSUME TypeOK, WalkInv, BatchInv, LookUpSpool
  PROVE  /\ pc = "lookup" /\ pc' \in {"lookup", "write", "fetch"} /\ next \in lo .. (hi - 1)
         /\ UNCHANGED <<todo, folder, listed, tree, lo, hi, bytes, got, at, accounted, pst, failed,
                        spool, asked, run, exit>>
         /\ \/ readSpool(next) # NoBody /\ UNCHANGED <<wanted, wanted_at>>
               /\ raws' = [raws EXCEPT ![next] = readSpool(next)]
            \/ readSpool(next) = NoBody /\ UNCHANGED raws
               /\ wanted' = Append(wanted, metas[next]) /\ wanted_at' = Append(wanted_at, next)
         /\ \/ next + 1 = hi /\ next' = lo /\ pc' = IF wanted' = <<>> THEN "write" ELSE "fetch"
            \/ next + 1 # hi /\ next' = next + 1 /\ pc' = "lookup"
         /\ DOMAIN raws' = DOMAIN raws
  BY DEF LookUpSpool, LastOfBatch, TypeOK

\* A turn of the fetch loop: the message gets a body that was served or is
\* fetched alone, or none, or is counted as failed.
LEMMA CollectFacts ==
  ASSUME Collect
  PROVE  /\ pc = "collect"
         /\ UNCHANGED <<todo, folder, listed, tree, lo, hi, bytes, next, pst, run, exit>>
         /\ asked' \subseteq asked \cup {<<folder, wanted[at].uid>>} /\ asked \subseteq asked'
         /\ \/ /\ \E body \in {got[at], Source(folder, wanted[at].uid), NoBody} :
                    raws' = [raws EXCEPT ![Place] = body]
               /\ UNCHANGED <<accounted, failed>>
            \/ /\ accounted' = accounted \cup {Place}
               /\ failed' = Append(failed, Entry(Place, Unread(wanted[at].uid)))
               /\ UNCHANGED raws
         /\ \/ /\ at = Len(wanted) /\ pc' = "write"
               /\ wanted' = <<>> /\ wanted_at' = <<>> /\ got' = <<>> /\ at' = 1
            \/ at # Len(wanted) /\ at' = at + 1 /\ UNCHANGED <<pc, wanted, wanted_at, got>>
         /\ DOMAIN raws' = DOMAIN raws
<1>1. \/ /\ \E body \in {got[at], Source(folder, wanted[at].uid), NoBody} :
              raws' = [raws EXCEPT ![Place] = body]
         /\ UNCHANGED <<accounted, failed>>
      \/ /\ accounted' = accounted \cup {Place}
         /\ failed' = Append(failed, Entry(Place, Unread(wanted[at].uid)))
         /\ UNCHANGED raws
  BY DEF Collect, Receive, Fail
<1>2. DOMAIN raws' = DOMAIN raws
  BY <1>1
<1> QED
  BY <1>1, <1>2 DEF Collect

\* Every step keeps the batch's bounds.
LEMMA BatchStep ==
  ASSUME TypeOK, WalkInv, BatchInv, WantedInv, [Next]_vars
  PROVE  BatchInv'
<1> USE DEF Batching, Filled
<1>0. /\ lo \in Nat /\ hi \in Nat /\ next \in Nat
      /\ pc \in Batching => Len(metas) \in Nat
  BY AtWork DEF BatchInv
<1>1. CASE ListFolders
  BY <1>1 DEF ListFolders, batchVars, BatchInv
<1>2. CASE NextFolder
  BY <1>2 DEF NextFolder, batchVars, BatchInv
<1>3. CASE ListMessages
  <2>1. Len(Mailbox[folder]) \in Nat
    BY <1>3, ListingFacts DEF ListMessages, WalkInv, Walking
  <2> QED
    BY <1>3, <2>1 DEF ListMessages, BatchInv, metas
<1>4. CASE TakeIntoBatch
  BY <1>0, <1>4 DEF TakeIntoBatch, TakesNext, BatchInv, metas
<1>5. CASE StartBatch
  <2>1. lo < hi
    BY <1>5, BatchNotEmpty
  <2> QED
    BY <1>0, <1>5, <2>1 DEF StartBatch, BatchInv, metas
<1>6. CASE LookUpSpool
  <2>1. /\ pc = "lookup" /\ pc' \in {"lookup", "write", "fetch"}
        /\ UNCHANGED <<folder, lo, hi, accounted>> /\ DOMAIN raws' = DOMAIN raws
        /\ \/ next + 1 = hi /\ next' = lo /\ pc' # "lookup"
           \/ next + 1 # hi /\ next' = next + 1 /\ pc' = "lookup"
    BY <1>6, LookUpFacts
  <2>2. metas' = metas
    BY <2>1 DEF metas
  <2> QED
    BY <1>0, <2>1, <2>2 DEF BatchInv
<1>7. CASE FolderDone
  BY <1>7 DEF FolderDone, BatchInv
<1>8. CASE FetchBatch
  BY <1>8 DEF FetchBatch, BatchInv, metas
<1>9. CASE Collect
  <2>1. /\ pc = "collect" /\ pc' \in {"collect", "write"} /\ UNCHANGED <<folder, lo, hi, next>>
        /\ DOMAIN raws' = DOMAIN raws
    BY <1>9, CollectFacts
  <2>2. metas' = metas
    BY <2>1 DEF metas
  <2> QED
    BY <1>0, <2>1, <2>2 DEF BatchInv
<1>10. CASE Write
  <2>1. pc = "write" /\ UNCHANGED <<folder, hi>>
    BY <1>10 DEF Write
  <2>2. metas' = metas
    BY <2>1 DEF metas
  <2>3. CASE next + 1 = hi
    <3>1. pc' = "batch" /\ lo' = hi /\ next' = 1 /\ accounted' = {}
      BY <1>10, <2>3 DEF Write, LastOfBatch, NextLo
    <3> QED
      BY <1>0, <2>1, <2>2, <3>1 DEF BatchInv
  <2>4. CASE next + 1 # hi
    <3>1. next' = next + 1 /\ UNCHANGED <<pc, lo, raws, accounted>>
      BY <1>10, <2>4 DEF Write, LastOfBatch
    <3> QED
      BY <1>0, <2>1, <2>2, <2>4, <3>1 DEF BatchInv
  <2> QED
    BY <2>3, <2>4
<1>11. CASE Finish
  BY <1>11 DEF Finish, batchVars, BatchInv
<1>12. CASE Restart
  BY <1>12 DEF Restart, BatchInv
<1>13. CASE UNCHANGED vars
  BY <1>13 DEF vars, BatchInv, metas
<1> QED
  BY <1>1, <1>2, <1>3, <1>4, <1>5, <1>6, <1>7, <1>8, <1>9, <1>10, <1>11, <1>12, <1>13
     DEF Next, Step

\* An entry that the spool does not hold goes on the vectors, at their end, and
\* at a place behind all others.
LEMMA LookUpWanted ==
  ASSUME TypeOK, WalkInv, BatchInv, WantedInv, LookUpSpool
  PROVE  WantedInv'
<1>1. /\ pc = "lookup" /\ pc' \in {"lookup", "write", "fetch"} /\ next \in lo .. (hi - 1)
      /\ UNCHANGED <<folder, lo, hi, at, accounted>>
      /\ \/ next + 1 = hi /\ next' = lo /\ pc' = IF wanted' = <<>> THEN "write" ELSE "fetch"
         \/ next + 1 # hi /\ next' = next + 1 /\ pc' = "lookup"
  BY LookUpFacts
<1>2. /\ lo \in Nat /\ hi \in Nat /\ next \in Nat /\ at = 1 /\ metas' = metas
      /\ wanted \in Seq([uid : Nat, size : Nat]) /\ wanted_at \in Seq(DOMAIN raws)
      /\ Len(wanted) \in Nat /\ Len(wanted_at) = Len(wanted)
      /\ metas[next] \in [uid : Nat, size : Nat] /\ next \in DOMAIN raws
  <2>1. next \in DOMAIN metas /\ next \in DOMAIN raws /\ folder \in Folders
    BY <1>1, AtWork DEF Batching, Filled, BatchInv
  <2>2. Mailbox[folder] \in Seq([uid : Nat, size : Nat])
    BY <2>1, PipelineAssumption DEF PipelineAssumption
  <2>3. metas[next] \in [uid : Nat, size : Nat]
    BY <2>1, <2>2, ElementIn DEF metas
  <2>4. lo \in Nat /\ hi \in Nat /\ next \in Nat
    BY DEF BatchInv
  <2>5. /\ wanted \in Seq([uid : Nat, size : Nat]) /\ wanted_at \in Seq(DOMAIN raws)
        /\ Len(wanted) \in Nat
    BY DEF TypeOK
  <2>6. at = 1 /\ Len(wanted_at) = Len(wanted)
    BY <1>1 DEF WantedInv
  <2>7. metas' = metas
    BY <1>1 DEF metas
  <2> QED
    BY <2>1, <2>3, <2>4, <2>5, <2>6, <2>7
<1>3. CASE UNCHANGED <<wanted, wanted_at>>
  <2>1. pc' = "write" => wanted = <<>>
    BY <1>1, <1>3
  <2>2. pc' = "fetch" => Len(wanted) >= 1
    BY <1>2, <1>1, <1>3
  <2>3. \A k \in 1 .. Len(wanted) :
          wanted_at[k] \in lo .. (hi - 1) /\ wanted[k] = metas[wanted_at[k]] /\ wanted_at[k] < next
    BY <1>1 DEF WantedInv
  <2>4. pc' = "lookup" => \A k \in 1 .. Len(wanted) : wanted_at[k] < next'
    <3>1. pc' = "lookup" => next' = next + 1
      BY <1>1, <1>3
    <3>2. \A k \in 1 .. Len(wanted) : wanted_at[k] \in Nat
      BY WantedFacts
    <3> QED
      BY <1>2, <2>3, <3>1, <3>2
  <2>5. \A j, k \in 1 .. Len(wanted) : j < k => wanted_at[j] < wanted_at[k]
    BY DEF WantedInv
  <2>6. /\ pc' \notin Seeking => wanted' = <<>>
        /\ at' = 1 /\ (pc' \in {"fetch", "collect"} => at' \in 1 .. Len(wanted'))
    <3>1. at' = 1 /\ pc' # "collect"
      BY <1>1, <1>2
    <3>2. pc' = "fetch" => 1 \in 1 .. Len(wanted)
      BY <1>2, <2>2
    <3> QED
      BY <1>1, <1>3, <2>1, <3>1, <3>2 DEF Seeking
  <2>7. \A k \in 1 .. Len(wanted') :
          wanted_at'[k] \in lo' .. (hi' - 1) /\ wanted'[k] = metas'[wanted_at'[k]]
    BY <1>1, <1>2, <1>3, <2>3
  <2> QED
    BY <1>1, <1>2, <1>3, <2>4, <2>5, <2>6, <2>7 DEF WantedInv
<1>4. CASE wanted' = Append(wanted, metas[next]) /\ wanted_at' = Append(wanted_at, next)
  <2> DEFINE n == Len(wanted) + 1
  <2>1. /\ Len(wanted') = n /\ Len(wanted_at') = n /\ wanted' # <<>>
        /\ wanted'[n] = metas[next] /\ wanted_at'[n] = next
        /\ \A k \in 1 .. Len(wanted) : wanted'[k] = wanted[k] /\ wanted_at'[k] = wanted_at[k]
    BY <1>2, <1>4
  <2>2. /\ \A k \in 1 .. n : k = n \/ k \in 1 .. Len(wanted)
        /\ n \in Nat /\ n >= 1
    BY <1>2
  <2> HIDE DEF n
  <2>3. \A k \in 1 .. Len(wanted) :
          /\ wanted_at[k] \in lo .. (hi - 1) /\ wanted[k] = metas[wanted_at[k]]
          /\ wanted_at[k] < next
    BY <1>1 DEF WantedInv
  <2>4. \A k \in 1 .. Len(wanted') :
          wanted_at'[k] \in lo' .. (hi' - 1) /\ wanted'[k] = metas'[wanted_at'[k]]
    BY <1>1, <1>2, <2>1, <2>2, <2>3
  <2>5. \A j, k \in 1 .. Len(wanted') : j < k => wanted_at'[j] < wanted_at'[k]
    <3> SUFFICES ASSUME NEW j \in 1 .. n, NEW k \in 1 .. n, j < k
                 PROVE  wanted_at'[j] < wanted_at'[k]
      BY <2>1
    <3>1. j \in 1 .. Len(wanted)
      BY <2>2 DEF n
    <3>2. CASE k = n
      BY <2>1, <2>3, <3>1, <3>2
    <3>3. CASE k \in 1 .. Len(wanted)
      BY <2>1, <3>1, <3>3 DEF WantedInv
    <3> QED
      BY <2>2, <3>2, <3>3
  <2>6. pc' = "lookup" => \A k \in 1 .. Len(wanted') : wanted_at'[k] < next'
    <3> SUFFICES ASSUME pc' = "lookup", NEW k \in 1 .. n
                 PROVE  wanted_at'[k] < next'
      BY <2>1
    <3>1. next' = next + 1
      BY <1>1, <2>1
    <3>2. \A m \in 1 .. Len(wanted) : wanted_at[m] \in Nat
      BY WantedFacts
    <3>3. CASE k = n
      BY <1>2, <2>1, <3>1, <3>3
    <3>4. CASE k \in 1 .. Len(wanted)
      <4>1. wanted_at'[k] = wanted_at[k]
        BY <2>1, <3>4
      <4>2. wanted_at[k] \in Nat /\ wanted_at[k] < next
        BY <2>3, <3>2, <3>4
      <4>3. next \in Nat
        BY <1>2
      <4> QED
        BY <3>1, <4>1, <4>2, <4>3
    <3> QED
      BY <2>2, <3>3, <3>4
  <2>7. pc' \in {"lookup", "fetch"} /\ at' = 1
    BY <1>1, <1>2, <2>1
  <2> QED
    BY <1>1, <2>1, <2>2, <2>4, <2>5, <2>6, <2>7 DEF WantedInv, Seeking
<1> QED
  BY <1>3, <1>4, LookUpFacts

\* What a turn of the fetch loop counts is then behind it.
LEMMA CollectWanted ==
  ASSUME TypeOK, WalkInv, BatchInv, WantedInv, Collect
  PROVE  WantedInv'
<1>1. /\ pc = "collect" /\ UNCHANGED <<folder, lo, hi, next>>
      /\ accounted' \subseteq accounted \cup {Place}
  BY CollectFacts
<1>2. at \in 1 .. Len(wanted) /\ Len(wanted) \in Nat /\ metas' = metas
  BY <1>1, AtCollect DEF metas
<1>3. CASE wanted' = <<>> /\ wanted_at' = <<>> /\ at' = 1 /\ pc' = "write"
  BY <1>3 DEF WantedInv, Seeking
<1>4. CASE at # Len(wanted) /\ at' = at + 1 /\ UNCHANGED <<pc, wanted, wanted_at, got>>
  <2>1. at' \in 1 .. Len(wanted')
    BY <1>2, <1>4
  <2>2. \A i \in accounted' : \E k \in 1 .. Len(wanted) : k < at' /\ i = wanted_at[k]
    <3> SUFFICES ASSUME NEW i \in accounted'
                 PROVE  \E k \in 1 .. Len(wanted) : k < at' /\ i = wanted_at[k]
      OBVIOUS
    <3>1. CASE i = Place
      BY <1>2, <1>4, <3>1 DEF Place
    <3>2. CASE i \in accounted
      <4>1. PICK k \in 1 .. Len(wanted) : k < at /\ i = wanted_at[k]
        BY <1>1, <3>2 DEF WantedInv
      <4> QED
        BY <1>2, <1>4, <4>1
    <3> QED
      BY <1>1, <3>1, <3>2
  <2> QED
    BY <1>1, <1>2, <1>4, <2>1, <2>2 DEF WantedInv, Seeking
<1> QED
  BY <1>3, <1>4, CollectFacts

\* Every step keeps the wanted vectors parallel and in order.
LEMMA WantedInvStep ==
  ASSUME TypeOK, WalkInv, BatchInv, WantedInv, [Next]_vars
  PROVE  WantedInv'
<1>1. CASE LookUpSpool
  BY <1>1, LookUpWanted
<1>2. CASE Collect
  BY <1>2, CollectWanted
<1>3. CASE FetchBatch
  <2>1. /\ pc = "fetch" /\ pc' = "collect" /\ accounted = {} /\ accounted' = accounted
        /\ UNCHANGED <<folder, lo, hi, wanted, wanted_at, at, next>>
    BY <1>3 DEF FetchBatch, BatchInv
  <2>2. Len(got') = Len(wanted)
    <3>1. wanted \in Seq([uid : Nat, size : Nat])
      BY DEF TypeOK
    <3> QED
      BY <1>3, <3>1 DEF FetchBatch
  <2>3. metas' = metas
    BY <2>1 DEF metas
  <2> QED
    BY <2>1, <2>2, <2>3 DEF WantedInv, Seeking
<1>4. CASE StartBatch
  <2>1. pc = "batch" /\ pc' = "lookup" /\ UNCHANGED <<wanted, wanted_at, got, at>>
    BY <1>4 DEF StartBatch
  <2>2. wanted = <<>> /\ Len(wanted_at) = 0 /\ at = 1
    BY <2>1 DEF WantedInv, Seeking
  <2> QED
    BY <2>1, <2>2 DEF WantedInv, Seeking
<1>5. CASE Restart
  BY <1>5 DEF Restart, WantedInv, Seeking
<1>6. CASE UNCHANGED vars
  BY <1>6 DEF vars, WantedInv, metas
<1>7. CASE pc \notin Seeking /\ pc' \notin Seeking /\ UNCHANGED <<wanted, wanted_at, at>>
  BY <1>7 DEF WantedInv, Seeking
<1> QED
  BY <1>1, <1>2, <1>3, <1>4, <1>5, <1>6, <1>7 DEF Next, Step, batchVars, ListFolders,
     NextFolder, ListMessages, TakeIntoBatch, FolderDone, Write, Finish, Seeking

----------------------------------------------------------------------------
(* The bodies.                                                             *)

\* The spool answers with nothing or with the message's own body.
LEMMA ReadSpoolFacts ==
  ASSUME TypeOK, WalkInv, BatchInv, WantedInv, BodyInv, pc \in Batching, NEW i \in DOMAIN metas
  PROVE  /\ readSpool(i) \in Bodies
         /\ readSpool(i) = NoBody \/ readSpool(i).of = Key(folder, i)
<1>1. Key(folder, i) \in Keys
  BY AtWork
<1>2. NoBody \in Bodies
  BY DEF Bodies
<1> QED
  BY <1>1, <1>2 DEF readSpool, TypeOK, BodyInv

\* The look-up loop gives a message the body the spool has for it, or none.
LEMMA LookUpRaws ==
  ASSUME TypeOK, WalkInv, BatchInv, WantedInv, BodyInv, LookUpSpool
  PROVE  RawsInv' /\ \A i \in DOMAIN raws' : raws'[i] \in Bodies
<1>1. /\ pc = "lookup" /\ pc' \in {"lookup", "write", "fetch"} /\ next \in lo .. (hi - 1)
      /\ UNCHANGED <<folder, lo, hi, at, accounted>> /\ accounted = {} /\ at = 1
      /\ DOMAIN raws = lo .. (hi - 1) /\ DOMAIN raws' = DOMAIN raws
      /\ \/ next + 1 = hi /\ next' = lo /\ pc' # "lookup"
         \/ next + 1 # hi /\ next' = next + 1 /\ pc' = "lookup"
      /\ lo \in Nat /\ hi \in Nat /\ next \in Nat
  BY LookUpFacts DEF BatchInv, WantedInv, Filled
<1>2. next \in DOMAIN metas /\ next \in DOMAIN raws
  BY <1>1, AtWork DEF Batching
<1>3. /\ readSpool(next) \in Bodies
      /\ readSpool(next) = NoBody \/ readSpool(next).of = Key(folder, next)
  BY <1>1, <1>2, ReadSpoolFacts DEF Batching
<1>4. /\ \A i \in DOMAIN raws : raws[i] \in Bodies
      /\ \A i \in DOMAIN raws : raws[i] = NoBody \/ raws[i].of = Key(folder, i)
      /\ \A i \in next .. (hi - 1) : raws[i] = NoBody
      /\ \A k \in 1 .. Len(wanted) : raws[wanted_at[k]] = NoBody
      /\ \A k \in 1 .. Len(wanted) : wanted_at[k] < next /\ wanted_at[k] \in lo .. (hi - 1)
  <2>1. \A i \in DOMAIN raws : raws[i] \in Bodies
    BY DEF TypeOK
  <2>2. RawsInv
    BY DEF BodyInv
  <2>3. /\ \A i \in DOMAIN raws : raws[i] = NoBody \/ raws[i].of = Key(folder, i)
        /\ \A i \in next .. (hi - 1) : raws[i] = NoBody
    BY <1>1, <2>2 DEF RawsInv, Filled
  <2>4. \A k \in 1 .. Len(wanted) : raws[wanted_at[k]] = NoBody
    <3>1. \A k \in 1 .. Len(wanted) : k >= at
      BY <1>1
    <3> QED
      BY <2>2, <3>1 DEF RawsInv
  <2>5. \A k \in 1 .. Len(wanted) : wanted_at[k] < next /\ wanted_at[k] \in lo .. (hi - 1)
    BY <1>1 DEF WantedInv
  <2> QED
    BY <2>1, <2>3, <2>4, <2>5
<1>5. /\ \A i \in DOMAIN raws : i # next => raws'[i] = raws[i]
      /\ raws'[next] = readSpool(next)
  <2>1. \/ raws' = [raws EXCEPT ![next] = readSpool(next)]
        \/ readSpool(next) = NoBody /\ raws' = raws
    BY LookUpFacts
  <2> QED
    BY <1>1, <1>2, <1>4, <2>1
<1>6. /\ \A i \in DOMAIN raws' : raws'[i] \in Bodies
      /\ \A i \in DOMAIN raws' : raws'[i] = NoBody \/ raws'[i].of = Key(folder, i)
  BY <1>1, <1>3, <1>4, <1>5
<1>7. \A i \in (next + 1) .. (hi - 1) : raws'[i] = NoBody
  <2> SUFFICES ASSUME NEW i \in (next + 1) .. (hi - 1) PROVE raws'[i] = NoBody
    OBVIOUS
  <2>1. i \in next .. (hi - 1) /\ i \in lo .. (hi - 1) /\ i # next
    BY <1>1
  <2> QED
    BY <1>1, <1>4, <1>5, <2>1
<1>8. \A k \in 1 .. Len(wanted) : raws'[wanted_at[k]] = NoBody
  BY <1>1, <1>4, <1>5
<1>9. \A k \in 1 .. Len(wanted') : raws'[wanted_at'[k]] = NoBody
  <2>1. CASE UNCHANGED <<wanted, wanted_at>>
    BY <1>8, <2>1
  <2>2. CASE /\ readSpool(next) = NoBody
             /\ wanted' = Append(wanted, metas[next]) /\ wanted_at' = Append(wanted_at, next)
    <3> SUFFICES ASSUME NEW k \in 1 .. Len(wanted') PROVE raws'[wanted_at'[k]] = NoBody
      OBVIOUS
    <3>1. /\ wanted \in Seq([uid : Nat, size : Nat]) /\ wanted_at \in Seq(DOMAIN raws)
          /\ Len(wanted_at) = Len(wanted)
      BY DEF TypeOK, WantedInv
    <3>2. Len(wanted') = Len(wanted) + 1
      BY <2>2, <3>1
    <3>3. CASE k = Len(wanted) + 1
      <4>1. wanted_at'[k] = next
        BY <2>2, <3>1, <3>3
      <4> QED
        BY <1>5, <2>2, <4>1
    <3>4. CASE k # Len(wanted) + 1
      <4>1. k \in 1 .. Len(wanted)
        <5>1. Len(wanted) \in Nat /\ k \in 1 .. (Len(wanted) + 1)
          BY <3>1, <3>2
        <5> QED
          BY <3>4, <5>1
      <4>2. wanted_at'[k] = wanted_at[k]
        BY <2>2, <3>1, <4>1
      <4> QED
        BY <1>8, <4>1, <4>2
    <3> QED
      BY <3>3, <3>4
  <2> QED
    BY <2>1, <2>2, LookUpFacts
<1>10. (\A i \in DOMAIN raws : raws[i] = NoBody \/ raws[i].of = Key(folder, i))'
  BY <1>1, <1>6 DEF Key
<1>11. pc' = "lookup" => \A i \in next' .. (hi' - 1) : raws'[i] = NoBody
  BY <1>1, <1>7
<1> QED
  BY <1>1, <1>6, <1>9, <1>10, <1>11 DEF RawsInv

\* The fetch loop gives a message its own body or none, and leaves without one
\* those it has counted and those it has not reached.
LEMMA CollectRaws ==
  ASSUME TypeOK, WalkInv, BatchInv, WantedInv, BodyInv, Collect
  PROVE  RawsInv' /\ \A i \in DOMAIN raws' : raws'[i] \in Bodies
<1>1. /\ pc = "collect" /\ pc' \in {"collect", "write"} /\ UNCHANGED <<folder, lo, hi>>
      /\ DOMAIN raws' = DOMAIN raws
  BY CollectFacts
<1>2. /\ at \in 1 .. Len(wanted) /\ at \in Nat /\ Len(wanted) \in Nat
      /\ Place \in DOMAIN raws /\ Place \notin accounted
  BY <1>1, AtCollect
<1>3. /\ \A i \in DOMAIN raws : raws[i] \in Bodies
      /\ \A i \in DOMAIN raws : raws[i] = NoBody \/ raws[i].of = Key(folder, i)
      /\ accounted \subseteq DOMAIN raws /\ \A i \in accounted : raws[i] = NoBody
      /\ \A k \in 1 .. Len(wanted) : k >= at => raws[wanted_at[k]] = NoBody
      /\ \A k \in 1 .. Len(wanted) : got[k] = NoBody \/ got[k].of = <<folder, wanted[k].uid>>
  BY <1>1 DEF TypeOK, BodyInv, RawsInv, Filled
<1>4. /\ \A i \in DOMAIN raws : i # Place => raws'[i] = raws[i]
      /\ raws'[Place] \in Bodies
      /\ raws'[Place] = NoBody \/ raws'[Place].of = Key(folder, Place)
      /\ \/ accounted' = accounted
         \/ accounted' = accounted \cup {Place} /\ raws' = raws
  <2>1. \A body \in {got[at], Source(folder, wanted[at].uid), NoBody} :
          body \in Bodies /\ (body = NoBody \/ body.of = Key(folder, Place))
    BY <1>1, AnswerFacts, BodyFacts
  <2>2. CASE /\ \E body \in {got[at], Source(folder, wanted[at].uid), NoBody} :
                  raws' = [raws EXCEPT ![Place] = body]
             /\ accounted' = accounted
    BY <1>2, <2>1, <2>2
  <2>3. CASE accounted' = accounted \cup {Place} /\ raws' = raws
    BY <1>2, <1>3, <2>3
  <2> QED
    BY <2>2, <2>3, CollectFacts
<1>5. raws[Place] = NoBody
  BY <1>2, <1>3 DEF Place
<1>6. /\ \A i \in DOMAIN raws' : raws'[i] \in Bodies
      /\ \A i \in DOMAIN raws' : raws'[i] = NoBody \/ raws'[i].of = Key(folder, i)
      /\ \A i \in accounted' : raws'[i] = NoBody
  BY <1>1, <1>2, <1>3, <1>4, <1>5
<1>7. (\A i \in DOMAIN raws : raws[i] = NoBody \/ raws[i].of = Key(folder, i))'
  BY <1>1, <1>6 DEF Key
<1>8. CASE wanted' = <<>> /\ pc' = "write"
  BY <1>6, <1>7, <1>8 DEF RawsInv
<1>9. CASE at' = at + 1 /\ UNCHANGED <<pc, wanted, wanted_at, got>>
  <2>1. \A k \in 1 .. Len(wanted) : k >= at + 1 => raws'[wanted_at[k]] = NoBody
    <3> SUFFICES ASSUME NEW k \in 1 .. Len(wanted), k >= at + 1
                 PROVE  raws'[wanted_at[k]] = NoBody
      OBVIOUS
    <3>1. at < k /\ k >= at
      BY <1>2
    <3>2. wanted_at[at] < wanted_at[k]
      BY <1>2, <3>1 DEF WantedInv
    <3>3. wanted_at[k] \in DOMAIN raws /\ wanted_at[k] \in Nat /\ wanted_at[at] \in Nat
      BY <1>2, WantedFacts
    <3>4. wanted_at[k] # Place
      BY <3>2, <3>3 DEF Place
    <3> QED
      BY <1>3, <1>4, <3>1, <3>3, <3>4
  <2> QED
    BY <1>1, <1>3, <1>6, <1>7, <1>9, <2>1 DEF RawsInv
<1> QED
  BY <1>8, <1>9, CollectFacts

\* Every step keeps what is known of the bodies of the batch.
LEMMA RawsStep ==
  ASSUME TypeOK, WalkInv, BatchInv, WantedInv, BodyInv, [Next]_vars
  PROVE  RawsInv' /\ \A i \in DOMAIN raws' : raws'[i] \in Bodies
<1>0. RawsInv /\ \A i \in DOMAIN raws : raws[i] \in Bodies
  BY DEF TypeOK, BodyInv
<1>1. CASE LookUpSpool
  BY <1>1, LookUpRaws
<1>2. CASE Collect
  BY <1>2, CollectRaws
<1>3. CASE StartBatch
  <2>1. /\ pc' = "lookup" /\ raws' = [i \in lo .. (hi - 1) |-> NoBody] /\ wanted' = <<>>
        /\ next' = lo /\ hi' = hi /\ accounted' = {}
    BY <1>3 DEF StartBatch, WantedInv, Seeking, BatchInv
  <2> QED
    BY <2>1, BodyFacts DEF RawsInv
<1>4. CASE FetchBatch
  <2>1. /\ pc = "fetch" /\ pc' = "collect"
        /\ UNCHANGED <<folder, raws, wanted, wanted_at, at, accounted>>
    BY <1>4 DEF FetchBatch
  <2>2. \A k \in 1 .. Len(wanted) : got'[k] = NoBody \/ got'[k].of = <<folder, wanted[k].uid>>
    <3>1. DOMAIN wanted = 1 .. Len(wanted)
      BY DEF TypeOK
    <3> QED
      BY <1>4, <3>1 DEF FetchBatch, Source
  <2> QED
    BY <1>0, <2>1, <2>2 DEF RawsInv, Filled, Key
<1>5. CASE Write
  <2>1. /\ pc = "write" /\ folder' = folder /\ wanted' = wanted /\ wanted = <<>>
        /\ \/ pc' = "batch" /\ raws' = <<>> /\ accounted' = {}
           \/ UNCHANGED <<pc, raws, accounted>>
    BY <1>5 DEF Write, WantedInv, Seeking
  <2> QED
    BY <1>0, <2>1 DEF RawsInv, Filled, Key
<1>6. CASE Restart
  BY <1>6 DEF Restart, RawsInv, Filled
<1>7. CASE UNCHANGED vars
  BY <1>0, <1>7 DEF vars, RawsInv, Key
<1>8. CASE pc' \notin Filled /\ UNCHANGED <<raws, wanted, wanted_at, at, accounted>>
  BY <1>0, <1>8 DEF RawsInv, Filled
<1> QED
  BY <1>1, <1>2, <1>3, <1>4, <1>5, <1>6, <1>7, <1>8 DEF Next, Step, batchVars, ListFolders,
     NextFolder, ListMessages, TakeIntoBatch, FolderDone, Finish, Filled

\* Every step keeps the bodies' part of the invariant.
LEMMA BodyStep ==
  ASSUME TypeOK, WalkInv, BatchInv, WantedInv, BodyInv, [Next]_vars
  PROVE  BodyInv'
<1>1. Keys' = Keys
  BY DEF Keys, Key
<1> QED
  BY <1>1, SpoolStep, RawsStep DEF BodyInv

\* Every step keeps what is known of the requests.
LEMMA AskedInvStep ==
  ASSUME TypeOK, WalkInv, BatchInv, WantedInv, AskedInv, [Next]_vars
  PROVE  AskedInv'
<1>1. CASE LookUpSpool
  <2>1. /\ pc = "lookup" /\ pc' # "collect" /\ UNCHANGED <<folder, spool>>
        /\ next \in DOMAIN metas
    BY <1>1, LookUpFacts, AtWork DEF Batching
  <2>2. CASE wanted' = wanted
    BY <2>1, <2>2 DEF AskedInv
  <2>3. CASE readSpool(next) = NoBody /\ wanted' = Append(wanted, metas[next])
    <3>1. wanted \in Seq([uid : Nat, size : Nat])
      BY DEF TypeOK
    <3>2. \A k \in 1 .. Len(wanted') :
            wanted'[k] = metas[next] \/ (k \in 1 .. Len(wanted) /\ wanted'[k] = wanted[k])
      BY <2>3, <3>1
    <3>3. Spooling => spool[<<folder, metas[next].uid>>] = NoBody
      BY <2>3 DEF readSpool, Key, metas
    <3>4. \A k \in 1 .. Len(wanted) : Spooling => spool[<<folder, wanted[k].uid>>] = NoBody
      BY <2>1 DEF AskedInv
    <3>5. \A k \in 1 .. Len(wanted') : Spooling => spool[<<folder, wanted'[k].uid>>] = NoBody
      BY <3>2, <3>3, <3>4
    <3> QED
      BY <2>1, <3>5 DEF AskedInv
  <2> QED
    BY <1>1, <2>2, <2>3, LookUpFacts
<1>2. CASE FetchBatch
  <2>1. DOMAIN wanted = 1 .. Len(wanted)
    BY DEF TypeOK
  <2> QED
    BY <1>2, <2>1 DEF FetchBatch, AskedInv
<1>3. CASE Collect
  <2>1. pc = "collect" /\ folder' = folder /\ asked \subseteq asked'
        /\ (pc' = "write" \/ (pc' = "collect" /\ wanted' = wanted))
    BY <1>3, CollectFacts
  <2> QED
    BY <2>1 DEF AskedInv
<1>4. CASE StartBatch
  <2>1. pc' = "lookup" /\ wanted' = <<>>
    BY <1>4 DEF StartBatch, WantedInv, Seeking
  <2> QED
    BY <2>1 DEF AskedInv
<1>5. CASE UNCHANGED vars
  BY <1>5 DEF vars, AskedInv
<1>6. CASE pc' \notin Seeking
  BY <1>6 DEF AskedInv, Seeking
<1> QED
  BY <1>1, <1>2, <1>3, <1>4, <1>5, <1>6 DEF Next, Step, batchVars, ListFolders, NextFolder,
     ListMessages, TakeIntoBatch, FolderDone, Write, Finish, Restart, Seeking

----------------------------------------------------------------------------
(* The two lists.                                                          *)

\* The places where an entry is made: the fetch loop counts a failure, the
\* write loop writes the message, counts a failure or passes over a message
\* that the fetch loop has counted; every other step leaves the lists alone.
CountsFailure ==
  /\ Collect /\ accounted' = accounted \cup {Place}
  /\ failed' = Append(failed, Missed(Place)) /\ pst' = pst
Writes ==
  /\ Write /\ raws[next] # NoBody
  /\ pst' = Append(pst, Entry(next, raws[next])) /\ failed' = failed
Fails ==
  /\ Write /\ next \notin accounted
  /\ failed' = Append(failed, Missed(next)) /\ pst' = pst
PassesOver ==
  /\ Write /\ next \in accounted /\ UNCHANGED <<pst, failed>>
LeavesLists ==
  /\ UNCHANGED <<pst, failed>>
  /\ \/ ListFolders \/ NextFolder \/ ListMessages \/ TakeIntoBatch \/ StartBatch
     \/ LookUpSpool \/ FolderDone \/ FetchBatch \/ Finish
     \/ Collect /\ accounted' = accounted
     \/ UNCHANGED vars

\* Every step is one of these.
LEMMA ListCases ==
  ASSUME TypeOK, WalkInv, BatchInv, WantedInv, BodyInv, [Next]_vars
  PROVE  CountsFailure \/ Writes \/ Fails \/ PassesOver \/ LeavesLists \/ Restart
<1>1. CASE Collect
  <2>1. wanted[at].uid = metas[Place].uid /\ pst' = pst
    BY <1>1, AtCollect, CollectFacts
  <2> QED
    BY <1>1, <2>1, CollectFacts DEF CountsFailure, LeavesLists, Missed
<1>2. CASE Write
  <2>1. next \in accounted => raws[next] = NoBody
    BY DEF BodyInv, RawsInv
  <2> QED
    BY <1>2, <2>1 DEF Write, AlreadyCounted, Fail, Missed, Writes, Fails, PassesOver
<1> QED
  BY <1>1, <1>2 DEF Next, Step, vars, LeavesLists, ListFolders, NextFolder, ListMessages,
     TakeIntoBatch, StartBatch, LookUpSpool, FolderDone, FetchBatch, Finish

\* The message a step makes an entry for, with its body.
LEMMA AtWrite ==
  ASSUME TypeOK, WalkInv, BatchInv, WantedInv, BodyInv, pc = "write"
  PROVE  /\ next \in DOMAIN metas /\ next \in DOMAIN raws /\ next \in lo .. (hi - 1)
         /\ raws[next] \in Bodies
         /\ raws[next] # NoBody => raws[next].of = Key(folder, next) /\ next \notin accounted
<1>1. next \in DOMAIN raws /\ next \in lo .. (hi - 1)
  BY DEF BatchInv, Filled
<1> QED
  BY <1>1, AtWork DEF Batching, Filled, TypeOK, BodyInv, RawsInv

\* The failure list grows by one entry for a message that has none.
LEMMA FailedGrows ==
  ASSUME TypeOK, WalkInv, BatchInv, WantedInv, BodyInv, ListsInv, CountsFailure \/ Fails
  PROVE  \E i \in DOMAIN metas :
           /\ pc \in Batching /\ i >= Through /\ i \notin accounted /\ i \in lo .. (hi - 1)
           /\ i = IF pc = "collect" THEN Place ELSE next
           /\ failed' = Append(failed, Missed(i)) /\ pst' = pst
           /\ Missed(i) \in Entries
           /\ Missed(i).folder = folder /\ Missed(i).index = i
           /\ Missed(i).body.of = Key(folder, i)
           /\ ~Has(pst, folder, i) /\ ~Has(failed, folder, i)
<1>1. PICK i \in DOMAIN metas :
        /\ pc \in Batching /\ i >= Through /\ i \notin accounted /\ i \in lo .. (hi - 1)
        /\ i = IF pc = "collect" THEN Place ELSE next
        /\ failed' = Append(failed, Missed(i)) /\ pst' = pst
  <2>1. CASE CountsFailure
    BY <2>1, AtCollect DEF CountsFailure, Collect, Through, Batching, BatchInv
  <2>2. CASE Fails
    BY <2>2, AtWrite DEF Fails, Write, Through, Batching, BatchInv
  <2> QED
    BY <2>1, <2>2
<1>2. Through \in Nat /\ i \in Nat
  BY <1>1 DEF Through, BatchInv
<1>3. ~Has(pst, folder, i)
  BY <1>1, <1>2 DEF Has, ListsInv
<1>4. ~Has(failed, folder, i)
  BY <1>1, <1>2 DEF Has, ListsInv
<1> QED
  BY <1>1, <1>3, <1>4, EntryFacts

\* The PST grows by one message that had no entry, with its own source.
LEMMA PstGrows ==
  ASSUME TypeOK, WalkInv, BatchInv, WantedInv, BodyInv, ListsInv, Writes
  PROVE  /\ pc = "write" /\ next \in DOMAIN metas /\ next \notin accounted
         /\ next \in lo .. (hi - 1)
         /\ pst' = Append(pst, Entry(next, raws[next])) /\ failed' = failed
         /\ Entry(next, raws[next]) \in Entries
         /\ Entry(next, raws[next]).folder = folder /\ Entry(next, raws[next]).index = next
         /\ Entry(next, raws[next]).body.of = Key(folder, next)
         /\ ~Has(pst, folder, next) /\ ~Has(failed, folder, next)
<1>1. /\ pc = "write" /\ next \in DOMAIN metas /\ next \notin accounted
      /\ next \in lo .. (hi - 1) /\ raws[next] \in Bodies
      /\ raws[next].of = Key(folder, next)
      /\ pst' = Append(pst, Entry(next, raws[next])) /\ failed' = failed
  BY AtWrite DEF Writes, Write
<1>2. next \in Nat /\ Through = next
  BY <1>1 DEF Through, BatchInv
<1>3. ~Has(pst, folder, next)
  BY <1>1, <1>2 DEF Has, ListsInv, Batching
<1>4. ~Has(failed, folder, next)
  BY <1>1, <1>2 DEF Has, ListsInv, Batching
<1> QED
  BY <1>1, <1>3, <1>4, EntryFacts DEF Batching

\* The lists, seen as what they hold.
Valid(s, named) ==
  /\ s \in Seq(Entries)
  /\ \A k \in DOMAIN s : s[k].folder \in named /\ s[k].index \in DOMAIN Mailbox[s[k].folder]
NoTwice(s) == \A j, k \in DOMAIN s :
                s[j].folder = s[k].folder /\ s[j].index = s[k].index => j = k
Apart(s, t) == \A j \in DOMAIN s, k \in DOMAIN t :
                 ~(s[j].folder = t[k].folder /\ s[j].index = t[k].index)
Ahead == pc \in Batching =>
  /\ \A k \in DOMAIN pst : pst[k].folder = folder => pst[k].index < Through
  /\ \A k \in DOMAIN failed :
       failed[k].folder = folder => failed[k].index < Through \/ failed[k].index \in accounted

\* ListsInv in those terms.
LEMMA ListsParts ==
  ListsInv <=> /\ Valid(pst, listed) /\ Valid(failed, listed)
               /\ NoTwice(failed) /\ Apart(pst, failed) /\ Ahead
  BY DEF ListsInv, Valid, NoTwice, Apart, Ahead

\* Where a turn of the write loop leaves the batch.
LEMMA WriteMoves ==
  ASSUME TypeOK, WalkInv, BatchInv, WantedInv, Write
  PROVE  /\ pc = "write" /\ pc' \in {"write", "batch"} /\ Through = next /\ next \in Nat
         /\ Through' = next + 1 /\ UNCHANGED <<folder, listed>>
         /\ \/ accounted' = accounted /\ pc' = "write"
            \/ pc' = "batch" /\ \A i \in accounted : i < Through'
<1>1. pc = "write" /\ UNCHANGED <<folder, listed>> /\ next \in Nat /\ lo \in Nat /\ hi \in Nat
      /\ accounted \subseteq lo .. (hi - 1)
  BY DEF Write, BatchInv, TypeOK, Filled
<1>2. CASE next + 1 = hi
  BY <1>1, <1>2 DEF Write, LastOfBatch, NextLo, Through
<1>3. CASE next + 1 # hi
  BY <1>1, <1>3 DEF Write, LastOfBatch, NextLo, Through
<1> QED
  BY <1>2, <1>3

\* Where a turn of the fetch loop leaves it.
LEMMA CollectMoves ==
  ASSUME BatchInv, Collect
  PROVE  /\ pc = "collect" /\ pc' \in {"collect", "write"} /\ Through = lo /\ Through' = lo
         /\ UNCHANGED <<folder, listed>>
  BY CollectFacts DEF BatchInv, Through

\* A list that grows by an entry for a listed message stays well formed.
LEMMA GrowValid ==
  ASSUME NEW s, NEW named, Valid(s, named), NEW e \in Entries, NEW t, t = Append(s, e),
         e.folder \in named, e.index \in DOMAIN Mailbox[e.folder]
  PROVE  Valid(t, named)
<1>1. /\ t \in Seq(Entries)
      /\ \A k \in DOMAIN s : t[k] = s[k]
      /\ \A k \in DOMAIN t : k \notin DOMAIN s => t[k] = e
  BY AppendFacts DEF Valid
<1> QED
  BY <1>1 DEF Valid

\* Every step keeps the lists well formed.
LEMMA ValidStep ==
  ASSUME TypeOK, WalkInv, BatchInv, WantedInv, BodyInv, ListsInv, [Next]_vars
  PROVE  Valid(pst', listed') /\ Valid(failed', listed')
<1>0. Valid(pst, listed) /\ Valid(failed, listed)
  BY ListsParts
<1>1. CASE CountsFailure \/ Fails
  <2>1. PICK i \in DOMAIN metas :
           /\ pc \in Batching
           /\ failed' = Append(failed, Missed(i)) /\ pst' = pst
           /\ Missed(i) \in Entries
           /\ Missed(i).folder = folder /\ Missed(i).index = i
    BY <1>1, FailedGrows
  <2>2. listed' = listed
    BY <1>1, WriteMoves, CollectMoves DEF CountsFailure, Fails
  <2>3. folder \in listed /\ i \in DOMAIN Mailbox[folder]
    BY <2>1 DEF WalkInv, metas
  <2>4. Valid(failed', listed')
    BY <1>0, <2>1, <2>2, <2>3, GrowValid
  <2> QED
    BY <1>0, <2>1, <2>2, <2>4 DEF Valid
<1>2. CASE Writes
  <2>1. listed' = listed
    BY <1>2, WriteMoves DEF Writes
  <2>2. folder \in listed /\ next \in DOMAIN Mailbox[folder]
    BY <1>2, PstGrows DEF WalkInv, metas, Batching
  <2>3. Valid(pst', listed')
    BY <1>0, <1>2, <2>1, <2>2, PstGrows, GrowValid
  <2> QED
    BY <1>0, <1>2, <2>1, <2>3, PstGrows DEF Valid
<1>3. CASE UNCHANGED <<pst, failed>> /\ listed \subseteq listed'
  BY <1>0, <1>3 DEF Valid
<1>4. CASE Restart
  BY <1>4 DEF Restart, Valid
<1>5. PassesOver => UNCHANGED <<pst, failed>> /\ listed \subseteq listed'
  BY WriteMoves DEF PassesOver
<1>6. LeavesLists => UNCHANGED <<pst, failed>> /\ listed \subseteq listed'
  BY DEF LeavesLists, ListFolders, NextFolder, ListMessages, TakeIntoBatch, StartBatch, LookUpSpool,
         FolderDone, FetchBatch, Finish, Collect, vars
<1> QED
  BY <1>1, <1>2, <1>3, <1>4, <1>5, <1>6, ListCases

\* A list without repetition that grows by a message it lacks has none still.
LEMMA GrowNoTwice ==
  ASSUME NEW s \in Seq(Entries), NEW e \in Entries, NEW t, t = Append(s, e), NoTwice(s),
         ~Has(s, e.folder, e.index)
  PROVE  NoTwice(t)
<1> SUFFICES ASSUME NEW j \in DOMAIN t, NEW k \in DOMAIN t,
                    t[j].folder = t[k].folder, t[j].index = t[k].index
             PROVE  j = k
  BY DEF NoTwice
<1>0. /\ \A n \in DOMAIN s : t[n] = s[n]
      /\ \A n \in DOMAIN t : n \notin DOMAIN s => n = Len(s) + 1 /\ t[n] = e
  BY AppendFacts
<1>1. CASE j \in DOMAIN s /\ k \in DOMAIN s
  BY <1>0, <1>1 DEF NoTwice
<1>2. CASE j \notin DOMAIN s /\ k \notin DOMAIN s
  BY <1>0, <1>2
<1>3. CASE j \in DOMAIN s /\ k \notin DOMAIN s
  BY <1>0, <1>3 DEF Has
<1>4. CASE j \notin DOMAIN s /\ k \in DOMAIN s
  BY <1>0, <1>4 DEF Has
<1> QED
  BY <1>1, <1>2, <1>3, <1>4

\* One that grows by a message the other lacks stays apart from the other.
LEMMA GrowApart ==
  ASSUME NEW s \in Seq(Entries), NEW u, Apart(s, u), NEW e \in Entries, NEW t,
         t = Append(s, e), ~Has(u, e.folder, e.index)
  PROVE  Apart(t, u) /\ Apart(u, t)
<1>1. /\ \A k \in DOMAIN s : t[k] = s[k]
      /\ \A k \in DOMAIN t : k \notin DOMAIN s => t[k] = e
  BY AppendFacts
<1>2. ASSUME NEW j \in DOMAIN t, NEW k \in DOMAIN u
      PROVE  ~(t[j].folder = u[k].folder /\ t[j].index = u[k].index)
  BY <1>1 DEF Apart, Has
<1> QED
  BY <1>2 DEF Apart

\* No step counts a message as failed twice, or one that was written, or
\* writes one that was counted.
LEMMA ApartStep ==
  ASSUME TypeOK, WalkInv, BatchInv, WantedInv, BodyInv, ListsInv, [Next]_vars
  PROVE  NoTwice(failed') /\ Apart(pst', failed')
<1>0. NoTwice(failed) /\ Apart(pst, failed) /\ pst \in Seq(Entries) /\ failed \in Seq(Entries)
  BY ListsParts DEF Valid
<1>1. CASE CountsFailure \/ Fails
  <2>1. PICK i \in DOMAIN metas :
           /\ failed' = Append(failed, Missed(i)) /\ pst' = pst
           /\ Missed(i) \in Entries
           /\ Missed(i).folder = folder /\ Missed(i).index = i
           /\ ~Has(pst, folder, i) /\ ~Has(failed, folder, i)
    BY <1>1, FailedGrows
  <2> DEFINE e == Missed(i)
  <2>2. e \in Entries /\ e.folder = folder /\ e.index = i /\ failed' = Append(failed, e)
    BY <2>1
  <2> HIDE DEF e
  <2>3. NoTwice(failed')
    BY <1>0, <2>1, <2>2, GrowNoTwice
  <2>4. Apart(pst', failed')
    <3>1. Apart(failed, pst)
      BY <1>0 DEF Apart
    <3> QED
      BY <1>0, <2>1, <2>2, <3>1, GrowApart
  <2> QED
    BY <2>3, <2>4
<1>2. CASE Writes
  <2> DEFINE e == Entry(next, raws[next])
  <2>2. e \in Entries /\ e.folder = folder /\ e.index = next /\ pst' = Append(pst, e)
        /\ failed' = failed /\ ~Has(failed, folder, next)
    BY <1>2, PstGrows
  <2> HIDE DEF e
  <2>3. Apart(pst', failed')
    BY <1>0, <2>2, GrowApart
  <2> QED
    BY <1>0, <2>2, <2>3
<1>3. CASE UNCHANGED <<pst, failed>>
  BY <1>0, <1>3 DEF NoTwice, Apart
<1>4. CASE Restart
  BY <1>4 DEF Restart, NoTwice, Apart
<1> QED
  BY <1>1, <1>2, <1>3, <1>4, ListCases DEF PassesOver, LeavesLists

\* No step makes an entry ahead of where the loops are.
LEMMA AheadStep ==
  ASSUME TypeOK, WalkInv, BatchInv, WantedInv, BodyInv, ListsInv, [Next]_vars
  PROVE  Ahead'
<1>0. /\ Ahead /\ Valid(pst, listed) /\ Valid(failed, listed)
      /\ pst \in Seq(Entries) /\ failed \in Seq(Entries)
      /\ lo \in Nat /\ hi \in Nat /\ next \in Nat
  BY ListsParts DEF Valid, BatchInv
<1>n. /\ \A k \in DOMAIN pst : pst[k].folder \in Folders /\ pst[k].index \in Nat
      /\ \A k \in DOMAIN failed : failed[k].folder \in Folders /\ failed[k].index \in Nat
  <2>1. /\ \A k \in DOMAIN pst : pst[k] \in Entries
        /\ \A k \in DOMAIN failed : failed[k] \in Entries
    BY <1>0, ElementIn
  <2> QED
    BY <2>1 DEF Entries
<1>1. CASE CountsFailure
  <2>1. PICK i \in DOMAIN metas :
           /\ i = Place
           /\ failed' = Append(failed, Missed(i)) /\ pst' = pst
           /\ Missed(i) \in Entries
           /\ Missed(i).folder = folder /\ Missed(i).index = i
    BY <1>1, FailedGrows DEF CountsFailure, Collect
  <2> DEFINE e == Missed(i)
  <2>2. e \in Entries /\ e.folder = folder /\ e.index = i /\ failed' = Append(failed, e)
    BY <2>1
  <2> HIDE DEF e
  <2>3. /\ pc = "collect" /\ Through = lo /\ Through' = lo /\ folder' = folder
        /\ accounted' = accounted \cup {i}
    BY <1>1, <2>1, CollectMoves DEF CountsFailure
  <2> QED
    BY <1>0, <2>1, <2>2, <2>3, AppendFacts DEF Ahead, Batching
<1>2. CASE Write
  <2>1. /\ pc = "write" /\ Through = next /\ Through' = next + 1 /\ folder' = folder
        /\ accounted' = accounted \/ \A i \in accounted : i < Through'
    BY <1>2, WriteMoves
  <2>2. CASE Writes
    <3> DEFINE e == Entry(next, raws[next])
    <3>1. e \in Entries /\ e.folder = folder /\ e.index = next /\ pst' = Append(pst, e)
          /\ failed' = failed
      BY <2>2, PstGrows
    <3> HIDE DEF e
    <3> QED
      BY <1>0, <1>n, <2>1, <3>1, AppendFacts DEF Ahead, Batching
  <2>3. CASE Fails
    <3>1. PICK i \in DOMAIN metas :
             /\ i = next
             /\ failed' = Append(failed, Missed(i)) /\ pst' = pst
             /\ Missed(i) \in Entries
             /\ Missed(i).folder = folder /\ Missed(i).index = i
      BY <2>1, <2>3, FailedGrows
    <3> DEFINE e == Missed(i)
    <3>2. e \in Entries /\ e.folder = folder /\ e.index = i /\ failed' = Append(failed, e)
      BY <3>1
    <3> HIDE DEF e
    <3> QED
      BY <1>0, <1>n, <2>1, <3>1, <3>2, AppendFacts DEF Ahead, Batching
  <2>4. CASE UNCHANGED <<pst, failed>>
    BY <1>0, <1>n, <2>1, <2>4 DEF Ahead, Batching
  <2>5. CASE Restart
    BY <2>5 DEF Restart, Ahead, Batching
  <2> QED
    BY <2>1, <2>2, <2>3, <2>4, <2>5, ListCases DEF PassesOver, LeavesLists, CountsFailure,
       Collect
<1>3. CASE ListMessages
  <2>1. pc = "listing" /\ folder \notin listed /\ UNCHANGED <<pst, failed>>
        /\ (pc' \in Batching => folder' = folder)
    BY <1>3 DEF ListMessages, WalkInv, Batching
  <2> QED
    BY <1>0, <2>1 DEF Ahead, Valid
<1>4. CASE /\ UNCHANGED <<pst, failed>>
           /\ pc' \in Batching => /\ pc \in Batching /\ Through' = Through /\ folder' = folder
                                  /\ accounted' = accounted
  BY <1>0, <1>4 DEF Ahead
<1>5. CASE Restart
  BY <1>5 DEF Restart, Ahead, Batching
<1>6. LeavesLists => ListMessages
        \/ (/\ UNCHANGED <<pst, failed>>
            /\ pc' \in Batching => /\ pc \in Batching /\ Through' = Through /\ folder' = folder
                                   /\ accounted' = accounted)
  <2>1. Collect => pc = "collect" /\ Through' = Through /\ folder' = folder
    BY CollectMoves
  <2> QED
    BY <2>1 DEF LeavesLists, ListFolders, NextFolder, TakeIntoBatch, StartBatch, LookUpSpool, FolderDone,
       FetchBatch, Finish, vars, batchVars, Batching, Through, BatchInv
<1> QED
  BY <1>1, <1>2, <1>3, <1>4, <1>5, <1>6, ListCases DEF PassesOver, Writes, Fails

\* Every step keeps the lists' part of the invariant.
LEMMA ListsStep ==
  ASSUME TypeOK, WalkInv, BatchInv, WantedInv, BodyInv, ListsInv, [Next]_vars
  PROVE  ListsInv'
<1>1. /\ Valid(pst', listed') /\ Valid(failed', listed')
      /\ NoTwice(failed') /\ Apart(pst', failed') /\ Ahead'
  BY ValidStep, ApartStep, AheadStep
<1> QED
  BY <1>1 DEF ListsInv, Valid, NoTwice, Apart, Ahead

\* A list whose entries name their messages keeps doing so.
LEMMA GrowOwn ==
  ASSUME NEW s \in Seq(Entries), NEW e \in Entries, NEW t, t = Append(s, e),
         \A k \in DOMAIN s : s[k].body.of = Key(s[k].folder, s[k].index),
         e.body.of = Key(e.folder, e.index)
  PROVE  \A k \in DOMAIN t : t[k].body.of = Key(t[k].folder, t[k].index)
<1>1. /\ \A k \in DOMAIN s : t[k] = s[k]
      /\ \A k \in DOMAIN t : k \notin DOMAIN s => t[k] = e
  BY AppendFacts
<1> QED
  BY <1>1

\* OwnSource, with the lists of the next state made explicit.
LEMMA OwnSourceNext ==
  ASSUME \A k \in DOMAIN pst' : pst'[k].body.of = Key(pst'[k].folder, pst'[k].index),
         \A k \in DOMAIN failed' : failed'[k].body.of = Key(failed'[k].folder, failed'[k].index)
  PROVE  OwnSource'
  BY DEF OwnSource, Key

\* Every step keeps the entries of both lists those of their own messages.
LEMMA OwnSourceStep ==
  ASSUME TypeOK, WalkInv, BatchInv, WantedInv, BodyInv, ListsInv, OwnSource, [Next]_vars
  PROVE  OwnSource'
<1>0. /\ pst \in Seq(Entries) /\ failed \in Seq(Entries)
      /\ \A k \in DOMAIN pst : pst[k].body.of = Key(pst[k].folder, pst[k].index)
      /\ \A k \in DOMAIN failed : failed[k].body.of = Key(failed[k].folder, failed[k].index)
  BY DEF OwnSource, ListsInv
<1>1. CASE CountsFailure \/ Fails
  <2>1. PICK i \in DOMAIN metas :
           /\ failed' = Append(failed, Missed(i)) /\ pst' = pst
           /\ Missed(i) \in Entries
           /\ Missed(i).folder = folder /\ Missed(i).index = i
           /\ Missed(i).body.of = Key(folder, i)
    BY <1>1, FailedGrows
  <2> DEFINE e == Missed(i)
  <2>2. e \in Entries /\ e.body.of = Key(e.folder, e.index) /\ failed' = Append(failed, e)
    BY <2>1
  <2> HIDE DEF e
  <2>3. \A k \in DOMAIN failed' : failed'[k].body.of = Key(failed'[k].folder, failed'[k].index)
    BY <1>0, <2>2, GrowOwn
  <2> QED
    BY <1>0, <2>1, <2>3, OwnSourceNext
<1>2. CASE Writes
  <2> DEFINE e == Entry(next, raws[next])
  <2>1. /\ e \in Entries /\ e.body.of = Key(e.folder, e.index) /\ pst' = Append(pst, e)
        /\ failed' = failed
    BY <1>2, PstGrows
  <2> HIDE DEF e
  <2>2. \A k \in DOMAIN pst' : pst'[k].body.of = Key(pst'[k].folder, pst'[k].index)
    BY <1>0, <2>1, GrowOwn
  <2> QED
    BY <1>0, <2>1, <2>2, OwnSourceNext
<1>3. CASE UNCHANGED <<pst, failed>>
  BY <1>0, <1>3, OwnSourceNext
<1>4. CASE Restart
  BY <1>4 DEF Restart, OwnSource
<1> QED
  BY <1>1, <1>2, <1>3, <1>4, ListCases DEF PassesOver, LeavesLists

\* Every step keeps the PST in listing order.
LEMMA PstStep ==
  ASSUME TypeOK, WalkInv, BatchInv, WantedInv, BodyInv, ListsInv, ListingOrder, [Next]_vars
  PROVE  ListingOrder'
<1>0. pst \in Seq(Entries) /\ Ahead
  BY ListsParts DEF Valid
<1>1. CASE Writes
  <2> DEFINE e == Entry(next, raws[next])
  <2>1. /\ pc = "write" /\ e \in Entries /\ e.folder = folder /\ e.index = next
        /\ pst' = Append(pst, e) /\ next \in Nat
    BY <1>1, PstGrows DEF BatchInv
  <2> HIDE DEF e
  <2>2. /\ \A n \in DOMAIN pst : pst'[n] = pst[n]
        /\ \A n \in DOMAIN pst' : n \notin DOMAIN pst => n = Len(pst) + 1 /\ pst'[n] = e
        /\ DOMAIN pst = 1 .. Len(pst) /\ Len(pst) \in Nat
        /\ DOMAIN pst' = 1 .. (Len(pst) + 1)
    BY <1>0, <2>1, AppendFacts
  <2>3. \A k \in DOMAIN pst : pst[k].folder = folder => pst[k].index < next
    BY <1>0, <2>1 DEF Ahead, Batching, Through
  <2> SUFFICES ASSUME NEW j \in DOMAIN pst', NEW k \in DOMAIN pst', j < k,
                      pst'[j].folder = pst'[k].folder
               PROVE  pst'[j].index < pst'[k].index
    BY DEF ListingOrder
  <2>4. CASE k \in DOMAIN pst
    <3>1. j \in DOMAIN pst
      BY <2>2, <2>4
    <3> QED
      BY <2>2, <2>4, <3>1 DEF ListingOrder
  <2>5. CASE k \notin DOMAIN pst
    <3>1. j \in DOMAIN pst
      BY <2>2, <2>5
    <3> QED
      BY <2>1, <2>2, <2>3, <2>5, <3>1
  <2> QED
    BY <2>4, <2>5
<1>2. CASE pst' = pst
  BY <1>2 DEF ListingOrder
<1>3. CASE Restart
  BY <1>3 DEF Restart, ListingOrder
<1> QED
  BY <1>1, <1>2, <1>3, ListCases DEF CountsFailure, Fails, PassesOver, LeavesLists

----------------------------------------------------------------------------
(* Everything listed is settled.                                           *)

\* The three parts of SettledInv.
Settled == \A f \in listed : \A i \in DOMAIN Mailbox[f] :
             (pc \in Batching /\ f = folder => i < Through) => Has(pst, f, i) \/ Has(failed, f, i)
Counted == pc \in {"collect", "write"} => \A i \in accounted : Has(failed, folder, i)

\* A step other than a new run never takes an entry away.
LEMMA EntriesStay ==
  ASSUME TypeOK, WalkInv, BatchInv, WantedInv, BodyInv, ListsInv, [Next]_vars, ~Restart
  PROVE  \A f, i : /\ Has(pst, f, i) => Has(pst', f, i)
                   /\ Has(failed, f, i) => Has(failed', f, i)
<1>0. pst \in Seq(Entries) /\ failed \in Seq(Entries)
  BY DEF ListsInv
<1>1. CASE CountsFailure \/ Fails
  BY <1>0, <1>1, FailedGrows, AppendHas
<1>2. CASE Writes
  BY <1>0, <1>2, PstGrows, AppendHas
<1>3. CASE UNCHANGED <<pst, failed>>
  BY <1>3
<1> QED
  BY <1>1, <1>2, <1>3, ListCases DEF PassesOver, LeavesLists

\* What the fetch loop counts is in the failure list.
LEMMA CountedStep ==
  ASSUME TypeOK, WalkInv, BatchInv, WantedInv, BodyInv, ListsInv, Counted, [Next]_vars
  PROVE  Counted'
<1>0. failed \in Seq(Entries)
  BY DEF ListsInv
<1>1. CASE CountsFailure
  <2>1. PICK i \in DOMAIN metas :
           /\ i = Place
           /\ failed' = Append(failed, Missed(i))
           /\ Missed(i) \in Entries
           /\ Missed(i).folder = folder /\ Missed(i).index = i
    BY <1>1, FailedGrows DEF CountsFailure, Collect
  <2> DEFINE e == Missed(i)
  <2>e. e \in Entries /\ e.folder = folder /\ e.index = i /\ failed' = Append(failed, e)
    BY <2>1
  <2> HIDE DEF e
  <2>2. Has(failed', folder, i) /\ \A j : Has(failed, folder, j) => Has(failed', folder, j)
    BY <1>0, <2>e, AppendHas
  <2>3. /\ pc = "collect" /\ folder' = folder /\ accounted' = accounted \cup {i}
    BY <1>1, <2>1, CollectMoves DEF CountsFailure
  <2>4. \A j \in accounted' : Has(failed', folder', j)
    BY <2>2, <2>3 DEF Counted
  <2> QED
    BY <2>4 DEF Counted, Has
<1>2. CASE /\ ~Restart /\ folder' = folder
           /\ \/ accounted' = {}
              \/ accounted' = accounted /\ pc \in {"collect", "write"}
  <2>1. \A j \in accounted' : Has(failed', folder', j)
    BY <1>2, EntriesStay DEF Counted
  <2> QED
    BY <2>1 DEF Counted, Has
<1>3. CASE pc' \notin {"collect", "write"}
  BY <1>3 DEF Counted
<1>4. CASE Restart
  BY <1>4 DEF Restart, Counted
<1>5. CASE Write
  BY <1>2, <1>3, <1>4, <1>5, WriteMoves
<1>6. CASE LeavesLists
  <2>1. CASE Collect /\ accounted' = accounted
    BY <1>2, <1>4, <2>1, CollectMoves
  <2>2. CASE UNCHANGED vars
    BY <1>2, <1>3, <1>4, <2>2 DEF vars
  <2>3. CASE LookUpSpool
    BY <1>2, <1>4, <2>3, LookUpFacts DEF BatchInv
  <2>4. CASE FetchBatch
    BY <1>2, <1>4, <2>4 DEF FetchBatch, BatchInv
  <2> QED
    BY <1>3, <1>6, <2>1, <2>2, <2>3, <2>4 DEF LeavesLists, ListFolders, NextFolder,
       ListMessages, TakeIntoBatch, StartBatch, FolderDone, Finish
<1> QED
  BY <1>1, <1>4, <1>5, <1>6, ListCases DEF Writes, Fails, PassesOver

\* A turn of the write loop settles the message it is at.
LEMMA WriteSettles ==
  ASSUME TypeOK, WalkInv, BatchInv, WantedInv, BodyInv, ListsInv, Counted, [Next]_vars, ~Restart, Write
  PROVE  Has(pst', folder, next) \/ Has(failed', folder, next)
<1>0. pst \in Seq(Entries) /\ failed \in Seq(Entries) /\ pc = "write"
  BY DEF ListsInv, Write
<1>1. CASE Writes
  <2> DEFINE e == Entry(next, raws[next])
  <2>1. e \in Entries /\ e.folder = folder /\ e.index = next /\ pst' = Append(pst, e)
    BY <1>1, PstGrows
  <2> HIDE DEF e
  <2> QED
    BY <1>0, <2>1, AppendHas
<1>2. CASE Fails
  <2> DEFINE e == Missed(next)
  <2>1. e \in Entries /\ e.folder = folder /\ e.index = next /\ failed' = Append(failed, e)
    BY <1>0, <1>2, FailedGrows
  <2> HIDE DEF e
  <2> QED
    BY <1>0, <2>1, AppendHas
<1>3. CASE next \in accounted
  BY <1>0, <1>3, EntriesStay DEF Counted
<1>4. Writes \/ Fails \/ next \in accounted
  BY <1>0, ListCases DEF PassesOver, LeavesLists, CountsFailure, ListFolders, NextFolder,
     ListMessages, TakeIntoBatch, StartBatch, LookUpSpool, FolderDone, FetchBatch, Finish, Collect, Write,
     AlreadyCounted, Fail, Writes, Fails
<1> QED
  BY <1>1, <1>2, <1>3, <1>4

\* Settled, with the lists of the next state made explicit.
LEMMA SettledNext ==
  ASSUME \A f \in listed' : \A i \in DOMAIN Mailbox[f] :
           (pc' \in Batching /\ f = folder' => i < Through')
             => Has(pst', f, i) \/ Has(failed', f, i)
  PROVE  Settled'
  BY DEF Settled, Has

\* No step leaves behind a listed message that is not settled.
LEMMA SettledStep ==
  ASSUME TypeOK, WalkInv, BatchInv, WantedInv, BodyInv, ListsInv, Settled, Counted, [Next]_vars
  PROVE  Settled'
<1>1. CASE Restart
  BY <1>1 DEF Restart, Settled
<1>2. CASE ~Restart /\ Write
  <2>0. /\ pc = "write" /\ pc' \in Batching /\ Through = next /\ next \in Nat
        /\ Through' = next + 1 /\ UNCHANGED <<folder, listed>>
    BY <1>2, WriteMoves DEF Batching
  <2>1. SUFFICES ASSUME NEW f \in listed, NEW i \in DOMAIN Mailbox[f], f = folder => i < next + 1
                 PROVE  Has(pst', f, i) \/ Has(failed', f, i)
    BY <2>0, SettledNext
  <2>2. CASE f = folder /\ i = next
    BY <1>2, <2>2, WriteSettles
  <2>3. CASE ~(f = folder /\ i = next)
    <3>1. i \in Nat
      BY ListingFacts DEF TypeOK
    <3>2. f = folder => i < next
      BY <2>0, <2>1, <2>3, <3>1
    <3>3. Has(pst, f, i) \/ Has(failed, f, i)
      BY <2>0, <3>2 DEF Settled
    <3> QED
      BY <1>2, <3>3, EntriesStay
  <2> QED
    BY <2>2, <2>3
<1>3. CASE ~Restart /\ ListMessages
  <2>1. /\ pc = "listing" /\ folder \notin listed /\ listed' \subseteq listed \cup {folder}
        /\ \/ pc' = "batch" /\ folder' = folder /\ Through' = 1
           \/ listed' = listed
    BY <1>3 DEF ListMessages, WalkInv, Through
  <2>2. \A i \in DOMAIN Mailbox[folder] : ~(i < 1)
    BY <1>3, ListingFacts DEF ListMessages, WalkInv, Walking
  <2>3. \A f \in listed : \A i \in DOMAIN Mailbox[f] : Has(pst', f, i) \/ Has(failed', f, i)
    BY <1>3, <2>1, EntriesStay DEF Settled, Batching
  <2> QED
    BY <2>1, <2>2, <2>3, SettledNext DEF Batching
<1>4. CASE ~Restart /\ FolderDone
  <2>1. /\ pc = "batch" /\ lo > Len(metas) /\ listed' = listed /\ lo \in Nat
        /\ folder \in Folders /\ metas = Mailbox[folder]
        /\ Len(metas) \in Nat /\ DOMAIN metas = 1 .. Len(metas)
    BY <1>4, AtWork DEF FolderDone, EndOfListing, BatchInv, Batching
  <2>2. \A i \in DOMAIN Mailbox[folder] : i < Through
    BY <2>1 DEF Through
  <2>3. \A f \in listed : \A i \in DOMAIN Mailbox[f] : Has(pst', f, i) \/ Has(failed', f, i)
    BY <1>4, <2>1, <2>2, EntriesStay DEF Settled
  <2> QED
    BY <2>1, <2>3, SettledNext
<1>5. CASE /\ ~Restart /\ listed' = listed
           /\ \/ pc \in Batching /\ pc' \in Batching /\ Through' = Through /\ folder' = folder
              \/ pc \notin Batching
  <2>1. ASSUME NEW f \in listed, NEW i \in DOMAIN Mailbox[f],
               pc' \in Batching /\ f = folder' => i < Through'
        PROVE  Has(pst', f, i) \/ Has(failed', f, i)
    <3>1. Has(pst, f, i) \/ Has(failed, f, i)
      BY <1>5, <2>1 DEF Settled
    <3> QED
      BY <1>5, <3>1, EntriesStay
  <2> QED
    BY <1>5, <2>1, SettledNext
<1>6. CASE ~Restart /\ Collect
  BY <1>5, <1>6, CollectMoves DEF Batching
<1>7. CASE UNCHANGED vars
  <2>1. UNCHANGED <<pc, listed, folder, lo, next, pst, failed>> /\ Through' = Through
    BY <1>7 DEF vars, Through
  <2> QED
    BY <2>1 DEF Settled, Has
<1> QED
  BY <1>1, <1>2, <1>3, <1>4, <1>5, <1>6, <1>7 DEF Next, Step, ListFolders, NextFolder,
     TakeIntoBatch, StartBatch, LookUpSpool, FetchBatch, Finish, batchVars, Batching, Through, BatchInv

\* Every step keeps the settled messages' part of the invariant.
LEMMA SettledInvStep ==
  ASSUME TypeOK, WalkInv, BatchInv, WantedInv, BodyInv, ListsInv, SettledInv, [Next]_vars
  PROVE  SettledInv'
<1>1. Settled /\ Counted
  BY DEF SettledInv, Settled, Counted
<1>2. Settled' /\ Counted'
  BY <1>1, SettledStep, CountedStep
<1>3. (pc = "exited" /\ exit = 0 => failed = <<>>)'
  <2>1. CASE ListFolders \/ Finish \/ Restart \/ UNCHANGED vars
    BY <2>1 DEF SettledInv, ListFolders, Finish, Restart, vars
  <2>2. CASE LookUpSpool \/ Collect
    BY <2>2, LookUpFacts, CollectFacts
  <2>3. CASE /\ ~(ListFolders \/ Finish \/ Restart \/ UNCHANGED vars)
             /\ ~(LookUpSpool \/ Collect)
    BY <2>3 DEF Next, Step, NextFolder, ListMessages, TakeIntoBatch, StartBatch, FolderDone,
       FetchBatch, Write
  <2> QED
    BY <2>1, <2>2, <2>3
<1> QED
  BY <1>2, <1>3 DEF SettledInv, Settled, Counted

----------------------------------------------------------------------------
(* Type correctness.                                                       *)

\* The constant sets do not change.
LEMMA Constants == Keys' = Keys /\ Bodies' = Bodies /\ Messages' = Messages
  BY DEF Keys, Key, Bodies, NoBody, NoFolder, Messages

\* A folder's path and its ancestors are among those of the server's folders.
LEMMA TreeStep ==
  ASSUME TypeOK, [Next]_vars
  PROVE  tree' \subseteq UNION {Ancestors(Path[f]) : f \in Folders}
<1>1. CASE NextFolder
  <2>1. PICK f \in todo : tree' = tree \cup Ancestors(Path[f])
    BY <1>1 DEF NextFolder
  <2> QED
    BY <2>1 DEF TypeOK
<1>2. CASE tree' = tree
  BY <1>2 DEF TypeOK
<1>3. CASE Restart
  BY <1>3 DEF Restart
<1>4. CASE LookUpSpool \/ Collect
  BY <1>2, <1>4, CollectFacts DEF LookUpSpool
<1> QED
  BY <1>1, <1>2, <1>3, <1>4 DEF Next, Step, vars, ListFolders, ListMessages, TakeIntoBatch,
     StartBatch, FolderDone, FetchBatch, Write, Finish

\* Only keys of messages are asked for.
LEMMA AskedStep ==
  ASSUME TypeOK, WalkInv, BatchInv, WantedInv, [Next]_vars
  PROVE  asked' \subseteq Keys
<1>1. CASE FetchBatch
  <2>1. \A k \in DOMAIN wanted : <<folder, wanted[k].uid>> \in Keys
    <3>1. DOMAIN wanted = 1 .. Len(wanted)
      BY DEF TypeOK
    <3> QED
      BY <3>1, WantedFacts
  <2> QED
    BY <1>1, <2>1 DEF FetchBatch, TypeOK
<1>2. CASE Collect
  BY <1>2, AtCollect, CollectFacts DEF TypeOK
<1>3. CASE asked' = asked \/ asked' = {}
  BY <1>3 DEF TypeOK
<1> QED
  BY <1>1, <1>2, <1>3 DEF Next, Step, vars, ListFolders, NextFolder, ListMessages,
     TakeIntoBatch, StartBatch, LookUpSpool, FolderDone, Write, Finish, Restart

\* The byte count stays a natural number.
LEMMA BytesStep ==
  ASSUME TypeOK, WalkInv, BatchInv, WantedInv, [Next]_vars
  PROVE  bytes' \in Nat
<1>1. CASE TakeIntoBatch
  <2>1. hi \in DOMAIN metas /\ pc \in Batching
    <3>1. /\ pc \in Batching /\ hi <= Len(metas)
          /\ hi \in Nat /\ lo \in Nat /\ 1 <= lo /\ lo <= hi
      BY <1>1 DEF TakeIntoBatch, TakesNext, BatchInv, Batching
    <3>2. Len(metas) \in Nat /\ DOMAIN metas = 1 .. Len(metas)
      BY <3>1, AtWork
    <3> QED
      BY <3>1, <3>2
  <2>2. metas[hi].size \in Nat
    BY <2>1, AtWork
  <2>3. bytes' = bytes + metas[hi].size
    BY <1>1 DEF TakeIntoBatch
  <2>4. bytes \in Nat
    BY DEF TypeOK
  <2> QED
    BY <2>2, <2>3, <2>4
<1>2. CASE bytes' = bytes \/ bytes' = 0
  BY <1>2 DEF TypeOK
<1>3. CASE LookUpSpool \/ Collect
  BY <1>2, <1>3, LookUpFacts, CollectFacts
<1> QED
  BY <1>1, <1>2, <1>3 DEF Next, Step, vars, batchVars, ListFolders, NextFolder, ListMessages,
     StartBatch, FolderDone, FetchBatch, Write, Finish, Restart

\* What is counted lies in the batch, and so do the places of what is wanted.
LEMMA WantedStep ==
  ASSUME TypeOK, WalkInv, BatchInv, WantedInv, BodyInv, [Next]_vars
  PROVE  (/\ wanted \in Seq([uid : Nat, size : Nat]) /\ wanted_at \in Seq(DOMAIN raws)
          /\ got \in Seq(Bodies) /\ at \in Nat /\ accounted \subseteq DOMAIN raws)'
<1>0. /\ wanted \in Seq([uid : Nat, size : Nat]) /\ wanted_at \in Seq(DOMAIN raws)
      /\ got \in Seq(Bodies) /\ at \in Nat /\ accounted \subseteq DOMAIN raws
      /\ Bodies' = Bodies
  BY DEF TypeOK, Keys, Key, Bodies, NoBody, NoFolder
<1>1. CASE LookUpSpool
  <2>1. /\ pc = "lookup" /\ next \in lo .. (hi - 1) /\ UNCHANGED <<got, at, accounted>>
        /\ DOMAIN raws' = DOMAIN raws
    BY <1>1, LookUpFacts
  <2>2. next \in DOMAIN metas /\ next \in DOMAIN raws /\ folder \in Folders
    BY <2>1, AtWork DEF Batching, Filled, BatchInv
  <2>3. Mailbox[folder] \in Seq([uid : Nat, size : Nat])
    BY <2>2, PipelineAssumption DEF PipelineAssumption
  <2>4. metas[next] \in [uid : Nat, size : Nat]
    BY <2>2, <2>3, ElementIn DEF metas
  <2>5. wanted' \in Seq([uid : Nat, size : Nat]) /\ wanted_at' \in Seq(DOMAIN raws)
    <3>1. CASE UNCHANGED <<wanted, wanted_at>>
      BY <1>0, <3>1
    <3>2. CASE wanted' = Append(wanted, metas[next]) /\ wanted_at' = Append(wanted_at, next)
      BY <1>0, <2>2, <2>4, <3>2
    <3> QED
      BY <1>1, <3>1, <3>2, LookUpFacts
  <2> QED
    BY <1>0, <2>1, <2>5
<1>2. CASE FetchBatch
  <2>1. DOMAIN wanted = 1 .. Len(wanted) /\ Len(wanted) \in Nat
    BY <1>0
  <2>2. \A k \in 1 .. Len(wanted) : Source(folder, wanted[k].uid) \in Bodies
    BY WantedFacts, BodyFacts
  <2>3. got' \in Seq(Bodies)
    BY <1>2, <2>1, <2>2, BodyFacts DEF FetchBatch
  <2> QED
    BY <1>0, <1>2, <2>3 DEF FetchBatch
<1>3. CASE Collect
  <2>1. Place \in DOMAIN raws /\ DOMAIN raws' = DOMAIN raws
    BY <1>3, AtCollect, CollectFacts
  <2>2. accounted' \subseteq DOMAIN raws
    BY <1>0, <1>3, <2>1, CollectFacts
  <2>3. CASE wanted' = <<>> /\ wanted_at' = <<>> /\ got' = <<>> /\ at' = 1
    BY <2>1, <2>2, <2>3
  <2>4. CASE at' = at + 1 /\ UNCHANGED <<wanted, wanted_at, got>>
    BY <1>0, <2>1, <2>2, <2>4
  <2> QED
    BY <1>3, <2>3, <2>4, CollectFacts
<1>4. CASE Write
  <2>1. /\ UNCHANGED <<wanted, wanted_at, got, at>>
        /\ \/ raws' = <<>> /\ accounted' = {}
           \/ UNCHANGED <<raws, accounted>>
    BY <1>4 DEF Write
  <2>2. wanted_at = <<>>
    <3>1. Len(wanted_at) = 0
      BY <1>4 DEF Write, WantedInv, Seeking
    <3> QED
      BY <1>0, <3>1
  <2> QED
    BY <1>0, <2>1, <2>2
<1>5. CASE StartBatch
  <2>1. /\ UNCHANGED <<wanted, wanted_at, got, at, accounted>> /\ accounted = {}
    BY <1>5 DEF StartBatch, BatchInv
  <2>2. wanted_at = <<>>
    <3>1. Len(wanted_at) = 0
      BY <1>5 DEF StartBatch, WantedInv, Seeking
    <3> QED
      BY <1>0, <3>1
  <2> QED
    BY <1>0, <2>1, <2>2
<1>6. CASE UNCHANGED <<raws, wanted, wanted_at, got, at, accounted>>
  BY <1>0, <1>6
<1>7. CASE Restart
  BY <1>0, <1>7 DEF Restart
<1> QED
  BY <1>1, <1>2, <1>3, <1>4, <1>5, <1>6, <1>7 DEF Next, Step, vars, batchVars, ListFolders,
     NextFolder, ListMessages, TakeIntoBatch, FolderDone, Finish

\* Every step keeps the types.
LEMMA TypeStep ==
  ASSUME IInv, [Next]_vars
  PROVE  TypeOK'
<1>a. TypeOK /\ WalkInv /\ BatchInv /\ WantedInv /\ BodyInv /\ ListsInv
  BY DEF IInv
<1>1. WalkInv' /\ BatchInv' /\ WantedInv' /\ ListsInv'
  BY <1>a, WalkStep, BatchStep, WantedInvStep, ListsStep
<1>2. /\ pc' \in {"start", "folder", "listing", "batch", "lookup", "fetch", "collect", "write",
                 "exited"}
      /\ todo' \subseteq Folders /\ listed' \subseteq Folders
      /\ folder' \in Folders \cup {NoFolder}
      /\ exit' \in {0, 1}
  BY <1>a DEF TypeOK, WalkInv, Walking, Next, Step, vars, batchVars, ListFolders, NextFolder,
     ListMessages, TakeIntoBatch, StartBatch, LookUpSpool, FolderDone, FetchBatch, Collect, Write, Finish,
     Restart
<1>3. run' \in 1 .. MaxRuns
  BY <1>a, PipelineAssumption DEF PipelineAssumption, TypeOK, Next, Step, vars, ListFolders,
     NextFolder, ListMessages, TakeIntoBatch, StartBatch, LookUpSpool, FolderDone, FetchBatch, Collect,
     Write, Finish, Restart
<1>4. (pc \in {"batch", "lookup", "fetch", "collect", "write"} => {lo, hi} \subseteq 1 .. (Len(metas) + 1))'
  <2>1. (pc \in Batching => Len(metas) \in Nat /\ lo \in Nat /\ hi \in Nat
                              /\ 1 <= lo /\ lo <= hi /\ hi <= Len(metas) + 1)'
    <3>1. (pc \in Batching => Len(metas) \in Nat)'
      BY <1>1, ListingFacts DEF WalkInv, Batching, Walking, metas
    <3> QED
      BY <1>1, <3>1 DEF BatchInv
  <2> QED
    BY <2>1 DEF Batching
<1>5. (pc \in {"lookup", "write"} => next \in lo .. (hi - 1))'
  <2> SUFFICES ASSUME pc' \in {"lookup", "write"} PROVE next' \in lo' .. (hi' - 1)
    OBVIOUS
  <2>1. lo' \in Nat /\ hi' \in Nat /\ next' \in Nat /\ lo' <= next' /\ next' < hi'
    BY <1>1 DEF BatchInv, Filled
  <2>2. \A a, b, c \in Nat : a <= c /\ c < b => c \in a .. (b - 1)
    OBVIOUS
  <2> QED
    BY <2>1, <2>2
<1>6. (\A i \in DOMAIN raws : raws[i] \in Bodies)'
  BY <1>a, RawsStep, Constants
<1>7. ASSUME NEW s, s \in {pst', failed'}
      PROVE  \A k \in DOMAIN s : <<s[k].folder, s[k].index>> \in Messages
  <2>1. \A k \in DOMAIN s : s[k].folder \in Folders /\ s[k].index \in DOMAIN Mailbox[s[k].folder]
    BY <1>1, <1>2, <1>7 DEF ListsInv
  <2> QED
    BY <2>1, ListingFacts
<1>8. (\A k \in DOMAIN pst : <<pst[k].folder, pst[k].index>> \in Messages)'
  BY <1>7, Constants
<1>9. (\A k \in DOMAIN failed : <<failed[k].folder, failed[k].index>> \in Messages)'
  BY <1>7, Constants
<1>10. (spool \in [Keys -> Bodies] /\ asked \subseteq Keys)'
  BY <1>a, SpoolStep, AskedStep, Constants
<1>11. (tree \subseteq UNION {Ancestors(Path[f]) : f \in Folders})'
  BY <1>a, TreeStep DEF Ancestors
<1>12. (/\ wanted \in Seq([uid : Nat, size : Nat]) /\ wanted_at \in Seq(DOMAIN raws)
        /\ got \in Seq(Bodies) /\ at \in Nat /\ accounted \subseteq DOMAIN raws)'
  BY <1>a, WantedStep
<1>13. (pc = "collect" => at \in DOMAIN wanted)'
  BY <1>1, <1>12 DEF WantedInv
<1>14. bytes' \in Nat
  BY <1>a, BytesStep
<1> QED
  BY <1>2, <1>3, <1>4, <1>5, <1>6, <1>8, <1>9, <1>10, <1>11, <1>12, <1>13, <1>14 DEF TypeOK

----------------------------------------------------------------------------
(* The inductive invariant.                                                *)

\* A run starts in the inductive invariant.
LEMMA InitIInv == Init => IInv
<1> SUFFICES ASSUME Init PROVE IInv
  OBVIOUS
<1>1. TypeOK
  BY PipelineAssumption DEF Init, TypeOK, PipelineAssumption, Bodies
<1>2. WalkInv /\ BatchInv /\ WantedInv
  BY DEF Init, WalkInv, BatchInv, WantedInv, Walking, Batching, Filled, Seeking
<1>3. BodyInv /\ AskedInv
  BY DEF Init, BodyInv, RawsInv, AskedInv, Filled
<1>4. ListsInv /\ OwnSource /\ ListingOrder
  BY DEF Init, ListsInv, OwnSource, ListingOrder, Batching
<1>5. SettledInv
  BY DEF Init, SettledInv
<1> QED
  BY <1>1, <1>2, <1>3, <1>4, <1>5 DEF IInv

\* Every step keeps the inductive invariant.
LEMMA StepIInv == IInv /\ [Next]_vars => IInv'
  BY TypeStep, WalkStep, BatchStep, WantedInvStep, BodyStep, AskedInvStep, ListsStep,
     OwnSourceStep, PstStep, SettledInvStep DEF IInv

\* The inductive invariant holds in every reachable state.
LEMMA IInvAlways == Spec => []IInv
  BY InitIInv, StepIInv, PTL DEF Spec

----------------------------------------------------------------------------
(* What the invariant says of the lists.                                   *)

\* In a reachable state a message has at most one entry, and it is counted.
LEMMA Counts ==
  ASSUME IInv, NEW f, NEW i
  PROVE  /\ Occurrences(pst, f, i) = IF Has(pst, f, i) THEN 1 ELSE 0
         /\ Occurrences(failed, f, i) = IF Has(failed, f, i) THEN 1 ELSE 0
         /\ ~(Has(pst, f, i) /\ Has(failed, f, i))
<1>0. ListingOrder /\ pst \in Seq(Entries) /\ NoTwice(failed) /\ Apart(pst, failed)
  BY ListsParts DEF IInv, Valid
<1>1. \A j, k \in DOMAIN pst : pst[j].folder = pst[k].folder /\ pst[j].index = pst[k].index => j = k
  <2> SUFFICES ASSUME NEW j \in DOMAIN pst, NEW k \in DOMAIN pst, j < k,
                      pst[j].folder = pst[k].folder, pst[j].index = pst[k].index
               PROVE  FALSE
    BY <1>0
  <2>1. pst[j].index < pst[k].index
    BY <1>0 DEF ListingOrder
  <2>2. pst[k] \in Entries
    BY <1>0, ElementIn
  <2>3. pst[k].index \in Nat
    BY <2>2 DEF Entries
  <2> QED
    BY <2>1, <2>3
<1>2. ~(Has(pst, f, i) /\ Has(failed, f, i))
  BY <1>0 DEF Has, Apart
<1>3. Occurrences(pst, f, i) = IF Has(pst, f, i) THEN 1 ELSE 0
  BY <1>1, OccurrencesHas
<1>4. Occurrences(failed, f, i) = IF Has(failed, f, i) THEN 1 ELSE 0
  BY <1>0, OccurrencesHas DEF NoTwice
<1> QED
  BY <1>2, <1>3, <1>4

\* A listed message whose batch is through has an entry.
LEMMA ThroughHasEntry ==
  ASSUME IInv, NEW f \in listed, NEW i \in DOMAIN Mailbox[f],
         f # folder \/ i < lo \/ pc \in {"folder", "exited"}
  PROVE  Has(pst, f, i) \/ Has(failed, f, i)
<1>0. WalkInv /\ BatchInv /\ TypeOK /\ Settled
  BY DEF IInv, SettledInv, Settled
<1>1. i \in Nat
  BY <1>0, ListingFacts DEF TypeOK
<1>2. pc \in Batching /\ f = folder => i < Through
  BY <1>0, <1>1 DEF Through, BatchInv, Batching, Filled
<1> QED
  BY <1>0, <1>2 DEF Settled

\* The variables and locals of run() keep their types and their bounds.
THEOREM TypeCorrect == Spec => []TypeOK
<1>1. IInv => TypeOK
  BY DEF IInv
<1> QED
  BY <1>1, IInvAlways, PTL

\* Every message the server listed ends up once in the PST or once in the
\* failure list, never in both, whichever requests were refused.
THEOREM NoMessageLost == Spec => []NothingLost
<1>1. ASSUME IInv PROVE NothingLost
  <2> SUFFICES ASSUME NEW f \in listed, NEW i \in DOMAIN Mailbox[f]
               PROVE  LET n == Occurrences(pst, f, i) + Occurrences(failed, f, i)
                      IN  /\ n <= 1
                          /\ (f # folder \/ i < lo \/ pc \in {"folder", "exited"}) => n = 1
    BY DEF NothingLost
  <2>1. /\ Occurrences(pst, f, i) = IF Has(pst, f, i) THEN 1 ELSE 0
        /\ Occurrences(failed, f, i) = IF Has(failed, f, i) THEN 1 ELSE 0
        /\ ~(Has(pst, f, i) /\ Has(failed, f, i))
    BY <1>1, Counts
  <2>2. (f # folder \/ i < lo \/ pc \in {"folder", "exited"})
          => Has(pst, f, i) \/ Has(failed, f, i)
    BY <1>1, ThroughHasEntry
  <2> QED
    BY <2>1, <2>2
<1> QED
  BY <1>1, IInvAlways, PTL

\* A message in the PST was written with its own source, and a failure was
\* reported under the UID of the message that is missing: the parallel vectors of
\* the fetch loop keep bodies and places together.
THEOREM SourceIsOwn == Spec => []OwnSource
<1>1. IInv => OwnSource
  BY DEF IInv
<1> QED
  BY <1>1, IInvAlways, PTL

\* The messages of a folder are in the PST in the order of the listing.
THEOREM PstInListingOrder == Spec => []ListingOrder
<1>1. IInv => ListingOrder
  BY DEF IInv
<1> QED
  BY <1>1, IInvAlways, PTL

\* A run that exits with status 0 has every listed message in the PST.
THEOREM ZeroIsTruthful == Spec => []ZeroMeansMigrated
<1>1. ASSUME IInv PROVE ZeroMeansMigrated
  <2> SUFFICES ASSUME pc = "exited", exit = 0, NEW f \in listed, NEW i \in DOMAIN Mailbox[f]
               PROVE  Occurrences(pst, f, i) = 1
    BY DEF ZeroMeansMigrated
  <2>1. ~Has(failed, f, i)
    BY <1>1 DEF IInv, SettledInv, Has
  <2>2. Has(pst, f, i)
    BY <1>1, <2>1, ThroughHasEntry
  <2> QED
    BY <1>1, <2>2, Counts
<1> QED
  BY <1>1, IInvAlways, PTL

\* No step asks the server for a message whose body is in the spool.
LEMMA AskStep ==
  ASSUME IInv, [Next]_vars
  PROVE  \A k \in asked' \ asked : ~Spooling \/ spool[k] = NoBody
<1>1. CASE FetchBatch
  <2>1. \A k \in 1 .. Len(wanted) : Spooling => spool[<<folder, wanted[k].uid>>] = NoBody
    BY <1>1 DEF FetchBatch, IInv, AskedInv
  <2>2. DOMAIN wanted = 1 .. Len(wanted)
    BY DEF IInv, TypeOK
  <2> QED
    BY <1>1, <2>1, <2>2 DEF FetchBatch
<1>2. CASE Collect
  <2>1. <<folder, wanted[at].uid>> \in asked
    BY <1>2, AtCollect, CollectFacts DEF IInv, AskedInv
  <2> QED
    BY <1>2, <2>1, CollectFacts
<1>3. CASE asked' = asked \/ asked' = {}
  BY <1>3
<1> QED
  BY <1>1, <1>2, <1>3 DEF Next, Step, vars, ListFolders, NextFolder, ListMessages,
     TakeIntoBatch, StartBatch, LookUpSpool, FolderDone, Write, Finish, Restart

\* A later run asks the server only for what no earlier run has spooled.
THEOREM SpooledNeverRefetched == Spec => NoRefetch
<1>1. IInv /\ [Next]_vars => [\A k \in asked' \ asked : ~Spooling \/ spool[k] = NoBody]_vars
  BY AskStep
<1> QED
  BY <1>1, IInvAlways, PTL DEF Spec, NoRefetch

----------------------------------------------------------------------------
(* Refinement: the pipeline implements Migration.                          *)

\* The refinement mapping in terms of Has.
StatusOf(written, lost, named, m) ==
  IF Has(written, m[1], m[2]) THEN "migrated"
  ELSE IF Has(lost, m[1], m[2]) THEN "failed"
  ELSE IF m[1] \in named THEN "pending" ELSE "unlisted"

\* What the refinement mapping makes of a reachable state.
LEMMA StatusIs ==
  ASSUME IInv
  PROVE  Status = [m \in Messages |-> StatusOf(pst, failed, listed, m)]
<1>1. pst \in Seq(Entries) /\ failed \in Seq(Entries)
  BY DEF IInv, ListsInv
<1>2. \A m \in Messages : /\ Occurrences(pst, m[1], m[2]) > 0 <=> Has(pst, m[1], m[2])
                          /\ Occurrences(failed, m[1], m[2]) > 0 <=> Has(failed, m[1], m[2])
  BY <1>1, OccursHas
<1> QED
  BY <1>2 DEF Status, StatusOf

\* The same of the state after a step.
LEMMA StatusIsNext ==
  ASSUME IInv'
  PROVE  Status' = [m \in Messages |-> StatusOf(pst', failed', listed', m)]
<1>1. pst' \in Seq(Entries) /\ failed' \in Seq(Entries)
  BY DEF IInv, ListsInv, Entries, Bodies, NoBody, Keys, Key, NoFolder
<1>2. \A m \in Messages : /\ Occurrences(pst', m[1], m[2]) > 0 <=> Has(pst', m[1], m[2])
                          /\ Occurrences(failed', m[1], m[2]) > 0 <=> Has(failed', m[1], m[2])
  BY <1>1, OccursHas
<1>3. Status' = [m \in Messages |->
             IF Occurrences(pst', m[1], m[2]) > 0 THEN "migrated"
             ELSE IF Occurrences(failed', m[1], m[2]) > 0 THEN "failed"
             ELSE IF m[1] \in listed' THEN "pending" ELSE "unlisted"]
  BY DEF Status, Messages, Occurrences
<1> QED
  BY <1>2, <1>3 DEF StatusOf

\* A message is a folder and a place in its listing.
LEMMA MessageIs ==
  ASSUME NEW m \in Messages
  PROVE  m[1] \in Folders /\ m[2] \in DOMAIN Mailbox[m[1]] /\ m = <<m[1], m[2]>>
  BY DEF Messages

\* A step that settles one message settles it in Migration.
LEMMA SettlesOne ==
  ASSUME IInv, IInv', NEW i \in DOMAIN metas, pc \in Batching, pc' # "exited",
         listed' = listed, NEW outcome \in {"migrated", "failed"},
         ~Has(pst, folder, i), ~Has(failed, folder, i),
         IF outcome = "migrated"
         THEN /\ failed' = failed
              /\ \A f, j : Has(pst', f, j) <=> Has(pst, f, j) \/ (f = folder /\ j = i)
         ELSE /\ pst' = pst
              /\ \A f, j : Has(failed', f, j) <=> Has(failed, f, j) \/ (f = folder /\ j = i)
  PROVE  M!Next
<1> DEFINE x == <<folder, i>>
<1>1. x \in Messages /\ folder \in listed /\ pc # "exited"
  BY AtWork DEF IInv, WalkInv, Batching
<1>2. Status = [m \in Messages |-> StatusOf(pst, failed, listed, m)]
  BY StatusIs
<1>3. Status' = [m \in Messages |-> StatusOf(pst', failed', listed', m)]
  BY StatusIsNext
<1>4. Status[x] = "pending"
  BY <1>1, <1>2 DEF StatusOf
<1>5. StatusOf(pst', failed', listed', x) = outcome
  BY <1>1 DEF StatusOf
<1>6. ASSUME NEW m \in Messages, m # x
      PROVE  StatusOf(pst', failed', listed', m) = StatusOf(pst, failed, listed, m)
  <2>1. ~(m[1] = folder /\ m[2] = i)
    BY <1>6, MessageIs
  <2> QED
    BY <2>1 DEF StatusOf
<1> HIDE DEF x
<1>7. Status' = [Status EXCEPT ![x] = outcome]
  BY <1>1, <1>2, <1>3, <1>5, <1>6
<1>8. M!Settle(x, outcome)
  BY <1>1, <1>4, <1>7 DEF M!Settle
<1> QED
  BY <1>1, <1>8 DEF M!Next

\* A step that leaves the lists and the listing alone is a stutter.
LEMMA Stutters ==
  ASSUME UNCHANGED <<pst, failed, listed>>, (pc = "exited") <=> (pc' = "exited")
  PROVE  UNCHANGED <<Status, (pc = "exited")>>
  BY DEF Status, Messages, Occurrences

\* A listing announces the messages of its folder.
LEMMA Announces ==
  ASSUME IInv, IInv', ListMessages, listed' = listed \cup {folder}
  PROVE  M!Next
<1> DEFINE S == {m \in Messages : m[1] = folder}
<1>1. pc = "listing" /\ pc' # "exited" /\ UNCHANGED <<pst, failed>> /\ folder \notin listed
  BY DEF ListMessages, IInv, WalkInv
<1>2. \A i : ~Has(pst, folder, i) /\ ~Has(failed, folder, i)
  BY <1>1 DEF IInv, ListsInv, Has
<1>3. Status = [m \in Messages |-> StatusOf(pst, failed, listed, m)]
  BY StatusIs
<1>4. Status' = [m \in Messages |-> StatusOf(pst', failed', listed', m)]
  BY StatusIsNext
<1>5. \A m \in S : StatusOf(pst, failed, listed, m) = "unlisted"
                     /\ StatusOf(pst', failed', listed', m) = "pending"
  BY <1>1, <1>2 DEF StatusOf
<1>6. \A m \in Messages \ S :
        StatusOf(pst', failed', listed', m) = StatusOf(pst, failed, listed, m)
  BY <1>1 DEF StatusOf
<1>7. S \in SUBSET Messages
  OBVIOUS
<1> HIDE DEF S
<1>8. \A m \in S : Status[m] = "unlisted"
  BY <1>3, <1>5, <1>7
<1>9. Status' = [m \in Messages |-> IF m \in S THEN "pending" ELSE Status[m]]
  BY <1>3, <1>4, <1>5, <1>6
<1>10. M!Announce(S)
  BY <1>1, <1>8, <1>9 DEF M!Announce
<1> QED
  BY <1>7, <1>10 DEF M!Next

\* A run exits only with nothing pending.
LEMMA Closes ==
  ASSUME IInv, UNCHANGED <<pst, failed, listed>>, pc \in {"start", "folder"}, pc' = "exited"
  PROVE  M!Next
<1>1. Status = [m \in Messages |-> StatusOf(pst, failed, listed, m)]
  BY StatusIs
<1>2. ASSUME NEW m \in Messages PROVE Status[m] # "pending"
  <2>1. m[2] \in DOMAIN Mailbox[m[1]]
    BY MessageIs
  <2>2. m[1] \in listed => Has(pst, m[1], m[2]) \/ Has(failed, m[1], m[2])
    BY <2>1, ThroughHasEntry DEF IInv, WalkInv
  <2> QED
    BY <1>1, <2>2 DEF StatusOf
<1>3. Status' = Status
  BY DEF Status, Messages, Occurrences
<1>4. M!Close
  BY <1>2, <1>3 DEF M!Close
<1> QED
  BY <1>4 DEF M!Next

\* A new run starts Migration over.
LEMMA StartsOver ==
  ASSUME IInv', Restart
  PROVE  M!Next
<1>1. pc' = "start" /\ pst' = <<>> /\ failed' = <<>> /\ listed' = {}
  BY DEF Restart
<1>2. Status' = [m \in Messages |-> StatusOf(pst', failed', listed', m)]
  BY StatusIsNext
<1>3. \A m \in Messages : StatusOf(pst', failed', listed', m) = "unlisted"
  BY <1>1 DEF StatusOf, Has
<1>4. M!Restart
  BY <1>1, <1>2, <1>3 DEF M!Restart
<1> QED
  BY <1>4 DEF M!Next

\* Every step of the pipeline is a step of Migration or a stutter.
LEMMA MigrationStep ==
  ASSUME IInv, IInv', [Next]_vars
  PROVE  [M!Next]_<<Status, (pc = "exited")>>
<1>a. TypeOK /\ WalkInv /\ BatchInv /\ WantedInv /\ BodyInv /\ ListsInv
      /\ pst \in Seq(Entries) /\ failed \in Seq(Entries)
  BY DEF IInv, ListsInv
<1>1. CASE CountsFailure \/ Fails
  <2>1. PICK i \in DOMAIN metas :
           /\ pc \in Batching
           /\ failed' = Append(failed, Missed(i)) /\ pst' = pst
           /\ Missed(i) \in Entries
           /\ Missed(i).folder = folder /\ Missed(i).index = i
           /\ ~Has(pst, folder, i) /\ ~Has(failed, folder, i)
    BY <1>a, <1>1, FailedGrows
  <2> DEFINE e == Missed(i)
  <2>2. e \in Entries /\ e.folder = folder /\ e.index = i /\ failed' = Append(failed, e)
    BY <2>1
  <2> HIDE DEF e
  <2>3. \A f, j : Has(failed', f, j) <=> Has(failed, f, j) \/ (e.folder = f /\ e.index = j)
    BY <1>a, <2>2, AppendHas
  <2>4. listed' = listed /\ pc' # "exited"
    BY <1>a, <1>1, WriteMoves, CollectMoves DEF CountsFailure, Fails
  <2> QED
    BY <2>1, <2>2, <2>3, <2>4, SettlesOne
<1>2. CASE Writes
  <2> DEFINE e == Entry(next, raws[next])
  <2>1. /\ pc \in Batching /\ next \in DOMAIN metas /\ failed' = failed
        /\ ~Has(pst, folder, next) /\ ~Has(failed, folder, next)
        /\ e \in Entries /\ e.folder = folder /\ e.index = next /\ pst' = Append(pst, e)
    BY <1>a, <1>2, PstGrows DEF Batching
  <2> HIDE DEF e
  <2>2. \A f, j : Has(pst', f, j) <=> Has(pst, f, j) \/ (e.folder = f /\ e.index = j)
    BY <1>a, <2>1, AppendHas
  <2>3. listed' = listed /\ pc' # "exited"
    BY <1>a, <1>2, WriteMoves DEF Writes
  <2> QED
    BY <2>1, <2>2, <2>3, SettlesOne
<1>3. CASE PassesOver
  BY <1>a, <1>3, WriteMoves, Stutters DEF PassesOver
<1>4. CASE Restart
  BY <1>4, StartsOver
<1>5. CASE LeavesLists
  <2>1. CASE ListMessages
    <3>1. pc = "listing" /\ pc' # "exited" /\ UNCHANGED <<pst, failed>>
          /\ (listed' = listed \cup {folder} \/ listed' = listed)
      BY <2>1 DEF ListMessages
    <3> QED
      BY <2>1, <3>1, Announces, Stutters
  <2>2. CASE Finish \/ ListFolders
    <3>1. pc \in {"start", "folder"} /\ UNCHANGED <<pst, failed, listed>>
      BY <2>2 DEF Finish, ListFolders
    <3> QED
      BY <3>1, Closes, Stutters
  <2>3. CASE UNCHANGED <<pst, failed, listed>> /\ (pc = "exited" <=> pc' = "exited")
    BY <2>3, Stutters
  <2> QED
    BY <1>5, <2>1, <2>2, <2>3 DEF LeavesLists, NextFolder, TakeIntoBatch, StartBatch, LookUpSpool,
       FolderDone, FetchBatch, Collect, vars
<1> QED
  BY <1>a, <1>1, <1>2, <1>3, <1>4, <1>5, ListCases

\* A run starts with no message listed.
LEMMA MigrationInit == Init => M!Init
<1> SUFFICES ASSUME Init PROVE M!Init
  OBVIOUS
<1>1. IInv /\ pst = <<>> /\ failed = <<>> /\ listed = {} /\ pc = "start"
  BY InitIInv DEF Init
<1>2. Status = [m \in Messages |-> StatusOf(pst, failed, listed, m)]
  BY <1>1, StatusIs
<1>3. \A m \in Messages : StatusOf(pst, failed, listed, m) = "unlisted"
  BY <1>1 DEF StatusOf, Has
<1> QED
  BY <1>1, <1>2, <1>3 DEF M!Init

\* The pipeline implements Migration: a listed message is settled exactly once
\* and for good, and a run does not end with one unsettled.
THEOREM PipelineIsMigration == Spec => ImplementsMigration
<1>1. IInv /\ IInv' /\ [Next]_vars => [M!Next]_<<Status, (pc = "exited")>>
  BY MigrationStep
<1> QED
  BY <1>1, MigrationInit, IInvAlways, PTL DEF Spec, ImplementsMigration, M!Spec
=============================================================================
