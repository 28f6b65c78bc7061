------------------------------ MODULE Pipeline ------------------------------
(***************************************************************************)
(* One invocation of imap2pst, and the next one after a crash or an exit:  *)
(* run() of src/src/pipeline/pipeline.cpp with the exit status of main().  *)
(*                                                                         *)
(* Folders are walked shortest path first; each folder's messages are      *)
(* taken in batches, looked up in the spool, fetched together, fetched one *)
(* by one where the batch came back short, and written to the PST.  The    *)
(* server may refuse any request and return any subset of a batch; parsing *)
(* and the PST writer may refuse any message.  Message source is abstract: *)
(* a body records which message it is the source of and whether it is all  *)
(* of it.  Only the spool directory survives a restart.                    *)
(***************************************************************************)
EXTENDS Integers, Sequences, FiniteSets

CONSTANTS
  Folders,        \* the folders the server lists
  Path,           \* FolderInfo::path() of each folder, as a sequence
  Selectable,     \* those that are not \Noselect
  OnlyFolders,    \* --folder, or {} for all
  Mailbox,        \* for each folder its listing: a sequence of [uid, size]
  BatchSize,      \* --batch
  BatchBytes,     \* --batch-bytes
  Spooling,       \* --spool was given
  SpoolOutcomes,  \* what writing a spool file can leave: "whole", "torn", "none"
  MaxRuns         \* bound of the model: invocations

ASSUME PipelineAssumption ==
  /\ Path \in [Folders -> Seq(STRING)] /\ Selectable \subseteq Folders
  /\ Mailbox \in [Folders -> Seq([uid : Nat, size : Nat])]
  /\ BatchSize \in Nat \ {0} /\ BatchBytes \in Nat /\ Spooling \in BOOLEAN
  /\ SpoolOutcomes \subseteq {"whole", "torn", "none"} /\ SpoolOutcomes # {}
  /\ MaxRuns \in Nat \ {0}

VARIABLES
  pc,         \* where run() is
  todo,       \* folders the walk has not reached
  folder,     \* the folder being migrated
  listed,     \* folders whose listing succeeded
  tree,       \* by_path: the PST folders created, by path
  lo, hi,     \* the batch is messages lo .. hi - 1 of the folder
  bytes,      \* what the batch's sizes add up to
  wanted,     \* the listing entries of the batch that the spool did not hold
  wanted_at,  \* the place in the batch of each of them
  got,        \* what the batch fetch returned for each of them
  at,         \* the one the fetch loop is at
  raws,       \* the bodies of the batch, by place; places are those of the listing
  accounted,  \* messages already counted as failed by the fetch loop
  next,       \* the message the look-up loop or the write loop is at
  pst,        \* messages written to the PST
  failed,     \* stats.failed_uids
  spool,      \* the spool directory: a body per folder and UID
  asked,      \* keys asked of the server in this run (history)
  run,        \* number of this invocation
  exit        \* main's exit status, 0 until the run ends
vars == <<pc, todo, folder, listed, tree, lo, hi, bytes, wanted, wanted_at, got, at, raws,
          accounted, next, pst, failed, spool, asked, run, exit>>

wantedVars == <<wanted, wanted_at, got, at>>
batchVars == <<lo, hi, bytes, wantedVars, raws, accounted, next>>

----------------------------------------------------------------------------
NoFolder == "none"
NoBody == [of |-> <<NoFolder, 0>>, whole |-> FALSE]

metas == Mailbox[folder]

\* spoolPath(): folder and UID name the spool file, and the message itself.
Key(f, i) == <<f, Mailbox[f][i].uid>>
Keys == UNION {{Key(f, i) : i \in DOMAIN Mailbox[f]} : f \in Folders}

\* All the source of a message, and what a write cut short leaves of a body.
Source(f, uid) == [of |-> <<f, uid>>, whole |-> TRUE]
Torn(body) == [body EXCEPT !.whole = FALSE]

\* What the failure list says of a message: which one it was.
Unread(uid) == [of |-> <<folder, uid>>, whole |-> FALSE]

Entry(i, body) == [folder |-> folder, index |-> i, body |-> body]

\* ++failed_messages and failed_uids.push_back go together everywhere.  The
\* list holds the UID; the place says which listing entry it accounts for.
Fail(i, uid) == failed' = Append(failed, Entry(i, Unread(uid)))

\* Fault: the spool is written and never read.
readSpool_Never(i) == NoBody

\* readFile(): a missing, unreadable or empty file reads as no body.
readSpool(i) == IF Spooling THEN spool[Key(folder, i)] ELSE NoBody

\* writeFile(): the result is ignored, so a short write leaves a torn file.
writeSpool(uid, body) ==
  IF Spooling
  THEN \E outcome \in SpoolOutcomes :
         spool' = [spool EXCEPT ![<<folder, uid>>] = CASE outcome = "whole" -> body
                                                       [] outcome = "torn"  -> Torn(body)
                                                       [] OTHER             -> NoBody]
  ELSE UNCHANGED spool

----------------------------------------------------------------------------
(* Folders.                                                                *)

\* listFolders() and the --folder filter.  An ImapError here ends the run.
ListFolders ==
  /\ pc = "start"
  /\ \/ /\ pc' = "folder" /\ UNCHANGED exit
        /\ todo' = IF OnlyFolders = {} THEN Folders ELSE Folders \cap OnlyFolders
     \/ /\ pc' = "exited" /\ exit' = 1 /\ UNCHANGED todo
  /\ UNCHANGED <<folder, listed, tree, batchVars, pst, failed, spool, asked, run>>

\* folder_for(): the folder and every missing ancestor.
Ancestors(path) == {SubSeq(path, 1, n) : n \in 1 .. Len(path)}

\* Fault: a folder that is not selectable is never taken off the walk.
NextFolder_Stuck ==
  /\ pc = "folder"
  /\ \E f \in todo :
       /\ \A g \in todo : Len(Path[f]) <= Len(Path[g])
       /\ tree' = tree \cup Ancestors(Path[f])
       /\ IF Path[f] # <<>> /\ f \in Selectable
          THEN folder' = f /\ pc' = "listing" /\ todo' = todo \ {f}
          ELSE UNCHANGED <<folder, pc, todo>>
  /\ UNCHANGED <<listed, batchVars, pst, failed, spool, asked, run, exit>>

\* The next folder of the sorted walk; ties are by name, which is left open.
NextFolder ==
  /\ pc = "folder"
  /\ \E f \in todo :
       /\ \A g \in todo : Len(Path[f]) <= Len(Path[g])
       /\ todo' = todo \ {f}
       /\ tree' = tree \cup Ancestors(Path[f])
       /\ IF Path[f] # <<>> /\ f \in Selectable
          THEN folder' = f /\ pc' = "listing"
          ELSE UNCHANGED <<folder, pc>>
  /\ UNCHANGED <<listed, batchVars, pst, failed, spool, asked, run, exit>>

\* An ImapError from listMessages() is a warning: the walk goes on.
ListMessages ==
  /\ pc = "listing"
  /\ \/ /\ listed' = listed \cup {folder}
        /\ pc' = "batch" /\ lo' = 1 /\ hi' = 1 /\ bytes' = 0
        /\ UNCHANGED folder
     \/ pc' = "folder" /\ folder' = NoFolder /\ UNCHANGED <<listed, lo, hi, bytes>>
  /\ UNCHANGED <<todo, tree, wantedVars, raws, accounted, next, pst, failed,
                 spool, asked, run, exit>>

----------------------------------------------------------------------------
(* One batch.                                                              *)

\* The loop that fills the batch stops at the size or byte limit, but never
\* before the first message.
TakesNext ==
  /\ hi <= Len(metas) /\ hi - lo < BatchSize
  /\ hi = lo \/ bytes + metas[hi].size <= BatchBytes

\* Fault: the next batch begins with the last message of this one.
NextLo_Again == IF hi - 1 > lo THEN hi - 1 ELSE hi

\* Fault: the last message of the listing is left out.
EndOfListing_Early == lo >= Len(metas)

\* Where the next batch begins, and where the folder ends.
NextLo == hi
EndOfListing == lo > Len(metas)

TakeIntoBatch ==
  /\ pc = "batch" /\ TakesNext
  /\ hi' = hi + 1 /\ bytes' = bytes + metas[hi].size
  /\ UNCHANGED <<pc, todo, folder, listed, tree, lo, wantedVars, raws, accounted, next,
                 pst, failed, spool, asked, run, exit>>

\* The batch is complete.
StartBatch ==
  /\ pc = "batch" /\ ~TakesNext /\ ~EndOfListing
  /\ pc' = "lookup" /\ next' = lo
  /\ raws' = [i \in lo .. (hi - 1) |-> NoBody]
  /\ UNCHANGED <<todo, folder, listed, tree, lo, hi, bytes, wantedVars, accounted, pst,
                 failed, spool, asked, run, exit>>

\* Fault: the loops over the batch run one past it.
LastOfBatch_Past == next = hi

\* Whether a loop over the batch is at its last message.
LastOfBatch == next + 1 = hi

\* One turn of the loop over the batch: serve the message from the spool, or
\* note its listing entry and its place, the entries and the places each in a
\* vector of their own.
LookUpSpool ==
  /\ pc = "lookup"
  /\ \/ /\ readSpool(next) # NoBody
        /\ raws' = [raws EXCEPT ![next] = readSpool(next)]
        /\ UNCHANGED <<wanted, wanted_at>>
     \/ /\ readSpool(next) = NoBody
        /\ wanted' = Append(wanted, metas[next]) /\ wanted_at' = Append(wanted_at, next)
        /\ UNCHANGED raws
  /\ IF LastOfBatch
     THEN next' = lo /\ pc' = IF wanted' = <<>> THEN "write" ELSE "fetch"
     ELSE next' = next + 1 /\ UNCHANGED pc
  /\ UNCHANGED <<todo, folder, listed, tree, lo, hi, bytes, got, at, accounted, pst, failed,
                 spool, asked, run, exit>>

FolderDone ==
  /\ pc = "batch" /\ EndOfListing
  /\ pc' = "folder" /\ folder' = NoFolder /\ lo' = 1 /\ hi' = 1
  /\ UNCHANGED <<todo, listed, tree, bytes, wantedVars, raws, accounted, next, pst, failed,
                 spool, asked, run, exit>>

\* fetchMessages() of what is wanted: one body for each, in the same order.  The
\* server may leave any message out, and an ImapError is the same as leaving
\* out all.  Bodies are handed out by UID, so of two messages listed under one
\* UID only the first gets one.
FetchBatch ==
  /\ pc = "fetch"
  /\ asked' = asked \cup {<<folder, wanted[k].uid>> : k \in DOMAIN wanted}
  /\ \E back \in SUBSET {k \in DOMAIN wanted : \A j \in DOMAIN wanted :
                           wanted[j].uid = wanted[k].uid => k <= j} :
       got' = [k \in DOMAIN wanted |->
                 IF k \in back THEN Source(folder, wanted[k].uid) ELSE NoBody]
  /\ pc' = "collect"
  /\ UNCHANGED <<todo, folder, listed, tree, lo, hi, bytes, wanted, wanted_at, at, raws,
                 accounted, next, pst, failed, spool, run, exit>>

\* Fault: the body goes to the place it has among the wanted messages.
Place_Own == lo + at - 1

\* Where in the batch the message belongs that the fetch loop is at, and
\* whether the batch fetch returned it.
Place == wanted_at[at]
Served == Len(got) = Len(wanted) /\ got[at] # NoBody

\* A body arrives: it goes to its place, and to the spool unless it is empty.
Receive(body) ==
  /\ raws' = [raws EXCEPT ![Place] = body]
  /\ IF body = NoBody THEN UNCHANGED spool ELSE writeSpool(wanted[at].uid, body)
  /\ UNCHANGED <<accounted, failed>>

\* One turn of the loop over the wanted messages: take the message from the
\* batch, or fetch it alone, which may give an empty body or an ImapError.
\* After the last turn none of the loop's vectors is read again.
Collect ==
  /\ pc = "collect"
  /\ \/ Served /\ Receive(got[at]) /\ UNCHANGED asked
     \/ /\ ~Served /\ asked' = asked \cup {<<folder, wanted[at].uid>>}   \* fetchMessage()
        /\ \/ \E body \in {Source(folder, wanted[at].uid), NoBody} : Receive(body)
           \/ /\ accounted' = accounted \cup {Place} /\ Fail(Place, wanted[at].uid)
              /\ UNCHANGED <<raws, spool>>
  /\ IF at = Len(wanted)
     THEN pc' = "write" /\ wanted' = <<>> /\ wanted_at' = <<>> /\ got' = <<>> /\ at' = 1
     ELSE at' = at + 1 /\ UNCHANGED <<pc, wanted, wanted_at, got>>
  /\ UNCHANGED <<todo, folder, listed, tree, lo, hi, bytes, next, pst, run, exit>>

\* Fault: a message without a body is always taken as counted.
AlreadyCounted_Always == TRUE

\* Whether the fetch loop has counted the message as failed already.
AlreadyCounted == next \in accounted

\* The write loop: parse and add, or record why not.  The last message of the
\* batch starts the next one.
Write ==
  /\ pc = "write"
  /\ LET body == raws[next]
     IN  \/ body = NoBody /\ AlreadyCounted /\ UNCHANGED <<pst, failed>>
         \/ body = NoBody /\ ~AlreadyCounted /\ Fail(next, metas[next].uid) /\ UNCHANGED pst
         \/ /\ body # NoBody
            /\ pst' = Append(pst, Entry(next, body)) /\ UNCHANGED failed
         \/ body # NoBody /\ Fail(next, metas[next].uid) /\ UNCHANGED pst  \* parse or addMessage threw
  /\ IF LastOfBatch
     THEN /\ pc' = "batch" /\ lo' = NextLo /\ bytes' = 0
          /\ raws' = <<>> /\ accounted' = {} /\ next' = 1
     ELSE next' = next + 1 /\ UNCHANGED <<pc, lo, bytes, raws, accounted>>
  /\ UNCHANGED <<todo, folder, listed, tree, hi, wantedVars, spool, asked, run, exit>>

----------------------------------------------------------------------------
(* The end of a run.                                                       *)

\* Fault: the exit status does not depend on the failures.
Finish_AlwaysZero ==
  /\ pc = "folder" /\ todo = {}
  /\ pc' = "exited"
  /\ exit' \in {0, 1}
  /\ UNCHANGED <<todo, folder, listed, tree, batchVars, pst, failed, spool, asked, run>>

\* writer.finish(), which may throw, and main's exit status.
Finish ==
  /\ pc = "folder" /\ todo = {}
  /\ pc' = "exited"
  /\ exit' \in {IF failed = <<>> THEN 0 ELSE 1, 1}
  /\ UNCHANGED <<todo, folder, listed, tree, batchVars, pst, failed, spool, asked, run>>

\* The process is killed, or has exited and is started again.  Killed while a
\* spool file was being written, it can leave that file torn.
Restart ==
  /\ pc # "start" /\ run < MaxRuns
  /\ run' = run + 1
  /\ \/ UNCHANGED spool
     \/ /\ pc = "collect" /\ Spooling /\ "torn" \in SpoolOutcomes
        /\ spool' = [spool EXCEPT ![<<folder, wanted[at].uid>>] =
                        Torn(IF Served THEN got[at] ELSE Source(folder, wanted[at].uid))]
  /\ pc' = "start" /\ todo' = {} /\ folder' = NoFolder /\ listed' = {} /\ tree' = {}
  /\ lo' = 1 /\ hi' = 1 /\ bytes' = 0 /\ wanted' = <<>> /\ wanted_at' = <<>>
  /\ got' = <<>> /\ at' = 1 /\ raws' = <<>> /\ accounted' = {} /\ next' = 1
  /\ pst' = <<>> /\ failed' = <<>> /\ asked' = {} /\ exit' = 0

Init ==
  /\ pc = "start" /\ todo = {} /\ folder = NoFolder /\ listed = {} /\ tree = {}
  /\ lo = 1 /\ hi = 1 /\ bytes = 0 /\ wanted = <<>> /\ wanted_at = <<>> /\ got = <<>> /\ at = 1
  /\ raws = <<>> /\ accounted = {} /\ next = 1 /\ pst = <<>> /\ failed = <<>> /\ asked = {} /\ exit = 0
  /\ run = 1
  /\ spool = [k \in Keys |-> NoBody]

Step == ListFolders \/ NextFolder \/ ListMessages \/ TakeIntoBatch \/ StartBatch
          \/ LookUpSpool \/ FolderDone \/ FetchBatch \/ Collect \/ Write \/ Finish

Next == Step \/ Restart

\* The tool is one thread that runs until it exits; nothing obliges anyone to
\* start it again.
Spec == Init /\ [][Next]_vars /\ WF_vars(Step)

----------------------------------------------------------------------------
(* Correctness.                                                            *)

Messages == UNION {{f} \X DOMAIN Mailbox[f] : f \in Folders}

Bodies == {NoBody} \cup [of : Keys, whole : BOOLEAN]

\* The locals of run() keep their types; a batch and the write loop's
\* index stay within the listing of the folder.
TypeOK ==
  /\ pc \in {"start", "folder", "listing", "batch", "lookup", "fetch", "collect", "write",
             "exited"}
  /\ todo \subseteq Folders /\ listed \subseteq Folders /\ folder \in Folders \cup {NoFolder}
  /\ tree \subseteq UNION {Ancestors(Path[f]) : f \in Folders}
  /\ pc \in {"batch", "lookup", "fetch", "collect", "write"} =>
       {lo, hi} \subseteq 1 .. (Len(metas) + 1)
  /\ pc \in {"lookup", "write"} => next \in lo .. (hi - 1)
  /\ wanted \in Seq([uid : Nat, size : Nat]) /\ wanted_at \in Seq(DOMAIN raws)
  /\ got \in Seq(Bodies) /\ at \in Nat /\ (pc = "collect" => at \in DOMAIN wanted)
  /\ bytes \in Nat /\ accounted \subseteq DOMAIN raws
  /\ \A i \in DOMAIN raws : raws[i] \in Bodies
  /\ \A k \in DOMAIN pst : <<pst[k].folder, pst[k].index>> \in Messages
  /\ \A k \in DOMAIN failed : <<failed[k].folder, failed[k].index>> \in Messages
  /\ spool \in [Keys -> Bodies] /\ asked \subseteq Keys
  /\ run \in 1 .. MaxRuns /\ exit \in {0, 1}

Occurrences(s, f, i) == Cardinality({k \in DOMAIN s : s[k].folder = f /\ s[k].index = i})

\* "Every message the server listed has to end up either in the PST or in the
\* failure list" (pipeline.cpp:235-238): never twice, never in both, and once
\* its batch is through, never in neither, whatever mixture of spool hits,
\* short batches, single fetches and refusals the batch went through.
NothingLost ==
  \A f \in listed : \A i \in DOMAIN Mailbox[f] :
    LET n == Occurrences(pst, f, i) + Occurrences(failed, f, i)
    IN  /\ n <= 1
        /\ (f # folder \/ i < lo \/ pc \in {"folder", "exited"}) => n = 1

\* A message is written with its own source, and a failure is reported under
\* its own UID, never those of a neighbour in the batch: the vectors wanted,
\* wanted_at and got, which leave out what the spool served, lead every body and
\* every failure back to the place its listing entry has in the batch.
OwnSource ==
  \A s \in {pst, failed} : \A k \in DOMAIN s : s[k].body.of = Key(s[k].folder, s[k].index)

\* Messages of a folder reach the PST in the order the server listed them.
ListingOrder ==
  \A j, k \in DOMAIN pst :
    j < k /\ pst[j].folder = pst[k].folder => pst[j].index < pst[k].index

\* Exit status 0 means that every message that was listed is in the PST.
ZeroMeansMigrated ==
  pc = "exited" /\ exit = 0 =>
    \A f \in listed : \A i \in DOMAIN Mailbox[f] : Occurrences(pst, f, i) = 1

\* A later run asks the server only for what no earlier run has spooled: "a
\* second run pays only for what the first had not yet downloaded" (README.md).
NoRefetch == [][\A k \in asked' \ asked : ~Spooling \/ spool[k] = NoBody]_vars

\* Every run comes to an end, whatever the server does.
Terminates == <>[](pc = "exited")

\* Refinement: what the pipeline does to the messages is a Migration.
Status == [m \in Messages |->
             IF Occurrences(pst, m[1], m[2]) > 0 THEN "migrated"
             ELSE IF Occurrences(failed, m[1], m[2]) > 0 THEN "failed"
             ELSE IF m[1] \in listed THEN "pending" ELSE "unlisted"]

M == INSTANCE Migration WITH status <- Status, closed <- (pc = "exited")

\* The pipeline implements Migration: messages are settled one at a time, for
\* good, and the run does not exit with a listed message unsettled.
ImplementsMigration == M!Spec

\* README.md:114 says "Exit status is 0 when everything migrated".
ZeroMeansEverything ==
  pc = "exited" /\ exit = 0 =>
    \A f \in Selectable : Path[f] # <<>> /\ (OnlyFolders = {} \/ f \in OnlyFolders) =>
      \A i \in DOMAIN Mailbox[f] : Occurrences(pst, f, i) = 1

\* A message counted as migrated is in the PST with all of its source:
\* "`--spool DIR` keeps each message's source on disk and reuses it next time"
\* (README.md:125).
WholeSource == \A k \in DOMAIN pst : pst[k].body.whole
=============================================================================
