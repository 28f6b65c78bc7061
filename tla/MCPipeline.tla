----------------------------- MODULE MCPipeline -----------------------------
(* Small mailboxes for Pipeline.  "inbox" holds three messages, two under  *)
(* one UID, that fit the byte budget together, so the count ends the batch;*)
(* "work", whose parent the server does not select, holds one message over *)
(* the budget and one that the budget keeps out of its batch.              *)
EXTENDS Pipeline

MCFolders == {"inbox", "parent", "work"}
MCSelectable == {"inbox", "work"}
MCPath == [inbox |-> <<"INBOX">>, parent |-> <<"Projects">>, work |-> <<"Projects", "Work">>]
MCMailbox == [inbox  |-> <<[uid |-> 4, size |-> 2], [uid |-> 7, size |-> 1], [uid |-> 4, size |-> 1]>>,
              parent |-> <<>>,
              work   |-> <<[uid |-> 4, size |-> 5], [uid |-> 5, size |-> 1]>>]
\* The same without the repeated UID: only a later run can read what this one
\* has spooled.
MCDistinctMailbox == [MCMailbox EXCEPT !["inbox"] = SubSeq(@, 1, 2)]
MCAnyOutcome == {"whole", "torn", "none"}
=============================================================================
