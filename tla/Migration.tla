----------------------------- MODULE Migration -----------------------------
(***************************************************************************)
(* What a migration promises about the messages of a mailbox, without      *)
(* folders, batches, spool or fetches: once the server has listed a        *)
(* message it is settled exactly once, as migrated or as failed, and a run *)
(* does not end before every listed message is settled.  Pipeline          *)
(* implements this specification.                                          *)
(***************************************************************************)
CONSTANT Messages

VARIABLES
  status,  \* what became of each message in this run
  closed   \* the run has ended

Init == status = [m \in Messages |-> "unlisted"] /\ closed = FALSE

\* The server names a set of messages.
Announce(S) ==
  /\ ~closed
  /\ \A m \in S : status[m] = "unlisted"
  /\ status' = [m \in Messages |-> IF m \in S THEN "pending" ELSE status[m]]
  /\ UNCHANGED closed

Settle(m, outcome) ==
  /\ ~closed /\ status[m] = "pending"
  /\ status' = [status EXCEPT ![m] = outcome]
  /\ UNCHANGED closed

Close ==
  /\ ~closed /\ \A m \in Messages : status[m] # "pending"
  /\ closed' = TRUE /\ UNCHANGED status

\* A crash, or simply the next run: the PST is always written from scratch.
Restart == status' = [m \in Messages |-> "unlisted"] /\ closed' = FALSE

Next ==
  \/ \E S \in SUBSET Messages : Announce(S)
  \/ \E m \in Messages, outcome \in {"migrated", "failed"} : Settle(m, outcome)
  \/ Close
  \/ Restart

Spec == Init /\ [][Next]_<<status, closed>>
=============================================================================
