--------------------------- MODULE TicketLifecycle ---------------------------
(***************************************************************************)
(* What a run of Syndicate promises about its one ticket, without nodes,   *)
(* routers or counters: the agent makes at most Budget attempts on the     *)
(* workspace; the contents are judged, and a judgement is void once they   *)
(* change; what happened is recorded exactly once, after the last attempt  *)
(* and before the ticket is settled; and a ticket is settled as done or    *)
(* validated only while a passing judgement of its contents stands.  A run *)
(* may fail instead, but not once the record is made.                      *)
(***************************************************************************)
EXTENDS Integers

CONSTANT Budget   \* attempts one ticket may cost

VARIABLES
  outcome,    \* "open" until the run has ended
  tries,      \* attempts made so far
  good,       \* the contents of the workspace, as they are, have passed
  recorded    \* the ledger has the ticket

lifecycle == <<outcome, tries, good, recorded>>

Opened ==
  /\ outcome = "open"
  /\ tries = 0
  /\ good = FALSE
  /\ recorded = FALSE

InWork == outcome = "open" /\ ~recorded

\* One or more attempts.  An attempt can spoil contents that were good.
Attempt ==
  /\ InWork
  /\ tries' \in (tries + 1) .. Budget
  /\ good' \in {FALSE, good}
  /\ UNCHANGED <<outcome, recorded>>

\* The contents are judged, after at least one attempt.
Judge ==
  /\ InWork /\ tries > 0
  /\ good' \in BOOLEAN
  /\ UNCHANGED <<outcome, tries, recorded>>

Record ==
  /\ InWork
  /\ recorded' = TRUE
  /\ UNCHANGED <<outcome, tries, good>>

Settle ==
  /\ outcome = "open" /\ recorded
  /\ outcome' \in (IF good THEN {"done", "validated", "escalated"} ELSE {"escalated"})
  /\ UNCHANGED <<tries, good, recorded>>

\* An exception, perhaps in the middle of an attempt.
Fail ==
  /\ InWork
  /\ outcome' = "failed"
  /\ tries' \in tries .. Budget
  /\ good' \in {FALSE, good}
  /\ UNCHANGED recorded

Proceed == Attempt \/ Judge \/ Record \/ Settle \/ Fail

Lifecycle == Opened /\ [][Proceed]_lifecycle

\* A ticket is not left open for ever.
FairLifecycle == Lifecycle /\ WF_lifecycle(Proceed)
=============================================================================
