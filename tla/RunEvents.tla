----------------------------- MODULE RunEvents ------------------------------
(***************************************************************************)
(* drive_run (server/runner.py) over SyndicateGraph: what a run submitted   *)
(* through POST /runs tells its watchers.  Each update LangGraph streams is *)
(* turned into events before the graph goes on; _extract_attempts and      *)
(* _extract_escalation derive extra events from the node's delta and from  *)
(* the bookkeeping in the RunRecord.                                       *)
(*                                                                         *)
(* attempt_log is a number of lines in SyndicateGraph; here `lines` says   *)
(* what kind each line is, because _extract_attempts takes every line with *)
(* the text "fast_check" in it for a strike, an agent's summary included.  *)
(***************************************************************************)
EXTENDS SyndicateGraph, FiniteSets

VARIABLES
  status,                  \* RunRecord.status
  events,                  \* the backlog: the kind of every event emitted
  last_attempt_log_len,
  last_escalation_count,
  last_run_status,
  lines                    \* the lines of attempt_log

record == <<status, events, last_attempt_log_len, last_escalation_count, last_run_status>>
eventVars == <<vars, record, lines>>

\* A line of the log: an agent's summary, one that happens to contain the text
\* "fast_check", the result of the fast checks, or anything else.
LineKinds == {"summary", "summary_fast_check", "fast_check", "other"}
Mentions(line) == line \in {"summary_fast_check", "fast_check"}

\* The kinds that end a stream.  The others are run_started, node_update,
\* attempt and escalation.
Terminal == {"run_completed", "run_failed"}

\* build_initial_state seeds a ticket and no issue.
RunInit ==
  /\ Init
  /\ ~issue /\ active_ticket = ServerTicket
  /\ status = "queued"
  /\ events = <<>>
  /\ last_attempt_log_len = 0
  /\ last_escalation_count = 0
  /\ last_run_status = "none"
  /\ lines = <<>>

\* drive_run begins.
Start ==
  /\ status = "queued"
  /\ status' = "running"
  /\ events' = <<"run_started">>
  /\ UNCHANGED <<vars, lines, last_attempt_log_len, last_escalation_count, last_run_status>>

-----------------------------------------------------------------------------
\* The log after the step just taken: two lines per strike, two from the mock
\* executor, the git commands; advance empties it.
StrikeLines(n) ==
  { [i \in 1 .. 2 * n |-> IF i % 2 = 0 THEN "fast_check" ELSE summaries[(i + 1) \div 2]] :
      summaries \in [1 .. n -> {"summary", "summary_fast_check"}] }

OtherLines(n) == { [i \in 1 .. n |-> "other"] }

LogGrows ==
  IF attempt_log' < attempt_log
  THEN lines' = <<>>
  ELSE \E more \in IF node = "executor" /\ ~mock
                   THEN StrikeLines((attempt_log' - attempt_log) \div 2)
                   ELSE OtherLines(attempt_log' - attempt_log) : lines' = lines \o more

extract_attempts_Bug ==  \* the length already seen is ignored
  IF node # "executor" THEN <<>>
  ELSE LET found == {i \in DOMAIN lines' : Mentions(lines'[i])}
       IN  [i \in 1 .. Cardinality(found) |-> "attempt"]

\* _extract_attempts: an attempt event for every new line that has "fast_check"
\* in it, in an executor delta.
extract_attempts ==
  IF node # "executor" THEN <<>>
  ELSE LET found == {i \in last_attempt_log_len + 1 .. Len(lines') : Mentions(lines'[i])}
       IN  [i \in 1 .. Cardinality(found) |-> "attempt"]

extract_escalation_Bug ==  \* only the run-wide count is looked at
  IF node = "escalate" /\ escalation_count' # last_escalation_count
  THEN <<"escalation">> ELSE <<>>

\* _extract_escalation: a new escalation_count or run_status in the delta, or
\* ESCALATED in it whether or not it is new.  Only executor and escalate
\* return a ticket_status that can be ESCALATED, only escalate the other two.
extract_escalation ==
  IF \/ node = "escalate" /\ escalation_count' # last_escalation_count
     \/ node = "escalate" /\ run_status' \notin {"none", last_run_status}
     \/ node \in {"executor", "escalate"} /\ ticket_status' = "escalated"
  THEN <<"escalation">>
  ELSE <<>>

\* One update of the stream: node_update, then what is derived from it.
Update ==
  /\ status = "running"
  /\ Next /\ node' # "raised"
  /\ LogGrows
  /\ events' = events \o <<"node_update">> \o extract_attempts \o extract_escalation
  /\ last_attempt_log_len' = IF node = "executor" THEN attempt_log' ELSE last_attempt_log_len
  /\ last_escalation_count' = IF node = "escalate" THEN escalation_count'
                                                   ELSE last_escalation_count
  /\ last_run_status' = IF node = "escalate" THEN run_status' ELSE last_run_status
  /\ UNCHANGED status

Fails_Bug ==  \* the exception ends the task unseen
  /\ status = "running"
  /\ Next /\ node' = "raised"
  /\ UNCHANGED <<record, lines>>

\* astream raises; what the failing node did to the log is never seen.
Fails ==
  /\ status = "running"
  /\ Next /\ node' = "raised"
  /\ status' = "failed"
  /\ events' = Append(events, "run_failed")
  /\ UNCHANGED <<lines, last_attempt_log_len, last_escalation_count, last_run_status>>

\* The graph has ended and its final state is read back.
Completes ==
  /\ status = "running" /\ node = "end"
  /\ status' = IF ticket_status = "escalated" THEN "escalated" ELSE "completed"
  /\ events' = Append(events, "run_completed")
  /\ UNCHANGED <<vars, lines, last_attempt_log_len, last_escalation_count, last_run_status>>

ReadBackFails_Bug ==  \* the terminal event goes out before the final state is read
  /\ status = "running" /\ node = "end"
  /\ status' = "failed"
  /\ events' = events \o <<"run_completed", "run_failed">>
  /\ UNCHANGED <<vars, lines, last_attempt_log_len, last_escalation_count, last_run_status>>

\* Reading it back fails: the run is reported as failed although it has ended.
ReadBackFails ==
  /\ status = "running" /\ node = "end"
  /\ status' = "failed"
  /\ events' = Append(events, "run_failed")
  /\ UNCHANGED <<vars, lines, last_attempt_log_len, last_escalation_count, last_run_status>>

RunNext == Start \/ Update \/ Fails \/ Completes \/ ReadBackFails

RunSpec == RunInit /\ [][RunNext]_eventVars /\ WF_eventVars(RunNext)

-----------------------------------------------------------------------------
Count(kinds) == Cardinality({i \in DOMAIN events : events[i] \in kinds})

\* Whatever happens to the graph, the stream starts with run_started and its
\* only terminal event is its last one, there exactly when the record has
\* reached a final status: this is what lets stream_run and the browser stop.
OneTerminalEvent ==
  /\ events # <<>> => events[1] = "run_started"
  /\ Count(Terminal) = IF status \in {"queued", "running"} THEN 0 ELSE 1
  /\ Count(Terminal) = 1 => events[Len(events)] \in Terminal

\* No strike goes unreported and no line of the log is reported twice, over any
\* number of visits to the executor, each of which returns the whole log: there
\* is an attempt event for every agentic loop (none for the mock executor, which
\* has no strikes), and while there is a log, exactly one for each of its lines
\* that mention the fast checks.  More than one per strike is possible, when a
\* summary mentions them too.
StrikesReported ==
  status # "failed" =>
    /\ IF mock THEN Count({"attempt"}) = 0 ELSE attempts <= Count({"attempt"})
    /\ lines # <<>> =>
         Count({"attempt"}) = Cardinality({i \in DOMAIN lines : Mentions(lines[i])})

\* A run that ends escalated has said so on the way, also when it was the
\* executor that gave up and nothing was counted; and one that never escalated
\* has not.
EscalationReported ==
  status \in {"completed", "escalated"} =>
    (Count({"escalation"}) > 0 <=> status = "escalated")

\* One run's events are few: far below _BACKLOG_MAXLEN (2000) for the shipped
\* budget of three strikes, so the backlog of a run is complete.
EventBound == SuperstepBound + 2 * MaxStrikes + 4
EventsBounded == Len(events) <= EventBound

\* Every run comes to a final status for good, and one other than "failed" is
\* the graph's own outcome: the graph has reached END, and the record says
\* escalated exactly when the ticket is.  ("failed" does not say that the graph
\* failed: the final state may be the thing that could not be read.)
RunEnds ==
  <>[](\/ status = "failed"
       \/ /\ node = "end" /\ status \in {"completed", "escalated"}
          /\ status = "escalated" <=> ticket_status = "escalated")

-----------------------------------------------------------------------------
(* What the repository says of itself and the code does not do.            *)

\* runner.py: "an executor delta that appends attempt_log entries also yields
\* one `attempt` event per completed strike".
AttemptPerStrike ==
  status # "failed" /\ ~mock => Count({"attempt"}) = attempts
=============================================================================
