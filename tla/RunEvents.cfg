\* The shipped strike budget, and an escalation budget that one escalation
\* exceeds, so that run_status changes too.
SPECIFICATION RunSpec
CONSTANTS
  MaxStrikes = 3
  MaxEscalations = 0
INVARIANTS
  OneTerminalEvent
  StrikesReported
  EscalationReported
  EventsBounded
PROPERTIES
  RunEnds
\* A run stops when it has reached a final status.
CHECK_DEADLOCK FALSE
