\* Three strikes: a git strike followed by a retry, and by an escalation.
SPECIFICATION GitSpec
CONSTANTS
  MaxStrikes = 3
  MaxEscalations = 0
INVARIANTS
  DoneIsCommitted
PROPERTIES
  CommitsOnlyValidated
  RefinesGraph
\* The graph stops at END or at an exception.
CHECK_DEADLOCK FALSE
