\* The shipped strike budget; an escalation budget of zero, so that the only
\* escalation a single-ticket run can make is already over it.
SPECIFICATION FairSpec
CONSTANTS
  MaxStrikes = 3
  MaxEscalations = 0
INVARIANTS
  TypeOK
  AttemptsBounded
  WithinRecursionLimit
  DoneIsVerified
  LedgerClosesRun
  SettledOutcome
  FreshFeedback
  GroundedCommand
PROPERTIES
  AdvanceIsFinal
  KeepsPromise
\* The graph stops at END or at an exception.
CHECK_DEADLOCK FALSE
