\* The first strike already shows it: its summary may mention the fast checks.
SPECIFICATION RunSpec
CONSTANTS
  MaxStrikes = 2
  MaxEscalations = 0
INVARIANT
  AttemptPerStrike
CHECK_DEADLOCK FALSE
