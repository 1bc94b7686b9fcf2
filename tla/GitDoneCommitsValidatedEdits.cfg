SPECIFICATION GitSpec
CONSTANTS
  MaxStrikes = 3
  MaxEscalations = 3
INVARIANT
  DoneCommitsValidatedEdits
CHECK_DEADLOCK FALSE
