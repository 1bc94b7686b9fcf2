SPECIFICATION HarnessSpec
CONSTANTS
  MaxStrikes = 3
  MaxEscalations = 1
  MaxToolCalls = 25
  MaxBlocks = 1
INVARIANTS
  ScenariosPass
  ContextCompact
PROPERTY
  ScenarioEnds
\* A script that is done has nothing left to do.
CHECK_DEADLOCK FALSE
