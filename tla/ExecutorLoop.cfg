\* Three strikes, two turns of up to two tools each: every retry path, the turn
\* cap and an answer with several blocks occur.
SPECIFICATION LoopSpec
CONSTANTS
  MaxStrikes = 3
  MaxEscalations = 0
  MaxToolCalls = 2
  MaxBlocks = 2
INVARIANTS
  CallsBounded
  ConversationWellFormed
  StrikeStartsInformed
PROPERTIES
  RefinesGraph
\* The graph stops at END or at an exception.
CHECK_DEADLOCK FALSE
