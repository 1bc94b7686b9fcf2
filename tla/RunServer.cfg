\* Three submissions, a GET /runs that overlaps any of them, one restart.
SPECIFICATION FairSpec
CONSTANTS
  Runs = {r1, r2, r3}
  Clients = {c1}
  NoRun = NoRun
  MaxRestarts = 1
INVARIANTS
  SlotIsTheLiveRun
  ListingComplete
PROPERTIES
  SlotIsReleased
\* With every id used up and every run ended the server is idle.
CHECK_DEADLOCK FALSE
