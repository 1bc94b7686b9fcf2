SPECIFICATION FairSpec
CONSTANTS
  Runs = {r1, r2}
  Clients = {c1}
  NoRun = NoRun
  MaxRestarts = 1
INVARIANT
  PriorMeansPrior
CHECK_DEADLOCK FALSE
