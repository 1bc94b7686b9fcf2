SPECIFICATION FairSpec
CONSTANTS
  r1 = r1
  r2 = r2
  Runs = {r1, r2}
  PriorRuns = {p1}
  Script <- MCScript
  NoRun = NoRun
  None = None
  MaxClicks = 2
  MaxLosses = 1
INVARIANTS
  TimelineFaithful
  PillFollowsRun
PROPERTIES
  PromptComesBack
  PageCatchesUp
