\* Two viewers, a run longer than its backlog, one broken connection: replay,
\* live tail, eviction and reconnection all overlap.
SPECIFICATION FairSpec
CONSTANTS
  Viewers = {v1, v2}
  LastSeq = 4
  BacklogMax = 3
  MaxDrops = 1
INVARIANTS
  NoDuplicates
  GapsOnlyByEviction
PROPERTIES
  EveryoneSeesTheEnd
