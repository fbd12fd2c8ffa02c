SPECIFICATION FairSpec
CONSTANTS
  j1 = j1  j2 = j2  n1 = n1  n2 = n2
  Job = {j1, j2}
  Novel = {n1, n2}
  NovelOf <- TwoNovels
  Plan <- OneCall
  Slot = {s1}
  MaxPieces = 1
  MaxClaims = 2
  MaxFaults = 0
  MaxGone = 1
  Followed = n1
  Batch = 2
  MaxReads = 2
  MaxBreaks = 1
INVARIANTS StreamTypeOK NothingMissed
PROPERTIES FollowsFeed EventsArrive PageCatchesUp
CHECK_DEADLOCK FALSE
