SPECIFICATION BusSpec
CONSTANTS
  j1 = j1  j2 = j2  n1 = n1  n2 = n2
  Job = {j1, j2}
  Novel = {n1, n2}
  NovelOf <- OneNovel
  Plan <- Mixed
  Slot = {s1}
  MaxPieces = 2
  MaxClaims = 2
  MaxFaults = 1
  MaxGone = 0
INVARIANTS BusTypeOK AnnouncedIsSaved DeltasInOrder AnswersArePublished
CHECK_DEADLOCK FALSE
