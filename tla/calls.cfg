SPECIFICATION Spec
CONSTANTS
  Clients = {"async", "sync"}
  Stages = 2
  Retries = 1
  Timeout = 3
  OpenMax = 4
  WaitCap = 2
  SyncCap = 1
  Gap = 1
  MaxPieces = 2
INVARIANTS CallsTypeOK CallBounded JobBounded
PROPERTIES StreamsAnswers
