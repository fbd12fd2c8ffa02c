SPECIFICATION Spec
CONSTANTS
  Chapter = {1}
  Body = {b1, b2}
  NoBody = NoBody
  Platform = {fanqie}
  Format = {txt}
  KeepBibles = 2
  Configs <- NoConfigs
  DefaultPlan <- NoStages
  AttemptCap = 8
  AutoResume = TRUE
  w1 = w1  w2 = w2  p1 = p1  p2 = p2
  Worker = {}
  Process = {}
  Home <- NoHome
  MaxAttempts = 2
  AutoExport = FALSE
  Txt = txt
  LeaseMayLapse = FALSE
  MaxFaults = 0
  Request = {r1, r2}
  Ops = {"generate", "edit", "review", "export", "publish"}
  CancelOf = {"PENDING", "RUNNING"}
  MaxRequests = 6
  MaxOutages = 0
INVARIANTS PublishedPassedReview
SYMMETRY BodySymmetry
CHECK_DEADLOCK FALSE
