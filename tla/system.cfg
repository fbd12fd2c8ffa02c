SPECIFICATION Spec
CONSTANTS
  Chapter = {1}
  Body = {b1}
  NoBody = NoBody
  Platform = {fanqie}
  Format = {txt}
  KeepBibles = 2
  Configs <- NoConfigs
  DefaultPlan <- NoStages
  AttemptCap = 8
  AutoResume = TRUE
  w1 = w1  w2 = w2  p1 = p1  p2 = p2
  Worker = {w1}
  Process = {p1}
  Home <- OneHome
  MaxAttempts = 2
  AutoExport = TRUE
  Txt = txt
  LeaseMayLapse = TRUE
  MaxFaults = 1
  Request = {r1, r2}
  Ops = {"generate", "cancel", "review", "approve", "edit", "rollback", "export", "publish",
         "rewrite"}
  CancelOf = {"PENDING", "RUNNING"}
  MaxRequests = 4
  MaxOutages = 1
INVARIANTS TypeOK ApprovedOnlyAfterPass ExportedHasFile  RunningHasLease
